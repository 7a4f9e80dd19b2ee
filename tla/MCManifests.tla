---------------------------- MODULE MCManifests ----------------------------
(* Instances of Manifests for TLC: the objects, and the commands issued. *)
EXTENDS Manifests, SequencesExt, TLC

CONSTANTS n1, n2, v1, v2

Objects == {Place(k, n1) : k \in {"namespace", "secret", "app"}} \union {Place(k, n2) : k \in {"namespace", "secret"}}

Doc(kind, version) == [kind |-> kind, ns |-> n1, version |-> version]
Ask(verb, ds) == [verb |-> verb, docs |-> ds, override |-> None, dry |-> FALSE]
Dry(r) == [r EXCEPT !.dry = TRUE]
Into(r, ns) == [r EXCEPT !.override = ns]

(* A file with a namespace, a secret and an App, in every order. *)
Whole(version) == SetToSeqs({Doc(k, version) : k \in {"namespace", "secret", "app"}})
AnyFile ==
    Whole(v1)
      \union {<<Doc("app", v1)>>, <<Doc("secret", v2), Doc("app", v1), Doc("secret", v1)>>,
              <<Doc("app", v2), Doc("unknown", v1), Doc("namespace", v1)>>}
ExportKinds == <<Doc("app", v1), Doc("namespace", v1), Doc("secret", v1)>>

(* One process: every file with every verb. *)
Alone ==
    {Ask(verb, ds) : verb \in {"apply", "delete"}, ds \in AnyFile}
      \union {Dry(Ask(verb, ds)) : verb \in {"apply", "delete", "start"}, ds \in {<<Doc("app", v1)>>}}
      \union {Ask("start", <<Doc("app", v1)>>), Ask("start", CHOOSE ds \in Whole(v1) : TRUE)}
      \union {Into(Ask(verb, <<Doc("secret", v1)>>), n2) : verb \in {"apply", "delete"}}
      \union {Ask("apply", <<[Doc("secret", v1) EXCEPT !.ns = n2]>>), Ask("create", <<Doc("namespace", v1)>>)}
      \union {Ask("export", ExportKinds)}

(* Two processes: single documents, for a secret and its namespace. *)
Changing ==
    {Ask("apply", <<Doc("secret", v2)>>), Ask("create", <<Doc("namespace", v1)>>),
     Ask("delete", <<Doc("secret", v1)>>), Ask("delete", <<Doc("namespace", v1)>>)}
Reading ==
    {Ask("label", <<Doc("secret", v1)>>), Ask("edit", <<Doc("secret", v1)>>),
     Dry(Ask("label", <<Doc("secret", v1)>>)), Ask("export", Tail(ExportKinds))}

Scenarios ==
    LET q == CHOOSE q \in Process : TRUE
    IN  {[p \in Process |-> IF p = q THEN Alone ELSE {}],
         [p \in Process |-> IF p = q THEN Changing ELSE Changing \union Reading]}
=============================================================================
