--------------------------- MODULE MCAppLifecycle ---------------------------
(* Instances of AppLifecycle for TLC: the sets of command lines issued.    *)
EXTENDS AppLifecycle, TLC

Ask(verb, svcs, dry, consent) ==
    [verb |-> verb, svcs |-> svcs, dry |-> dry, consent |-> consent]

(* Every verb, in earnest, by a script that passes --yes. *)
EveryVerb ==
    {Ask("apply", S, FALSE, "yes") : S \in (SUBSET Service) \ {{}}}
      \union {Ask("import", S, FALSE, "yes") : S \in {{}, Service}}
      \union {Ask(v, {}, FALSE, "yes") : v \in {"start", "pause", "stop", "delete"}}

(* Commands that change nothing. *)
DryAndRefused ==
    {Ask("apply", Service, TRUE, "noTTY"), Ask("import", Service, TRUE, "noTTY"),
     Ask("start", {}, TRUE, "noTTY"), Ask("stop", {}, TRUE, "noTTY"),
     Ask("delete", {}, FALSE, "answeredN"), Ask("delete", {}, FALSE, "noTTY")}

(* With the ones they may overlap. *)
DryBesideEarnest ==
    DryAndRefused \union {Ask("apply", {s}, FALSE, "yes") : s \in Service} \union
    {Ask("stop", {}, FALSE, "noTTY"), Ask("delete", {}, FALSE, "answeredY")}

OneAtATime ==
    {Ask("apply", Service, FALSE, "yes"), Ask("stop", {}, FALSE, "noTTY"),
     Ask("delete", {}, FALSE, "yes"), Ask("start", {}, TRUE, "noTTY")}

(* Processes, services, secrets and hosts are only ever compared. *)
Symmetry == Permutations(Proc) \union Permutations(Service)
              \union Permutations(Secret) \union Permutations(Host)
=============================================================================
