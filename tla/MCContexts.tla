----------------------------- MODULE MCContexts -----------------------------
(* Instances of Contexts for TLC: the command lines issued. *)
EXTENDS Contexts, TLC

Ask(verb, name, backend) == [verb |-> verb, name |-> name, backend |-> backend]

CONSTANT c1

(* Every name with every verb; new with a local directory, and for one     *)
(* name and the empty one with a bucket.                                   *)
EveryVerb ==
    {Ask("new", n, "local") : n \in Name} \union {Ask("new", n, "s3") : n \in {c1, NoName}}
      \union {Ask(v, n, "local") : v \in {"use", "delete"}, n \in Name}
      \union {Ask("run", NoName, "local")}

Symmetry == Permutations(Process)
=============================================================================
