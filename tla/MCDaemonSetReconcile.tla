------------------------ MODULE MCDaemonSetReconcile ------------------------
(* Instances of DaemonSetReconcile for TLC: the command lines issued. *)
EXTENDS DaemonSetReconcile, TLC

Ask(verb, version, dry, yes) == [verb |-> verb, version |-> version, dry |-> dry, yes |-> yes]

AnyVersion == CHOOSE v \in Version : TRUE

(* Every verb in earnest, a dry start and a delete that is refused. *)
EveryVerb ==
    {Ask("apply", v, FALSE, TRUE) : v \in Version}
      \union {Ask(verb, AnyVersion, FALSE, TRUE) : verb \in {"start", "stop", "delete"}}
      \union {Ask("start", AnyVersion, TRUE, TRUE), Ask("stop", AnyVersion, TRUE, TRUE),
              Ask("apply", AnyVersion, TRUE, TRUE), Ask("delete", AnyVersion, TRUE, TRUE),
              Ask("delete", AnyVersion, FALSE, FALSE)}

Symmetry == Permutations(Namespace)
=============================================================================
