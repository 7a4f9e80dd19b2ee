---------------------------- MODULE MCHostStatus ----------------------------
(* Instances of HostStatus for TLC: the containers, the commands, and where  *)
(* behaviours start.                                                         *)
EXTENDS HostStatus, TLC

CONSTANTS h1, h2, a

C(host, kind, ns, age) == [host |-> host, kind |-> kind, ns |-> ns, owner |-> a, age |-> age]

(* Two runs of a Job, a third that was left on another host; an App with two *)
(* services; a DaemonSet; an App of the same name in the other namespace.    *)
Runs == {C(h1, "Job", 1, 1), C(h1, "Job", 1, 2), C(h2, "Job", 1, 1)}
Services == {C(h1, "App", 1, 3), C(h1, "App", 1, 4)}
Agents == {C(h1, "DaemonSet", 1, 5)}
OfTheOther == {C(h1, "App", 2, 6)}
Containers == Runs \union Services \union Agents \union OfTheOther

Ask(verb, kind, ns, name) == [verb |-> verb, kind |-> kind, ns |-> ns, name |-> name]
Commands ==
    {Ask("get", kind, ns, None) : kind \in {"App", "Job"}, ns \in {1, None}}
      \union {Ask("get", "Job", 1, a), Ask("describe", "App", 1, a),
              Ask("describe", "DaemonSet", None, a), Ask("describe", "Namespace", 1, None)}

Worlds ==
    {[home |-> (1 :> h1 @@ 2 :> h), local |-> Object,
      state |-> [c \in Containers |-> CASE c.host = h1 /\ c.age = 2 -> "exited1"
                                        [] c.host = h2 -> "created"
                                        [] c.age = 5 -> "restarting"
                                        [] OTHER -> "running"]] : h \in {h1, h2}}

StatesReached == {"running", "exited0", "paused"}
=============================================================================
