---------------------------- MODULE MCComposeEnv ----------------------------
(* Instances of ComposeEnv for TLC: the manifests, and what the sources      *)
(* hold.                                                                     *)
EXTENDS ComposeEnv, TLC

CONSTANTS n1, n2, s, t, j, k

Secret == [kind |-> "Secret", name |-> "x"]
ConfigMap == [kind |-> "ConfigMap", name |-> "y"]
Refs == {Secret, ConfigMap}

From(ref, services) == [ref |-> ref, services |-> services]
To(name, value, services) == [name |-> name, value |-> value, services |-> services]
M(kind, services, envFrom, env, mounts) ==
    [kind |-> kind, services |-> services, envFrom |-> envFrom, env |-> env, mounts |-> mounts,
     namespaces |-> IF kind = "DaemonSet" THEN {n1, n2} ELSE {n1}]

One == s :> <<>>
Two == s :> (j :> Lit("own")) @@ t :> <<>>

(* Both sources for two services; entries for one service, in either order;  *)
(* a variable set before its use, and after; a mount of each kind.           *)
Apps ==
    {M("App", Two, <<From(Secret, {}), From(ConfigMap, {s})>>, <<To(k, Var(j), {t})>>, <<From(Secret, {s})>>),
     M("App", Two, <<From(ConfigMap, {t}), From(None, {}), From(Secret, {t})>>,
       <<To(j, Lit("set"), {}), To(k, Var(j), {s}), To(j, Var(k), {s})>>,
       <<From(ConfigMap, {}), From(None, {})>>),
     M("App", One, <<From(Secret, {})>>, <<To(j, Var(k), {}), To(k, Lit("set"), {})>>,
       <<From(Secret, {}), From(Secret, {})>>)}
(* A service that is not there, in each list; no services.                   *)
Wrong ==
    {M("App", One, <<From(Secret, {t}), From(ConfigMap, {})>>, <<>>, <<>>),
     M("App", One, <<>>, <<To(k, Lit("set"), {t})>>, <<>>),
     M("App", One, <<>>, <<>>, <<From(Secret, {t})>>),
     M("App", None, <<From(Secret, {})>>, <<>>, <<>>)}
Others ==
    {M("DaemonSet", One, <<From(Secret, {})>>, <<To(k, Var(j), {})>>, <<From(Secret, {})>>),
     M("Job", One, <<From(ConfigMap, {t}), From(Secret, {})>>, <<To(k, Var(j), {t})>>, <<From(Secret, {t})>>)}
AllManifests == Apps \union Wrong \union Others

Holds(data, stringData) == [data |-> data, stringData |-> stringData]
(* A store where all is in place, and one where a source is empty.           *)
Stores ==
    {[x \in {n1, n2} \X Refs |->
        CASE x = <<n1, Secret>> -> Holds(j :> "1" @@ k :> "1", k :> "2")
          [] x = <<n2, Secret>> -> Holds(j :> "3", <<>>)
          [] OTHER -> Holds(j :> "4" @@ k :> "4", <<>>)],
     [x \in {n1, n2} \X Refs |-> Holds(IF x[2] = Secret THEN <<>> ELSE k :> "5", <<>>)]}
LaterSources == {None, Broken, Holds(k :> "6", <<>>)}
=============================================================================
