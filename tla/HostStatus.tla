----------------------------- MODULE HostStatus -----------------------------
(***************************************************************************)
(* The commands that show what runs: get of Apps and Jobs (one, those of a *)
(* namespace, or all), describe of an App, a DaemonSet and a namespace.    *)
(* Each reads manifests and asks hosts from goroutines, each host once,    *)
(* while others change the manifests and containers come and go.           *)
(*                                                                         *)
(* Namespaces are numbers, in the order of their names.  A container has a *)
(* fixed host and a number that grows with its age: docker ps lists the    *)
(* latest first.  Object says which directories there can be below apps,   *)
(* jobs and daemonsets.                                                    *)
(***************************************************************************)
EXTENDS Naturals, FiniteSets

CONSTANTS
    Namespace,  \* numbers of namespaces
    Host,       \* machines, as SSHTarget names them
    Name,       \* names of Apps, Jobs and DaemonSets
    Container,  \* records of host, kind, ns, owner and age
    None,       \* no host, no name, no answer yet
    Command,    \* the commands issued
    World,      \* records of home, local and state: where a behaviour starts
    Reached,    \* states that containers go into beside a command
    Changes,    \* bound on what happens beside a command
    Faults      \* TRUE: reading the data directory may fail

Kind == {"App", "Job", "DaemonSet"}
State == {"created", "running", "exited0", "exited1", "paused", "restarting"}
Status == {"Running", "Stopped", "Degraded", "Restarting", "Paused", "NotFound", "Unknown",
           "Pending", "Succeeded", "Failed", "Never", "managed", "orphan", "unmanaged"}
Object == [kind : Kind, ns : Namespace, name : Name]
(* get of Apps and Jobs: of one, of those of a namespace, of all; describe.  *)
AllCommands ==
    [verb : {"get"}, kind : {"App", "Job"}, ns : Namespace, name : Name \union {None}]
      \union [verb : {"get"}, kind : {"App", "Job"}, ns : {None}, name : {None}]
      \union [verb : {"describe"}, kind : {"App"}, ns : Namespace, name : Name]
      \union [verb : {"describe"}, kind : {"DaemonSet"}, ns : {None}, name : Name]
      \union [verb : {"describe"}, kind : {"Namespace"}, ns : Namespace, name : {None}]
Home == [Namespace -> Host \union {None}]
Reported == Container \X State

ASSUME HostStatusAssumption ==
    /\ Namespace \subseteq Nat
    /\ Container \subseteq [host : Host, kind : Kind, ns : Namespace, owner : Name, age : Nat]
    /\ None \notin Host /\ None \notin Namespace /\ None \notin Name /\ None \notin State
    /\ \A S \in SUBSET Container : S # {} => \E c \in S : \A d \in S : d.age <= c.age
    /\ Command \subseteq AllCommands /\ Reached \subseteq State
    /\ Changes \in Nat /\ Faults \in BOOLEAN
    /\ World \subseteq [home : Home, local : SUBSET Object,
                        state : [Container -> State \union {None}]]

VARIABLES
    home,      \* home[ns]: the host in the manifest of ns, or None without one
    local,     \* the objects in the data directory
    state,     \* state[c]: of a container, or None when there is none
    up,        \* hosts that answer
    changes,   \* changes beside the commands so far
    pc, cmd,   \* the step and the command line
    asked,     \* namespaces the command is about
    toload,    \* namespaces whose manifest is still to be read
    tasks,     \* goroutines: records of ns, host, step and out
    answered,  \* namespaces marked as queried
    results,   \* what was kept of the answers
    listing,   \* names still to be looked at
    listed,    \* names with a manifest
    rows,      \* what is shown
    was        \* history: what was so at some instant since the command began

world == <<home, local, state, up, changes>>
progress == <<asked, toload, tasks, answered, results, listing, listed, rows>>
vars == <<world, pc, cmd, progress, was>>

Obj(kind, ns, name) == [kind |-> kind, ns |-> ns, name |-> name]
Task(ns) == [ns |-> ns, host |-> home[ns], step |-> "ask", out |-> {}]
Busy == pc \notin {"idle", "ok", "refused"}

-----------------------------------------------------------------------------
(* What docker says, and what is made of it. *)

(* The labels beside walheim.managed and walheim.namespace that the compose  *)
(* file of each kind gives its services.                                     *)
LabelsOf == [App |-> {"kind", "owner"}, DaemonSet |-> {"kind", "owner"}, Job |-> {"job"}]
HasLabel(c, label) == label \in LabelsOf[c.kind]

Output(h) == {<<c, state[c]>> : c \in {d \in Container : d.host = h /\ state[d] # None}}
About(out, ns, name) == {r \in out : r[1].ns = ns /\ r[1].owner = name}
WithLabel(out, label) == {r \in out : HasLabel(r[1], label)}
Latest(out) == {r \in out : \A s \in out : s[1].age <= r[1].age}

Exited == {"exited0", "exited1"}
Summary(out) ==
    CASE out = {} -> "NotFound"
      [] out # {} /\ \A r \in out : r[2] = "running" -> "Running"
      [] out # {} /\ \A r \in out : r[2] \in Exited -> "Stopped"
      [] OTHER -> CASE \E r \in out : r[2] = "running" -> "Degraded"
                    [] \A r \in out : r[2] \notin {"running", "paused"} ->
                         (IF \E r \in out : r[2] = "restarting" THEN "Restarting" ELSE "Unknown")
                    [] OTHER -> "Paused"

JobState == [running |-> "Running", created |-> "Pending", exited0 |-> "Succeeded",
             exited1 |-> "Failed", paused |-> "Unknown", restarting |-> "Unknown"]
RunStatus(out) == IF out = {} THEN {"Never"} ELSE {JobState[r[2]] : r \in Latest(out)}

(* Of an App none of whose containers runs, describe takes the last listed.  *)
AppState(out) ==
    CASE \A r \in out : r[2] = "running" -> {"Running"}
      [] OTHER -> CASE \E r \in out : r[2] = "running" -> {"Degraded"}
                    [] OTHER -> {CASE r[2] = "paused" -> "Paused" [] r[2] \in Exited -> "Stopped"
                                   [] OTHER -> "Unknown" :
                                 r \in {q \in out : \A s \in out : q[1].age <= s[1].age}}

-----------------------------------------------------------------------------
(* History: the homes of a namespace, hosts that did not answer, objects that *)
(* were there or were not, and the containers of each host; and the objects  *)
(* and namespaces that were not read because the data directory failed.      *)

Now == [homes |-> {<<ns, home[ns]>> : ns \in Namespace}, downs |-> Host \ up,
        there |-> local, gone |-> Object \ local, outs |-> {<<h, Output(h)>> : h \in Host},
        unread |-> {}, unloaded |-> {}]
Empty == [homes |-> {}, downs |-> {}, there |-> {}, gone |-> {}, outs |-> {},
          unread |-> {}, unloaded |-> {}]
History == [homes : SUBSET (Namespace \X (Host \union {None})), downs : SUBSET Host,
            there : SUBSET Object, gone : SUBSET Object, outs : SUBSET (Host \X SUBSET Reported),
            unread : SUBSET Object, unloaded : SUBSET Namespace]
Remember(a, b) == [f \in DOMAIN a |-> a[f] \union b[f]]

TypeOK ==
    /\ home \in Home /\ local \subseteq Object
    /\ state \in [Container -> State \union {None}]
    /\ up \subseteq Host /\ changes \in 0..Changes
    /\ pc \in {"idle", "one", "home", "valid", "load", "fetch", "list", "match", "names", "ds", "ps",
               "ok", "refused"}
    /\ cmd \in AllCommands \union {None}
    /\ asked \subseteq Namespace /\ toload \subseteq asked /\ answered \subseteq asked
    /\ tasks \subseteq [ns : asked, host : Host, step : {"ask", "failed", "got"}, out : SUBSET Reported]
    /\ results \subseteq Reported
    /\ listing \subseteq Object /\ listed \subseteq Object
    /\ rows \subseteq [of : Object \union Container, status : Status]
    /\ was \in History

Init ==
    /\ \E w \in World : home = w.home /\ local = w.local /\ state = w.state
    /\ up = Host /\ changes = 0
    /\ pc = "idle" /\ cmd = None
    /\ asked = {} /\ toload = {} /\ tasks = {} /\ answered = {} /\ results = {}
    /\ listing = {} /\ listed = {} /\ rows = {}
    /\ was = Empty

-----------------------------------------------------------------------------
(* Beside the command: others change manifests, hosts come and go, and so do *)
(* containers.                                                               *)

Elsewhere ==
    /\ Busy /\ changes < Changes /\ changes' = changes + 1
    /\ \/ \E ns \in Namespace, h \in Host \union {None} :
            h # home[ns] /\ home' = [home EXCEPT ![ns] = h] /\ UNCHANGED <<local, state, up>>
       \/ \E o \in Object :
            /\ local' = (IF o \in local THEN local \ {o} ELSE local \union {o})
            /\ UNCHANGED <<home, state, up>>
       \/ \E h \in Host :
            /\ up' = (IF h \in up THEN up \ {h} ELSE up \union {h})
            /\ UNCHANGED <<home, local, state>>
       \/ \E c \in Container, s \in Reached \union {None} :
            /\ s # state[c] /\ state' = [state EXCEPT ![c] = s]
            /\ state[c] = None =>
                 \A d \in Container : d.host = c.host /\ d.age < c.age => state[d] = None
            /\ UNCHANGED <<home, local, up>>
    /\ was' = Remember(was, Now')
    /\ UNCHANGED <<pc, cmd, progress>>

-----------------------------------------------------------------------------
(* A command begins, and ends.  It only reads: another one begins as if it   *)
(* had not been, in a state of World.                                        *)

Start(c) ==
    CASE c.kind = "DaemonSet" -> "match"
      [] c.kind = "Namespace" -> "one"
      [] c.kind \in {"App", "Job"} ->
           (IF c.ns = None THEN "valid" ELSE IF c.name = None THEN "load" ELSE "one")

Begin ==
    /\ pc = "idle"
    /\ \E c \in Command :
         /\ cmd' = c /\ pc' = Start(c)
         /\ asked' = {c.ns} \ {None} /\ toload' = {c.ns} \ {None}
    /\ was' = Now /\ UNCHANGED <<world, tasks, answered, results, listing, listed, rows>>

Refuse == pc' = "refused" /\ UNCHANGED <<world, cmd, progress, was>>

(* A read of the data directory fails: the command ends. *)
ReadFails ==
    /\ pc \in {"one", "home", "valid", "list", "match"} /\ Faults
    /\ Refuse

(* The manifest of what was named. *)
FindOne ==
    /\ pc = "one"
    /\ IF cmd.kind = "Namespace"
       THEN \/ home[cmd.ns] = None /\ Refuse
            \/ /\ home[cmd.ns] # None /\ pc' = "names"
               /\ tasks' = {Task(cmd.ns)}
               /\ UNCHANGED <<world, cmd, asked, toload, answered, results, listing, listed, rows, was>>
       ELSE \/ Obj(cmd.kind, cmd.ns, cmd.name) \notin local /\ Refuse
            \/ /\ Obj(cmd.kind, cmd.ns, cmd.name) \in local
               /\ pc' = IF cmd.verb = "describe" THEN "home" ELSE "load"
               /\ listed' = {Obj(cmd.kind, cmd.ns, cmd.name)}
               /\ UNCHANGED <<world, cmd, asked, toload, tasks, answered, results, listing, rows, was>>

(* describe of an App insists on its namespace. *)
FindHome ==
    /\ pc = "home"
    /\ \/ home[cmd.ns] = None /\ Refuse
       \/ home[cmd.ns] # None /\ pc' = "load" /\ UNCHANGED <<world, cmd, progress, was>>

ValidNamespaces ==
    /\ pc = "valid" /\ pc' = "load"
    /\ asked' = {ns \in Namespace : home[ns] # None} /\ toload' = asked'
    /\ UNCHANGED <<world, cmd, tasks, answered, results, listing, listed, rows, was>>

-----------------------------------------------------------------------------
(* prefetchStatus, prefetchJobStatus *)

(* One namespace after the other; one task per host, for the first on it.    *)
LoadNext ==
    /\ pc = "load"
    /\ \E ns \in toload :
         /\ \A m \in toload : ns <= m
         /\ toload' = toload \ {ns}
         /\ \/ home[ns] = None /\ UNCHANGED <<tasks, was>>
            \/ /\ Faults /\ UNCHANGED tasks
               /\ was' = [was EXCEPT !.unloaded = @ \union {ns}]
            \/ /\ home[ns] # None /\ UNCHANGED was
               /\ tasks' = IF \E t \in tasks : t.host = home[ns] THEN tasks
                           ELSE tasks \union {Task(ns)}
    /\ UNCHANGED <<world, pc, cmd, asked, answered, results, listing, listed, rows>>

Loaded ==
    /\ pc = "load" /\ toload = {} /\ pc' = "fetch"
    /\ UNCHANGED <<world, cmd, progress, was>>

(* Its answer: the goroutine does not hold the lock while it waits for it.   *)
Fetch ==
    /\ pc = "fetch"
    /\ \E t \in tasks :
         /\ t.step = "ask"
         /\ tasks' = (tasks \ {t}) \union
              {IF t.host \in up THEN [t EXCEPT !.step = "got", !.out = Output(t.host)]
               ELSE [t EXCEPT !.step = "failed"]}
    /\ UNCHANGED <<world, pc, cmd, asked, toload, answered, results, listing, listed, rows, was>>

(* Mutant: the last line about a job counts. *)
MergedLast(kind, old, out) ==
    IF kind = "App" THEN old \union WithLabel(out, "app")
    ELSE old \union {r \in WithLabel(out, "job") :
            /\ About(old, r[1].ns, r[1].owner) = {}
            /\ \A s \in About(WithLabel(out, "job"), r[1].ns, r[1].owner) : s[1].age >= r[1].age}

(* Of a Job only the latest run counts, and of two hosts the first to answer. *)
Merged(kind, old, out) ==
    IF kind = "App" THEN old \union WithLabel(out, "app")
    ELSE old \union {r \in WithLabel(out, "job") :
            /\ About(old, r[1].ns, r[1].owner) = {}
            /\ r \in Latest(About(WithLabel(out, "job"), r[1].ns, r[1].owner))}

(* Mutant: a host without containers does not count as queried. *)
MergeNonempty ==
    /\ pc = "fetch" /\ cmd.kind # "DaemonSet"
    /\ \E t \in tasks :
         /\ t.step # "ask"
         /\ tasks' = tasks \ {t}
         /\ IF t.step = "failed" \/ t.out = {} THEN UNCHANGED <<answered, results>>
            ELSE /\ answered' = answered \union {t.ns}
                 /\ results' = Merged(cmd.kind, results, t.out)
    /\ UNCHANGED <<world, pc, cmd, asked, toload, listing, listed, rows, was>>

(* Mutant: a goroutine whose host fails never reports to the wait group. *)
MergeStuck ==
    /\ pc = "fetch" /\ cmd.kind # "DaemonSet"
    /\ \E t \in tasks :
         /\ t.step = "got"
         /\ tasks' = tasks \ {t}
         /\ answered' = answered \union {t.ns}
         /\ results' = Merged(cmd.kind, results, t.out)
    /\ UNCHANGED <<world, pc, cmd, asked, toload, listing, listed, rows, was>>

Merge ==
    /\ pc = "fetch" /\ cmd.kind # "DaemonSet"
    /\ \E t \in tasks :
         /\ t.step # "ask"
         /\ tasks' = tasks \ {t}
         /\ IF t.step = "failed" THEN UNCHANGED <<answered, results>>
            ELSE /\ answered' = answered \union {t.ns}
                 /\ results' = Merged(cmd.kind, results, t.out)
    /\ UNCHANGED <<world, pc, cmd, asked, toload, listing, listed, rows, was>>

StatusOf(o) ==
    IF o.ns \notin answered THEN {"Unknown"}
    ELSE IF o.kind = "App" THEN {Summary(About(results, o.ns, o.name))}
    ELSE RunStatus(About(results, o.ns, o.name))

Table(objects) == UNION {{[of |-> o, status |-> s] : s \in StatusOf(o)} : o \in objects}

Fetched ==
    /\ pc = "fetch" /\ cmd.kind # "DaemonSet" /\ tasks = {}
    /\ IF cmd.name # None
       THEN pc' = "ok" /\ rows' = Table(listed) /\ UNCHANGED listing
       ELSE /\ pc' = "list" /\ UNCHANGED rows
            /\ listing' = {o \in Object : o.kind = cmd.kind /\ o.ns \in asked}
    /\ UNCHANGED <<world, cmd, asked, toload, tasks, answered, results, listed, was>>

-----------------------------------------------------------------------------
(* listNamespace, in a goroutine for each namespace. *)

(* A manifest that is gone, or does not parse, is passed over.               *)
ListOne ==
    /\ pc = "list"
    /\ \E o \in listing :
         /\ listing' = listing \ {o}
         /\ \/ o \in local /\ listed' = listed \union {o} /\ UNCHANGED was
            \/ o \notin local /\ UNCHANGED <<listed, was>>
            \/ Faults /\ was' = [was EXCEPT !.unread = @ \union {o}] /\ UNCHANGED listed
    /\ UNCHANGED <<world, pc, cmd, asked, toload, tasks, answered, results, rows>>

(* Mutant: the first namespace to be listed ends the command. *)
ListedFirst ==
    /\ pc = "list" /\ (asked = {} \/ \E ns \in asked : \A o \in listing : o.ns # ns)
    /\ pc' = "ok" /\ rows' = Table(listed)
    /\ UNCHANGED <<world, cmd, asked, toload, tasks, answered, results, listing, listed, was>>

Listed ==
    /\ pc = "list" /\ listing = {}
    /\ pc' = "ok" /\ rows' = Table(listed)
    /\ UNCHANGED <<world, cmd, asked, toload, tasks, answered, results, listing, listed, was>>

-----------------------------------------------------------------------------
(* describe of a DaemonSet that selects every namespace: one task for each.  *)

(* Mutant: a namespace without a manifest gets a task, too. *)
MatchUnchecked ==
    /\ pc = "match" /\ pc' = "fetch"
    /\ asked' = Namespace
    /\ tasks' = {Task(ns) : ns \in asked'}
    /\ UNCHANGED <<world, cmd, toload, answered, results, listing, listed, rows, was>>

(* matchingNamespaces passes over a namespace that it cannot read.           *)
Match ==
    /\ pc = "match" /\ pc' = "fetch"
    /\ \E unread \in IF Faults THEN SUBSET Namespace ELSE {{}} :
         asked' = {ns \in Namespace \ unread : home[ns] # None}
    /\ tasks' = {Task(ns) : ns \in asked'}
    /\ UNCHANGED <<world, cmd, toload, answered, results, listing, listed, rows, was>>

(* Each writes its own place in the result. *)
Answer ==
    /\ pc = "fetch" /\ cmd.kind = "DaemonSet"
    /\ \E t \in tasks :
         /\ t.step # "ask"
         /\ tasks' = tasks \ {t}
         /\ rows' = rows \union
              {[of |-> Obj("DaemonSet", t.ns, cmd.name),
                status |-> IF t.step = "failed" THEN "Unknown"
                           ELSE Summary(About(WithLabel(t.out, "daemonset"), t.ns, cmd.name))]}
    /\ UNCHANGED <<world, pc, cmd, asked, toload, answered, results, listing, listed, was>>

Answered ==
    /\ pc = "fetch" /\ cmd.kind = "DaemonSet" /\ tasks = {}
    /\ pc' = "ok" /\ UNCHANGED <<world, cmd, progress, was>>

-----------------------------------------------------------------------------
(* describe of a namespace, and get of one as JSON or YAML. *)

(* Both directories are read before docker is asked.  One that cannot be     *)
(* read counts as empty; so does the entry of one DaemonSet.                 *)
Failing(kind, below) ==
    IF ~Faults THEN {{}} ELSE IF kind = "App" THEN {{}, below} ELSE SUBSET below

ReadNames(step, kind, next) ==
    /\ pc = step /\ pc' = next
    /\ LET below == {o \in Object : o.kind = kind /\ o.ns = cmd.ns}
       IN  \E unread \in Failing(kind, below) :
               /\ listed' = listed \union ((below \intersect local) \ unread)
               /\ was' = [was EXCEPT !.unread = @ \union unread]
    /\ UNCHANGED <<world, cmd, asked, toload, tasks, answered, results, listing, rows>>

Connect == /\ pc = "names" /\ \E t \in tasks : t.host \notin up
           /\ pc' = "ok" /\ UNCHANGED <<world, cmd, progress, was>>
LocalApps == (\A t \in tasks : t.host \in up) /\ ReadNames("names", "App", "ds")
LocalDaemonSets == ReadNames("ds", "DaemonSet", "ps")

(* Mutant: containers of DaemonSets are looked for among the Apps. *)
ManagementByApp(c, ns) ==
    CASE c.ns # ns \/ ~HasLabel(c, "owner") -> "unmanaged"
      [] c.ns = ns /\ HasLabel(c, "owner") ->
           (IF Obj("App", ns, c.owner) \in listed THEN "managed" ELSE "orphan")

Management(c, ns) ==
    CASE c.ns # ns \/ ~HasLabel(c, "owner") -> "unmanaged"
      [] c.ns = ns /\ HasLabel(c, "owner") ->
           (IF Obj(c.kind, ns, c.owner) \in listed THEN "managed" ELSE "orphan")

AppsOf(out, ns) ==
    {Obj("App", ns, r[1].owner) : r \in {q \in out : q[1].kind = "App" /\ q[1].ns = ns}}

(* The answer of docker ps; none, or an empty one, shows no containers.      *)
Collect ==
    /\ pc = "ps" /\ pc' = "ok"
    /\ \E t \in tasks :
         LET out == IF t.host \in up THEN Output(t.host) ELSE {}
         IN  rows' = {[of |-> r[1], status |-> Management(r[1], t.ns)] : r \in out}
                \union UNION {{[of |-> o, status |-> s] : s \in AppState(About(
                                  {r \in out : r[1].kind = "App"}, t.ns, o.name))} :
                              o \in AppsOf(out, t.ns) \intersect listed}
    /\ UNCHANGED <<world, cmd, asked, toload, tasks, answered, results, listing, listed, was>>

-----------------------------------------------------------------------------
Work ==
    \/ FindOne \/ FindHome \/ ValidNamespaces \/ LoadNext \/ Loaded \/ Fetch \/ Merge \/ Fetched
    \/ ListOne \/ Listed \/ Match \/ Answer \/ Answered
    \/ Connect \/ LocalApps \/ LocalDaemonSets \/ Collect
Next == Begin \/ Work \/ ReadFails \/ Elsewhere

Spec == Init /\ [][Next]_vars
FairSpec == Spec /\ WF_vars(Work)

-----------------------------------------------------------------------------
(* Properties *)

Shown == pc = "ok"
Homes(ns) == {h \in Host : <<ns, h>> \in was.homes}
OfKind(out, kind) == {r \in out : r[1].kind = kind}

(* What is shown of a Job was so, of its latest run on one of the hosts, at  *)
(* some instant since the command began; and "Never" on a host that was then *)
(* that of its namespace.  What describe of a namespace shows of an App was  *)
(* so of all its containers at one instant.  Whatever the order in which the *)
(* goroutines come in.                                                       *)
StatusWasTrue ==
    Shown => \A row \in rows : row.of \in Object /\ row.status # "Unknown" =>
        LET mine(out) == About(OfKind(out, row.of.kind), row.of.ns, row.of.name)
            Running(out) == {r \in out : r[2] = "running"}
        IN  CASE row.of.kind = "Job" ->
                   \E seen \in was.outs :
                       /\ row.status \in RunStatus(mine(seen[2]))
                       /\ row.status = "Never" => seen[1] \in Homes(row.of.ns)
              [] row.of.kind = "App" /\ cmd.kind = "Namespace" ->
                   \E seen \in was.outs : LET out == mine(seen[2]) IN
                       CASE row.status = "Running" -> out # {} /\ Running(out) = out
                         [] row.status = "Degraded" -> Running(out) \notin {{}, out}
                         [] OTHER -> out # {} /\ Running(out) = {}
              [] OTHER -> TRUE

(* "Unknown" has a reason.  The namespace had no manifest, or none that could *)
(* be read, or its host did not answer at some instant; or docker reports a  *)
(* state that has no name here.                                              *)
Unreachable(ns) ==
    \/ <<ns, None>> \in was.homes \/ ns \in was.unloaded
    \/ Homes(ns) \intersect was.downs # {}
Unnamed(o) ==
    /\ o.kind = "Job"
    /\ \E seen \in was.outs : "Unknown" \in RunStatus(About(OfKind(seen[2], "Job"), o.ns, o.name))

(* The one exception is a disagreement with the code's own comment, and part *)
(* of what AppStatusDoc shows (see AppsAreFound): of several namespaces of a *)
(* command on one host only the first is marked as queried                   *)
(* (app_status.go:66, job_handler.go:113).                                   *)
UnknownExplained ==
    Shown /\ cmd.kind # "Namespace" => \A row \in rows : row.status = "Unknown" =>
        LET ns == row.of.ns IN
        \/ Unreachable(ns) \/ Unnamed(row.of)
        \/ /\ cmd.kind # "DaemonSet"
           /\ \E m \in asked : m < ns /\ Homes(m) \intersect Homes(ns) # {}

(* A list shows what was there, and misses what was not there, it or its     *)
(* namespace, at some instant since the command began, or what it failed to  *)
(* read.                                                                     *)
ListingWasTrue ==
    Shown /\ cmd.verb = "get" =>
        /\ \A row \in rows : row.of \in was.there
        /\ cmd.name = None =>
             \A o \in Object :
                 o.kind = cmd.kind /\ cmd.ns \in {o.ns, None} /\ (\A row \in rows : row.of # o) =>
                     o \in was.gone \union was.unread \/ <<o.ns, None>> \in was.homes

(* describe calls a container managed or an orphan only if its App or        *)
(* DaemonSet was there, or was not, at some instant since the command began; *)
(* and calls no other namespace's containers either.  The one exception is   *)
(* not what the comments promise: what a failing read has hidden counts as   *)
(* not there, and its containers as orphans (namespace_handler.go:72, 88).   *)
OrphansWereOrphans ==
    Shown /\ cmd.kind = "Namespace" => \A row \in rows : row.of \in Container =>
        LET o == Obj(row.of.kind, row.of.ns, row.of.owner) IN
        /\ row.status = "managed" => o \in was.there /\ o.ns = cmd.ns
        /\ row.status = "orphan" => o \in was.gone \union was.unread /\ o.ns = cmd.ns
        /\ row.status = "unmanaged" => o.ns # cmd.ns \/ o.kind = "Job"

(* Every command returns: each goroutine reports to the wait group, on every *)
(* path, whatever becomes of its host.                                       *)
EveryStatusReturns == Busy ~> ~Busy

(* What the documents say. *)

(* What get shows of an App holds of the containers on its host at some      *)
(* instant since the command began, or the host could not be reached.        *)
Tells(row) ==
    /\ row.status = "Unknown" => Unreachable(row.of.ns)
    /\ row.status = "NotFound" => \E seen \in was.outs :
          /\ seen[1] \in Homes(row.of.ns)
          /\ About(OfKind(seen[2], "App"), row.of.ns, row.of.name) = {}

(* get makes one query per host, to "extract all apps on that host"          *)
(* (design_constraints.md:52), "for every namespace on this host"            *)
(* (app_status.go:64), by the labels on their containers (line 61 there): of *)
(* the Apps it lists in two namespaces on one host, all are shown as they    *)
(* are.  It is enough to ask it of one of them.                              *)
AppsAreFound ==
    Shown /\ cmd.verb = "get" /\ cmd.kind = "App" =>
        \A m, n \in {row.of.ns : row \in rows} : m # n /\ Homes(m) = Homes(n) =>
            \E row \in rows : row.of.ns \in {m, n} /\ Tells(row)
=============================================================================
