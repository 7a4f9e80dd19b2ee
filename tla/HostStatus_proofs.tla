-------------------------- MODULE HostStatus_proofs --------------------------
(***************************************************************************)
(* Proofs about HostStatus, for any namespaces, hosts, containers and      *)
(* commands: whatever happens beside a command and in whatever order its   *)
(* goroutines come in, what it shows was so.                               *)
(***************************************************************************)
EXTENDS HostStatus, TLAPS

(* At which step a command of which kind can be, and what it has not yet     *)
(* begun to collect there.                                                   *)
Placed ==
    /\ pc # "idle" => cmd \in AllCommands
    /\ pc \in {"idle", "one", "home", "valid", "load", "match"} =>
         answered = {} /\ results = {} /\ listing = {} /\ rows = {}
    /\ pc \in {"idle", "one", "home", "valid", "match"} => tasks = {}
    /\ pc \in {"idle", "one", "valid", "match"} => listed = {}
    /\ pc \in {"idle", "valid", "match"} => asked = {} /\ toload = {}
    /\ pc \in {"one", "home"} => asked = {cmd.ns} /\ toload = asked
    /\ pc = "one" /\ cmd.kind # "Namespace" => cmd.kind # "DaemonSet" /\ cmd.name # None
    /\ pc = "home" => cmd.kind = "App" /\ cmd.name # None
    /\ pc = "valid" => cmd.ns = None
    /\ pc \in {"valid", "load", "list"} => cmd.kind \in {"App", "Job"}
    /\ pc = "match" => cmd.kind = "DaemonSet"
    /\ pc = "fetch" => cmd.kind # "Namespace"
    /\ pc \in {"fetch", "list"} => toload = {}
    /\ pc \in {"fetch", "list"} /\ cmd.kind # "DaemonSet" => rows = {}
    /\ pc = "list" => cmd.name = None /\ tasks = {}
    /\ pc \in {"names", "ds", "ps"} =>
         cmd.kind = "Namespace" /\ rows = {} /\ \A t \in tasks : t.ns = cmd.ns

(* The history holds what is so now. *)
Grows(a, b) ==
    \A f \in {"homes", "downs", "there", "gone", "outs", "unread", "unloaded"} : a[f] \subseteq b[f]
NowSeen == Busy => Grows(Now, was)

(* A task asks a host that was that of its namespace, and its answer was so. *)
TaskWas(t) ==
    /\ <<t.ns, t.host>> \in was.homes
    /\ t.step = "failed" => t.host \in was.downs
    /\ t.step = "got" => <<t.host, t.out>> \in was.outs
TaskSound == \A t \in tasks : TaskWas(t)

(* What is listed was there, and what is asked about is all there is to ask. *)
Missed == was.gone \union was.unread
ForTable == pc # "idle" /\ cmd.kind \in {"App", "Job"}
ListedSound ==
    /\ listed \subseteq was.there
    /\ ForTable => \A o \in listed : o.kind = cmd.kind /\ o.ns \in asked
    /\ ForTable /\ pc \notin {"valid", "refused"} =>
         \A ns \in Namespace : cmd.ns \in {ns, None} /\ ns \notin asked => <<ns, None>> \in was.homes
    /\ pc = "list" => \A o \in listing : o.kind = cmd.kind /\ o.ns \in asked
    /\ pc = "list" => \A o \in Object :
         o.kind = cmd.kind /\ o.ns \in asked => o \in listing \union listed \union Missed
    /\ pc \in {"ds", "ps"} => \A o \in Object :
         o.kind = "App" /\ o.ns = cmd.ns => o \in listed \union Missed
    /\ pc = "ps" => \A o \in Object :
         o.kind = "DaemonSet" /\ o.ns = cmd.ns => o \in listed \union Missed

(* Every namespace asked about is still to be read or asked, or answered, or *)
(* has a reason not to be.                                                   *)
Excused(ns) ==
    \/ Unreachable(ns)
    \/ \E m \in asked : m < ns /\ Homes(m) \intersect Homes(ns) # {}
Covered ==
    ForTable /\ pc \in {"load", "fetch", "list"} =>
        /\ \A ns \in asked : \/ ns \in toload \union answered
                             \/ \E t \in tasks : t.ns = ns
                             \/ Excused(ns)
        /\ \A t \in tasks, ns \in toload : t.ns < ns

(* What was kept of the answers: of a Job, the latest run that one answer    *)
(* held, or nothing if an answer of its namespace's host held nothing.       *)
Jobs(out, ns, name) == About(OfKind(out, "Job"), ns, name)
ResultsSound ==
    /\ pc # "idle" /\ cmd.kind = "App" => results = {}
    /\ pc # "idle" /\ cmd.kind = "Job" =>
         /\ \A r \in results : \E seen \in was.outs :
              r \in Latest(Jobs(seen[2], r[1].ns, r[1].owner))
         /\ \A ns \in answered, name \in Name : About(results, ns, name) = {} =>
              \E seen \in was.outs : seen[1] \in Homes(ns) /\ Jobs(seen[2], ns, name) = {}
    /\ pc # "idle" /\ cmd.kind = "DaemonSet" => \A row \in rows :
         row.of \in Object /\ row.of.kind = "DaemonSet" /\
         (row.status = "Unknown" => Homes(row.of.ns) \intersect was.downs # {})


-----------------------------------------------------------------------------
(* Command lines, and what is made of the answers. *)

LEMMA CommandParts ==
    ASSUME NEW c \in AllCommands
    PROVE  /\ c.kind \in {"App", "Job", "DaemonSet", "Namespace"}
           /\ c.verb \in {"get", "describe"}
           /\ c.ns \in Namespace \union {None} /\ c.name \in Name \union {None}
           /\ c.verb = "get" => c.kind \in {"App", "Job"}
           /\ c.kind \in {"App", "Job"} /\ c.ns = None => c.name = None
           /\ c.kind = "DaemonSet" => c.ns = None /\ c.name \in Name
           /\ c.kind = "Namespace" => c.ns \in Namespace
  BY HostStatusAssumption DEF AllCommands

LEMMA CommandIssued == Command \subseteq AllCommands
  BY HostStatusAssumption

LEMMA SummaryType == \A out : Summary(out) \in Status
<1> TAKE out
<1>1. CASE out = {}
  BY <1>1 DEF Summary, Status
<1>2. CASE out # {} /\ \A r \in out : r[2] = "running"
  BY <1>2 DEF Summary, Exited, Status
<1>3. CASE out # {} /\ \A r \in out : r[2] \in Exited
  BY <1>3 DEF Summary, Exited, Status
<1> DEFINE mixed == CASE \E r \in out : r[2] = "running" -> "Degraded"
                      [] \A r \in out : r[2] \notin {"running", "paused"} ->
                           (IF \E r \in out : r[2] = "restarting" THEN "Restarting" ELSE "Unknown")
                      [] OTHER -> "Paused"
<1>4. mixed \in Status
  BY DEF Status
<1> HIDE DEF mixed
<1>5. CASE ~(out = {} \/ (\A r \in out : r[2] = "running") \/ \A r \in out : r[2] \in Exited)
  BY <1>4, <1>5 DEF Summary, mixed
<1> QED
  BY <1>1, <1>2, <1>3, <1>5

LEMMA OutputType == \A h : state \in [Container -> State \union {None}] => Output(h) \subseteq Reported
  BY DEF Output, Reported

LEMMA RunStatusType == \A out \in SUBSET Reported : RunStatus(out) \subseteq Status
<1> SUFFICES ASSUME NEW out \in SUBSET Reported PROVE RunStatus(out) \subseteq Status
  OBVIOUS
<1>1. \A r \in Latest(out) : r[2] \in State
  BY DEF Reported, Latest
<1>2. \A s \in State : JobState[s] \in Status
  BY DEF JobState, State, Status
<1> QED
  BY <1>1, <1>2 DEF RunStatus, Status

LEMMA AppStateType == \A out : AppState(out) \subseteq Status
<1> TAKE out
<1> DEFINE Last(r) == CASE r[2] = "paused" -> "Paused" [] r[2] \in Exited -> "Stopped"
                        [] OTHER -> "Unknown"
           latest == {q \in out : \A s \in out : q[1].age <= s[1].age}
<1>1. \A r : Last(r) \in Status
  BY DEF Exited, Status
<1>2. {Last(r) : r \in latest} \subseteq Status
  BY <1>1
<1>3. CASE \A r \in out : r[2] = "running"
  BY <1>3 DEF AppState, Status
<1>4. CASE ~(\A r \in out : r[2] = "running") /\ \E r \in out : r[2] = "running"
  BY <1>4 DEF AppState, Status
<1>5. CASE ~(\A r \in out : r[2] = "running") /\ ~(\E r \in out : r[2] = "running")
  <2>1. AppState(out) = {Last(r) : r \in latest}
    BY <1>5 DEF AppState, Status
  <2> QED
    BY <1>2, <2>1
<1> QED
  BY <1>3, <1>4, <1>5

LEMMA ObjType == \A kind \in Kind, ns \in Namespace, name \in Name : Obj(kind, ns, name) \in Object
  BY DEF Obj, Object

LEMMA MergedType ==
    \A kind, old, out : old \subseteq Reported /\ out \subseteq Reported => Merged(kind, old, out) \subseteq Reported
  BY DEF Merged, WithLabel

LEMMA TableType ==
    ASSUME NEW objects \in SUBSET Object, results \subseteq Reported
    PROVE  Table(objects) \subseteq [of : Object \union Container, status : Status]
<1>1. ASSUME NEW o \in objects PROVE StatusOf(o) \subseteq Status
  <2>1. Summary(About(results, o.ns, o.name)) \in Status
    BY SummaryType
  <2>2. RunStatus(About(results, o.ns, o.name)) \subseteq Status
    BY RunStatusType DEF About
  <2> QED
    BY <2>1, <2>2 DEF StatusOf, Status
<1> QED
  BY <1>1 DEF Table

(* An object is not a container: they have different fields. *)
LEMMA ObjectsAreNotContainers == \A o \in Object : o \notin Container
<1> SUFFICES ASSUME NEW o \in Object, o \in Container PROVE FALSE
  OBVIOUS
<1>1. o \in [host : Host, kind : Kind, ns : Namespace, owner : Name, age : Nat]
  BY HostStatusAssumption
<1>2. "host" \in DOMAIN o
  BY <1>1
<1>3. DOMAIN o = {"kind", "ns", "name"}
  BY DEF Object
<1> QED
  BY <1>2, <1>3

(* Whatever is in a set of answers, one of them is the latest.               *)
LEMMA LatestExists ==
    ASSUME NEW out \in SUBSET Reported, out # {}
    PROVE  Latest(out) # {}
<1> DEFINE S == {r[1] : r \in out}
<1>1. S \in SUBSET Container /\ S # {}
  BY DEF Reported
<1>2. PICK c \in S : \A d \in S : d.age <= c.age
  BY <1>1, HostStatusAssumption
<1>3. PICK r \in out : r[1] = c
  BY <1>2
<1> QED
  BY <1>2, <1>3 DEF Latest

-----------------------------------------------------------------------------
(* Types: every action keeps them, and each command at its steps. *)

TypeInv == TypeOK /\ Placed

LEMMA InitTypeInv == Init => TypeInv
<1> SUFFICES ASSUME Init PROVE TypeInv
  OBVIOUS
<1>1. PICK w \in World : home = w.home /\ local = w.local /\ state = w.state
  BY DEF Init
<1>2. home \in Home /\ local \subseteq Object /\ state \in [Container -> State \union {None}]
  BY <1>1, HostStatusAssumption
<1>3. Empty \in History
  BY DEF Empty, History
<1> QED
  BY <1>2, <1>3, HostStatusAssumption DEF Init, TypeInv, TypeOK, Placed

LEMMA NowType ==
    ASSUME TypeOK
    PROVE  Now \in History
<1>1. \A ns \in Namespace : home[ns] \in Host \union {None}
  BY DEF TypeOK, Home
<1>2. \A h \in Host : Output(h) \in SUBSET Reported
  BY OutputType DEF TypeOK
<1> QED
  BY <1>1, <1>2 DEF TypeOK, Now, History

LEMMA ElsewhereTyped ==
    ASSUME TypeInv, Elsewhere
    PROVE  TypeInv'
<1>1. /\ home' \in Home /\ local' \subseteq Object /\ up' \subseteq Host
      /\ state' \in [Container -> State \union {None}] /\ changes' \in 0..Changes
  <2>1. changes' \in 0..Changes
    BY HostStatusAssumption DEF TypeInv, TypeOK, Elsewhere
  <2>2. Reached \subseteq State
    BY HostStatusAssumption
  <2> QED
    BY <2>1, <2>2 DEF TypeInv, TypeOK, Elsewhere, Home
<1>2. Now' \in History
  <2>1. \A ns \in Namespace : home'[ns] \in Host \union {None}
    BY <1>1 DEF Home
  <2>2. \A h \in Host : Output(h)' \in SUBSET Reported
    BY <1>1 DEF Output, Reported
  <2> QED
    BY <1>1, <2>1, <2>2 DEF Now, History
<1>3. \A a, b \in History : Remember(a, b) \in History
  BY DEF Remember, History
<1>4. was' \in History
  BY <1>2, <1>3 DEF TypeInv, TypeOK, Elsewhere
<1>5. UNCHANGED <<pc, cmd, asked, toload, tasks, answered, results, listing, listed, rows>>
  BY DEF Elsewhere, progress
<1>6. TypeOK'
  BY <1>1, <1>4, <1>5 DEF TypeInv, TypeOK
<1>7. Placed'
  BY <1>5 DEF TypeInv, Placed
<1> QED
  BY <1>6, <1>7 DEF TypeInv

LEMMA BeginTyped ==
    ASSUME TypeInv, Begin
    PROVE  TypeInv'
<1>1. PICK c \in Command : cmd' = c /\ pc' = Start(c) /\ asked' = {c.ns} \ {None} /\ toload' = {c.ns} \ {None}
  BY DEF Begin
<1>2. c \in AllCommands
  BY CommandIssued
<1> USE CommandParts
<1>3. pc' \in {"one", "valid", "load", "match"}
  BY <1>1, <1>2 DEF Start
<1>4. asked' \subseteq Namespace /\ UNCHANGED <<home, local, state, up, changes, tasks, answered, results, listing, listed, rows>>
  BY <1>1, <1>2 DEF Begin, world
<1>5. answered = {} /\ results = {} /\ listing = {} /\ rows = {} /\ tasks = {} /\ listed = {}
  BY DEF Begin, TypeInv, Placed
<1>6. was' \in History
  BY NowType DEF Begin, TypeInv
<1>7. TypeOK'
  BY <1>1, <1>2, <1>3, <1>4, <1>5, <1>6 DEF TypeInv, TypeOK
<1>8. Placed'
  <2>1. pc' = "one" => c.ns # None /\ c.kind # "DaemonSet" /\ (c.kind # "Namespace" => c.name # None)
    BY <1>1, <1>2, HostStatusAssumption DEF Start
  <2>2. pc' = "valid" => c.kind \in {"App", "Job"} /\ c.ns = None
    BY <1>1, <1>2 DEF Start
  <2>3. pc' = "match" => c.kind = "DaemonSet" /\ c.ns = None
    BY <1>1, <1>2 DEF Start
  <2>4. pc' = "load" => c.kind \in {"App", "Job"}
    BY <1>1, <1>2 DEF Start
  <2> QED
    BY <1>1, <1>2, <1>3, <1>4, <1>5, <2>1, <2>2, <2>3, <2>4 DEF Placed
<1> QED
  BY <1>7, <1>8 DEF TypeInv

LEMMA ReadFailsTyped ==
    ASSUME TypeInv, ReadFails
    PROVE  TypeInv'
<1>1. pc' = "refused" /\ UNCHANGED <<home, local, state, up, changes, cmd, asked, toload, tasks, answered, results,
                                     listing, listed, rows, was>> /\ pc # "idle"
  BY DEF ReadFails, Refuse, world, progress
<1> QED
  BY <1>1 DEF TypeInv, TypeOK, Placed

LEMMA TaskType ==
    ASSUME TypeOK, NEW ns \in Namespace, home[ns] # None
    PROVE  \A S : ns \in S => Task(ns) \in [ns : S, host : Host, step : {"ask", "failed", "got"}, out : SUBSET Reported]
<1>1. home[ns] \in Host
  BY DEF TypeOK, Home
<1> QED
  BY <1>1 DEF Task

LEMMA FindOneTyped ==
    ASSUME TypeInv, FindOne
    PROVE  TypeInv'
<1>1. cmd \in AllCommands /\ pc = "one" /\ asked = {cmd.ns}
  BY DEF FindOne, TypeInv, Placed
<1> USE CommandParts
<1>2. cmd.ns \in Namespace
  BY <1>1 DEF TypeInv, TypeOK
<1>3. CASE Refuse
  BY <1>1, <1>3 DEF Refuse, world, progress, TypeInv, TypeOK, Placed
<1>4. CASE cmd.kind = "Namespace" /\ home[cmd.ns] # None /\ pc' = "names" /\ tasks' = {Task(cmd.ns)}
             /\ UNCHANGED <<world, cmd, asked, toload, answered, results, listing, listed, rows, was>>
  <2>1. Task(cmd.ns) \in [ns : asked, host : Host, step : {"ask", "failed", "got"}, out : SUBSET Reported]
    BY <1>1, <1>2, <1>4, TaskType DEF TypeInv
  <2>2. TypeOK'
    BY <1>4, <2>1 DEF world, TypeInv, TypeOK
  <2>3. Placed'
    BY <1>1, <1>4 DEF world, TypeInv, Placed, Task
  <2> QED
    BY <2>2, <2>3 DEF TypeInv
<1>5. CASE cmd.kind # "Namespace" /\ Obj(cmd.kind, cmd.ns, cmd.name) \in local
             /\ pc' = (IF cmd.verb = "describe" THEN "home" ELSE "load")
             /\ listed' = {Obj(cmd.kind, cmd.ns, cmd.name)}
             /\ UNCHANGED <<world, cmd, asked, toload, tasks, answered, results, listing, rows, was>>
  <2>1. Obj(cmd.kind, cmd.ns, cmd.name) \in Object
    BY <1>5 DEF TypeInv, TypeOK
  <2>2. TypeOK'
    BY <1>5, <2>1 DEF world, TypeInv, TypeOK
  <2>3. cmd.kind \in {"App", "Job"} /\ cmd.name # None /\ (cmd.verb = "describe" => cmd.kind = "App")
    BY <1>1, <1>5 DEF TypeInv, Placed, AllCommands
  <2>4. Placed'
    BY <1>1, <1>5, <2>3 DEF world, TypeInv, Placed
  <2> QED
    BY <2>2, <2>4 DEF TypeInv
<1> QED
  BY <1>3, <1>4, <1>5 DEF FindOne

LEMMA FindHomeTyped ==
    ASSUME TypeInv, FindHome
    PROVE  TypeInv'
<1>1. pc = "home" /\ pc' \in {"refused", "load"} /\ UNCHANGED <<world, cmd, progress, was>>
  BY DEF FindHome, Refuse
<1> QED
  BY <1>1 DEF world, progress, TypeInv, TypeOK, Placed

LEMMA ValidNamespacesTyped ==
    ASSUME TypeInv, ValidNamespaces
    PROVE  TypeInv'
  BY DEF ValidNamespaces, world, TypeInv, TypeOK, Placed

LEMMA LoadTyped ==
    ASSUME TypeInv, LoadNext \/ Loaded
    PROVE  TypeInv'
<1>1. CASE LoadNext
  <2>1. PICK ns \in toload :
          /\ toload' = toload \ {ns}
          /\ \/ UNCHANGED <<tasks, was>>
             \/ UNCHANGED tasks /\ was' = [was EXCEPT !.unloaded = @ \union {ns}]
             \/ /\ home[ns] # None /\ UNCHANGED was
                /\ tasks' = IF \E t \in tasks : t.host = home[ns] THEN tasks
                            ELSE tasks \union {Task(ns)}
    BY <1>1 DEF LoadNext
  <2>2. ns \in asked /\ ns \in Namespace /\ pc = "load" /\ cmd \in AllCommands
        /\ UNCHANGED <<world, pc, cmd, asked, answered, results, listing, listed, rows>>
    BY <1>1 DEF LoadNext, TypeInv, TypeOK, Placed
  <2>3. tasks' \subseteq [ns : asked, host : Host, step : {"ask", "failed", "got"}, out : SUBSET Reported]
    <3>1. CASE UNCHANGED tasks
      BY <3>1 DEF TypeInv, TypeOK
    <3>2. CASE home[ns] # None /\ tasks' = tasks \union {Task(ns)}
      BY <2>2, <3>2, TaskType DEF TypeInv, TypeOK
    <3> QED
      BY <2>1, <3>1, <3>2
  <2>4. was' \in History
    BY <2>1, <2>2 DEF TypeInv, TypeOK, History
  <2>5. TypeOK'
    BY <2>1, <2>2, <2>3, <2>4 DEF world, TypeInv, TypeOK
  <2>6. Placed'
    BY <2>1, <2>2 DEF world, TypeInv, Placed
  <2> QED
    BY <2>5, <2>6 DEF TypeInv
<1>2. CASE Loaded
  <2>1. pc = "load" /\ toload = {} /\ pc' = "fetch" /\ UNCHANGED <<world, cmd, progress, was>>
    BY <1>2 DEF Loaded
  <2>2. TypeOK'
    BY <2>1 DEF world, progress, TypeInv, TypeOK
  <2>3. Placed'
    BY <2>1 DEF world, progress, TypeInv, Placed
  <2> QED
    BY <2>2, <2>3 DEF TypeInv
<1> QED
  BY <1>1, <1>2

LEMMA FetchTyped ==
    ASSUME TypeInv, Fetch
    PROVE  TypeInv'
<1>1. PICK t \in tasks : tasks' = (tasks \ {t}) \union
              {IF t.host \in up THEN [t EXCEPT !.step = "got", !.out = Output(t.host)]
               ELSE [t EXCEPT !.step = "failed"]}
  BY DEF Fetch
<1>2. Output(t.host) \subseteq Reported
  BY OutputType DEF TypeInv, TypeOK
<1>3. tasks' \subseteq [ns : asked, host : Host, step : {"ask", "failed", "got"}, out : SUBSET Reported]
  BY <1>1, <1>2 DEF TypeInv, TypeOK
<1>4. pc = "fetch" /\ UNCHANGED <<world, pc, cmd, asked, toload, answered, results, listing, listed, rows, was>>
  BY DEF Fetch
<1>5. TypeOK'
  BY <1>3, <1>4 DEF world, TypeInv, TypeOK
<1>6. Placed'
  BY <1>4 DEF world, TypeInv, Placed
<1> QED
  BY <1>5, <1>6 DEF TypeInv

LEMMA MergeTyped ==
    ASSUME TypeInv, Merge
    PROVE  TypeInv'
<1>1. PICK t \in tasks : /\ tasks' = tasks \ {t}
                         /\ \/ UNCHANGED <<answered, results>>
                            \/ /\ answered' = answered \union {t.ns}
                               /\ results' = Merged(cmd.kind, results, t.out)
  BY DEF Merge
<1>2. t.ns \in asked /\ t.out \subseteq Reported
  BY DEF TypeInv, TypeOK
<1>3. results' \subseteq Reported /\ answered' \subseteq asked
  BY <1>1, <1>2, MergedType DEF TypeInv, TypeOK
<1>4. pc = "fetch" /\ UNCHANGED <<world, pc, cmd, asked, toload, listing, listed, rows, was>>
  BY DEF Merge
<1>5. TypeOK'
  BY <1>1, <1>3, <1>4 DEF world, TypeInv, TypeOK
<1>6. Placed'
  BY <1>4 DEF world, TypeInv, Placed
<1> QED
  BY <1>5, <1>6 DEF TypeInv

LEMMA FetchedTyped ==
    ASSUME TypeInv, Fetched
    PROVE  TypeInv'
<1>1. cmd \in AllCommands /\ pc = "fetch" /\ cmd.kind \in {"App", "Job"}
      /\ rows = {} /\ toload = {} /\ tasks = {}
  BY CommandParts DEF Fetched, TypeInv, Placed
<1>2. UNCHANGED <<world, cmd, asked, toload, tasks, answered, results, listed, was>>
  BY DEF Fetched
<1>3. CASE cmd.name # None /\ pc' = "ok" /\ rows' = Table(listed) /\ UNCHANGED listing
  <2>1. rows' \subseteq [of : Object \union Container, status : Status]
    BY <1>3, TableType DEF TypeInv, TypeOK
  <2>2. TypeOK'
    BY <1>2, <1>3, <2>1 DEF world, TypeInv, TypeOK
  <2>3. Placed'
    BY <1>1, <1>2, <1>3 DEF world, TypeInv, Placed
  <2> QED
    BY <2>2, <2>3 DEF TypeInv
<1>4. CASE cmd.name = None /\ pc' = "list" /\ UNCHANGED rows
             /\ listing' = {o \in Object : o.kind = cmd.kind /\ o.ns \in asked}
  <2>1. TypeOK'
    BY <1>2, <1>4 DEF world, TypeInv, TypeOK
  <2>2. Placed'
    BY <1>1, <1>2, <1>4 DEF world, TypeInv, Placed
  <2> QED
    BY <2>1, <2>2 DEF TypeInv
<1> QED
  BY <1>3, <1>4 DEF Fetched

LEMMA ListTyped ==
    ASSUME TypeInv, ListOne \/ Listed
    PROVE  TypeInv'
<1>1. CASE ListOne
  <2>1. PICK o \in listing : /\ listing' = listing \ {o}
                             /\ \/ listed' = listed \union {o} /\ UNCHANGED was
                                \/ UNCHANGED <<listed, was>>
                                \/ was' = [was EXCEPT !.unread = @ \union {o}] /\ UNCHANGED listed
    BY <1>1 DEF ListOne
  <2>2. pc = "list" /\ o \in Object
        /\ UNCHANGED <<world, pc, cmd, asked, toload, tasks, answered, results, rows>>
    BY <1>1 DEF ListOne, TypeInv, TypeOK
  <2>3. TypeOK'
    BY <2>1, <2>2 DEF world, TypeInv, TypeOK, History
  <2>4. Placed'
    BY <2>1, <2>2 DEF world, TypeInv, Placed
  <2> QED
    BY <2>3, <2>4 DEF TypeInv
<1>2. CASE Listed
  <2>1. pc = "list" /\ pc' = "ok" /\ rows' = Table(listed)
        /\ UNCHANGED <<world, cmd, asked, toload, tasks, answered, results, listing, listed, was>>
    BY <1>2 DEF Listed
  <2>2. rows' \subseteq [of : Object \union Container, status : Status]
    BY <2>1, TableType DEF TypeInv, TypeOK
  <2>3. TypeOK'
    BY <2>1, <2>2 DEF world, TypeInv, TypeOK
  <2>4. Placed'
    BY <2>1 DEF world, TypeInv, Placed
  <2> QED
    BY <2>3, <2>4 DEF TypeInv
<1> QED
  BY <1>1, <1>2

LEMMA MatchTyped ==
    ASSUME TypeInv, Match
    PROVE  TypeInv'
<1>1. PICK unread : asked' = {ns \in Namespace \ unread : home[ns] # None}
  BY DEF Match
<1>2. pc = "match" /\ pc' = "fetch" /\ tasks' = {Task(ns) : ns \in asked'}
      /\ UNCHANGED <<world, cmd, toload, answered, results, listing, listed, rows, was>>
  BY DEF Match
<1>3. tasks' \subseteq [ns : asked', host : Host, step : {"ask", "failed", "got"}, out : SUBSET Reported]
  BY <1>1, <1>2, TaskType DEF TypeInv
<1>4. TypeOK'
  BY <1>1, <1>2, <1>3 DEF world, TypeInv, TypeOK, Placed
<1>5. Placed'
  BY <1>2 DEF world, TypeInv, Placed
<1> QED
  BY <1>4, <1>5 DEF TypeInv

LEMMA AnswerTyped ==
    ASSUME TypeInv, Answer \/ Answered
    PROVE  TypeInv'
<1>1. CASE Answer
  <2>1. PICK t \in tasks :
          /\ tasks' = tasks \ {t}
          /\ rows' = rows \union
               {[of |-> Obj("DaemonSet", t.ns, cmd.name),
                 status |-> IF t.step = "failed" THEN "Unknown"
                            ELSE Summary(About(WithLabel(t.out, "daemonset"), t.ns, cmd.name))]}
    BY <1>1 DEF Answer
  <2>2. pc = "fetch" /\ cmd.kind = "DaemonSet"
        /\ UNCHANGED <<world, pc, cmd, asked, toload, answered, results, listing, listed, was>>
    BY <1>1 DEF Answer
  <2>3. cmd.name \in Name /\ t.ns \in Namespace
    BY <2>2, CommandParts DEF TypeInv, TypeOK, Placed
  <2>4. Obj("DaemonSet", t.ns, cmd.name) \in Object
    BY <2>3, ObjType DEF Kind
  <2>5. "Unknown" \in Status /\ Summary(About(WithLabel(t.out, "daemonset"), t.ns, cmd.name)) \in Status
    BY SummaryType DEF Status
  <2>6. rows' \subseteq [of : Object \union Container, status : Status]
    BY <2>1, <2>4, <2>5 DEF TypeInv, TypeOK
  <2>7. TypeOK'
    BY <2>1, <2>2, <2>6 DEF world, TypeInv, TypeOK
  <2>8. Placed'
    BY <2>1, <2>2 DEF world, TypeInv, Placed
  <2> QED
    BY <2>7, <2>8 DEF TypeInv
<1>2. CASE Answered
  <2>1. pc = "fetch" /\ pc' = "ok" /\ UNCHANGED <<world, cmd, progress, was>>
    BY <1>2 DEF Answered
  <2>2. TypeOK'
    BY <2>1 DEF world, progress, TypeInv, TypeOK
  <2>3. Placed'
    BY <2>1 DEF world, progress, TypeInv, Placed
  <2> QED
    BY <2>2, <2>3 DEF TypeInv
<1> QED
  BY <1>1, <1>2

LEMMA ReadNamesTyped ==
    ASSUME TypeInv, Connect \/ LocalApps \/ LocalDaemonSets
    PROVE  TypeInv'
<1>1. CASE Connect
  <2>1. pc = "names" /\ pc' = "ok" /\ UNCHANGED <<world, cmd, progress, was>>
    BY <1>1 DEF Connect
  <2>2. TypeOK'
    BY <2>1 DEF world, progress, TypeInv, TypeOK
  <2>3. Placed'
    BY <2>1 DEF world, progress, TypeInv, Placed
  <2> QED
    BY <2>2, <2>3 DEF TypeInv
<1>2. ASSUME NEW step \in {"names", "ds"}, NEW kind, NEW next \in {"ds", "ps"}, ReadNames(step, kind, next)
      PROVE  TypeInv'
  <2> DEFINE below == {o \in Object : o.kind = kind /\ o.ns = cmd.ns}
  <2>1. pc \in {"names", "ds"} /\ pc' \in {"ds", "ps"}
        /\ UNCHANGED <<world, cmd, asked, toload, tasks, answered, results, listing, rows>>
    BY <1>2 DEF ReadNames
  <2>2. PICK unread \in SUBSET below : /\ listed' = listed \union ((below \intersect local) \ unread)
                                       /\ was' = [was EXCEPT !.unread = @ \union unread]
    BY <1>2 DEF ReadNames, Failing
  <2>3. below \subseteq Object
    OBVIOUS
  <2> HIDE DEF below
  <2>4. TypeOK'
    BY <2>1, <2>2, <2>3 DEF world, TypeInv, TypeOK, History
  <2>5. Placed'
    BY <2>1 DEF world, TypeInv, Placed
  <2> QED
    BY <2>4, <2>5 DEF TypeInv
<1> QED
  BY <1>1, <1>2 DEF LocalApps, LocalDaemonSets

LEMMA CollectTyped ==
    ASSUME TypeInv, Collect
    PROVE  TypeInv'
<1>1. PICK t \in tasks :
         LET out == IF t.host \in up THEN Output(t.host) ELSE {}
         IN  rows' = {[of |-> r[1], status |-> Management(r[1], t.ns)] : r \in out}
                \union UNION {{[of |-> o, status |-> s] : s \in AppState(About(
                                  {r \in out : r[1].kind = "App"}, t.ns, o.name))} :
                              o \in AppsOf(out, t.ns) \intersect listed}
  BY DEF Collect
<1> DEFINE out == IF t.host \in up THEN Output(t.host) ELSE {}
           Row == [of : Object \union Container, status : Status]
<1>2. out \subseteq Reported
  BY OutputType DEF TypeInv, TypeOK
<1>3. \A c, ns : Management(c, ns) \in Status
  <2> TAKE c, ns
  <2>1. CASE c.ns # ns \/ ~HasLabel(c, "owner")
    BY <2>1 DEF Management, Status
  <2>2. CASE c.ns = ns /\ HasLabel(c, "owner")
    BY <2>2 DEF Management, Status
  <2> QED
    BY <2>1, <2>2
<1>4. {[of |-> r[1], status |-> Management(r[1], t.ns)] : r \in out} \subseteq Row
  BY <1>2, <1>3 DEF Reported
<1> DEFINE Shows(o) == AppState(About({r \in out : r[1].kind = "App"}, t.ns, o.name))
           apps == AppsOf(out, t.ns)
<1>5. UNION {{[of |-> o, status |-> s] : s \in Shows(o)} : o \in apps \intersect listed} \subseteq Row
  <2>1. listed \subseteq Object
    BY DEF TypeInv, TypeOK
  <2>2. \A o : Shows(o) \subseteq Status
    BY AppStateType
  <2> HIDE DEF Shows, apps
  <2> QED
    BY <2>1, <2>2
<1>6. rows' \subseteq Row
  BY <1>1, <1>4, <1>5
<1>7. pc = "ps" /\ pc' = "ok"
      /\ UNCHANGED <<world, cmd, asked, toload, tasks, answered, results, listing, listed, was>>
  BY DEF Collect
<1>8. TypeOK'
  BY <1>6, <1>7 DEF world, TypeInv, TypeOK
<1>9. Placed'
  BY <1>7 DEF world, TypeInv, Placed
<1> QED
  BY <1>8, <1>9 DEF TypeInv

LEMMA NextTypeInv == TypeInv /\ [Next]_vars => TypeInv'
<1> SUFFICES ASSUME TypeInv, [Next]_vars PROVE TypeInv'
  OBVIOUS
<1>1. CASE UNCHANGED vars
  BY <1>1 DEF vars, world, progress, TypeInv, TypeOK, Placed
<1>2. CASE Work
  BY <1>2, FindOneTyped, FindHomeTyped, ValidNamespacesTyped, LoadTyped, FetchTyped, MergeTyped,
     FetchedTyped, ListTyped, MatchTyped, AnswerTyped, ReadNamesTyped, CollectTyped DEF Work
<1> QED
  BY <1>1, <1>2, BeginTyped, ReadFailsTyped, ElsewhereTyped DEF Next

(* Types, for every command, whatever happens beside it: the containers and  *)
(* objects in a row are ones there are, and every task has a host.           *)
THEOREM TypeCorrect == Spec => []TypeOK
<1>1. Spec => []TypeInv
  BY InitTypeInv, NextTypeInv, PTL DEF Spec
<1>2. TypeInv => TypeOK
  BY DEF TypeInv
<1> QED
  BY <1>1, <1>2, PTL

-----------------------------------------------------------------------------
(* The history: it grows, and holds what is so now. *)

LEMMA GrowsParts ==
    \A a, b : Grows(a, b) <=> /\ a.homes \subseteq b.homes /\ a.downs \subseteq b.downs
                              /\ a.there \subseteq b.there /\ a.gone \subseteq b.gone
                              /\ a.outs \subseteq b.outs
                              /\ a.unread \subseteq b.unread /\ a.unloaded \subseteq b.unloaded
  BY DEF Grows

(* A step of the command leaves the world alone, and forgets nothing.        *)
LEMMA WorkGrows ==
    ASSUME TypeInv, Work \/ ReadFails
    PROVE  Busy /\ UNCHANGED <<world, cmd>> /\ Grows(was, was')
<1>1. CASE LoadNext
  BY <1>1, GrowsParts DEF LoadNext, Busy, TypeInv, TypeOK, History
<1>2. CASE ListOne
  BY <1>2, GrowsParts DEF ListOne, Busy, TypeInv, TypeOK, History
<1>3. ASSUME NEW step \in {"names", "ds"}, NEW kind, NEW next, ReadNames(step, kind, next)
      PROVE  Busy /\ UNCHANGED <<world, cmd>> /\ Grows(was, was')
  BY <1>3, GrowsParts DEF ReadNames, Busy, TypeInv, TypeOK, History
<1>4. CASE LocalApps \/ LocalDaemonSets
  BY <1>3, <1>4 DEF LocalApps, LocalDaemonSets
<1>5. Grows(was, was)
  BY GrowsParts
<1>6. CASE FindOne \/ FindHome \/ ValidNamespaces \/ Loaded \/ Fetch \/ Merge \/ Fetched \/ ReadFails
  BY <1>5, <1>6 DEF FindOne, FindHome, ValidNamespaces, Loaded, Fetch, Merge, Fetched, ReadFails, Refuse, Busy
<1>7. CASE Listed \/ Match \/ Answer \/ Answered \/ Connect \/ Collect
  BY <1>5, <1>7 DEF Listed, Match, Answer, Answered, Connect, Collect, Busy
<1> QED
  BY <1>1, <1>2, <1>4, <1>6, <1>7 DEF Work

LEMMA ElsewhereGrows ==
    ASSUME TypeInv, Elsewhere
    PROVE  Busy /\ UNCHANGED <<pc, cmd, progress>> /\ Grows(was, was') /\ Grows(Now', was')
<1>1. was' = Remember(was, Now')
  BY DEF Elsewhere
<1>2. DOMAIN was = {"homes", "downs", "there", "gone", "outs", "unread", "unloaded"}
  BY DEF TypeInv, TypeOK, History
<1> QED
  BY <1>1, <1>2 DEF Elsewhere, Remember, Grows

LEMMA NextNowSeen == TypeInv /\ NowSeen /\ [Next]_vars => NowSeen'
<1> SUFFICES ASSUME TypeInv, NowSeen, [Next]_vars, Busy' PROVE Grows(Now, was)'
  BY DEF NowSeen
<1>1. CASE UNCHANGED vars
  BY <1>1 DEF vars, world, NowSeen, Now, Output, Busy, Grows
<1>2. CASE Begin
  <2>1. Now' = Now /\ was' = Now
    BY <1>2 DEF Begin, world, Now, Output
  <2> QED
    BY <2>1, GrowsParts
<1>3. CASE Work \/ ReadFails
  <2>1. Now' = Now
    <3>1. UNCHANGED <<home, local, state, up>>
      BY <1>3, WorkGrows DEF world
    <3> QED
      BY <3>1 DEF Now, Output
  <2>2. Grows(Now, was) /\ Grows(was, was')
    BY <1>3, WorkGrows DEF NowSeen
  <2> QED
    BY <2>1, <2>2, GrowsParts
<1>4. CASE Elsewhere
  BY <1>4, ElsewhereGrows
<1> QED
  BY <1>1, <1>2, <1>3, <1>4 DEF Next

(* What the history holds of the present. *)
LEMMA PresentSeen ==
    ASSUME TypeInv, NowSeen, Busy
    PROVE  /\ \A ns \in Namespace : <<ns, home[ns]>> \in was.homes
           /\ \A h \in Host \ up : h \in was.downs
           /\ local \subseteq was.there
           /\ \A o \in Object \ local : o \in was.gone
           /\ \A h \in Host : <<h, Output(h)>> \in was.outs
<1>1. Grows(Now, was)
  BY DEF NowSeen
<1> QED
  BY <1>1, GrowsParts DEF Now

-----------------------------------------------------------------------------
(* The tasks. *)

LEMMA TaskWasKept ==
    ASSUME Grows(was, was'), NEW t, TaskWas(t)
    PROVE  TaskWas(t)'
  BY GrowsParts DEF TaskWas

LEMMA NewTaskWas ==
    ASSUME TypeInv, NowSeen, Busy, Grows(was, was'), NEW ns \in Namespace, NEW t, t = Task(ns)
    PROVE  TaskWas(t)'
<1>1. <<ns, home[ns]>> \in was'.homes
  BY PresentSeen, GrowsParts
<1> QED
  BY <1>1 DEF TaskWas, Task

LEMMA NextTaskSound == TypeInv /\ NowSeen /\ TaskSound /\ [Next]_vars => TaskSound'
<1> SUFFICES ASSUME TypeInv, NowSeen, TaskSound, [Next]_vars PROVE TaskSound'
  OBVIOUS
<1>1. CASE UNCHANGED vars
  BY <1>1 DEF vars, progress, TaskSound, TaskWas
<1>2. CASE Begin
  BY <1>2 DEF Begin, TypeInv, Placed, TaskSound
<1>3. CASE Elsewhere
  BY <1>3, ElsewhereGrows, TaskWasKept DEF progress, TaskSound
<1>4. ASSUME Work \/ ReadFails, tasks' \subseteq tasks PROVE TaskSound'
  BY <1>4, WorkGrows, TaskWasKept DEF TaskSound
<1>5. ASSUME Work, NEW S \in SUBSET Namespace, tasks' \subseteq tasks \union {Task(ns) : ns \in S} PROVE TaskSound'
  <2> SUFFICES ASSUME NEW t \in tasks' PROVE TaskWas(t)'
    BY DEF TaskSound
  <2>1. CASE t \in tasks
    BY <1>5, <2>1, WorkGrows, TaskWasKept DEF TaskSound
  <2>2. CASE \E ns \in S : t = Task(ns)
    BY <1>5, <2>2, WorkGrows, NewTaskWas
  <2> QED
    BY <1>5, <2>1, <2>2
<1>6. CASE FindOne
  <2>1. cmd.kind = "Namespace" => cmd.ns \in Namespace
    BY <1>6, CommandParts DEF FindOne, TypeInv, Placed
  <2>2. CASE tasks' = {Task(cmd.ns)} /\ cmd.kind = "Namespace"
    BY <1>5, <1>6, <2>1, <2>2 DEF Work
  <2>3. CASE UNCHANGED tasks
    BY <1>4, <1>6, <2>3 DEF Work
  <2> QED
    BY <1>6, <2>2, <2>3 DEF FindOne, Refuse, progress
<1>7. CASE LoadNext
  <2>1. PICK ns \in toload : UNCHANGED tasks \/ tasks' = tasks \union {Task(ns)}
    BY <1>7 DEF LoadNext
  <2>2. ns \in Namespace
    BY DEF TypeInv, TypeOK
  <2> QED
    BY <1>5, <1>7, <2>1, <2>2 DEF Work
<1>8. CASE Match
  <2>1. tasks' = {Task(ns) : ns \in asked'} /\ asked' \subseteq Namespace
    BY <1>8 DEF Match
  <2> QED
    BY <1>5, <1>8, <2>1 DEF Work
<1>9. CASE Fetch
  <2>1. PICK t \in tasks : tasks' = (tasks \ {t}) \union
              {IF t.host \in up THEN [t EXCEPT !.step = "got", !.out = Output(t.host)]
               ELSE [t EXCEPT !.step = "failed"]}
    BY <1>9 DEF Fetch
  <2>2. Grows(was, was') /\ Busy
    BY <1>9, WorkGrows DEF Work
  <2>3. t \in [ns : asked, host : Host, step : {"ask", "failed", "got"}, out : SUBSET Reported]
    BY DEF TypeInv, TypeOK
  <2>4. <<t.ns, t.host>> \in was'.homes
    BY <2>2, GrowsParts DEF TaskSound, TaskWas
  <2>5. t.host \notin up => t.host \in was'.downs
    BY <2>2, <2>3, GrowsParts, PresentSeen
  <2>6. <<t.host, Output(t.host)>> \in was'.outs
    BY <2>2, <2>3, GrowsParts, PresentSeen
  <2>7. PICK u : /\ tasks' = (tasks \ {t}) \union {u}
                 /\ u = IF t.host \in up THEN [t EXCEPT !.step = "got", !.out = Output(t.host)]
                        ELSE [t EXCEPT !.step = "failed"]
    BY <2>1
  <2>8. TaskWas(u)'
    BY <2>3, <2>4, <2>5, <2>6, <2>7 DEF TaskWas
  <2> QED
    BY <2>2, <2>7, <2>8, TaskWasKept DEF TaskSound
<1>10. CASE FindHome \/ ValidNamespaces \/ Loaded \/ Merge \/ Fetched \/ ListOne \/ Listed \/ Answer
            \/ Answered \/ ReadFails
  BY <1>4, <1>10 DEF Work, FindHome, ValidNamespaces, Loaded, Merge, Fetched, ListOne, Listed, Answer,
     Answered, ReadFails, Refuse, progress
<1>11. CASE Connect \/ LocalApps \/ LocalDaemonSets \/ Collect
  BY <1>4, <1>11 DEF Work, Connect, LocalApps, LocalDaemonSets, ReadNames, Collect, progress
<1> QED
  BY <1>1, <1>2, <1>3, <1>6, <1>7, <1>8, <1>9, <1>10, <1>11 DEF Next, Work

-----------------------------------------------------------------------------
(* What is listed. *)

LEMMA ListedKept ==
    ASSUME ListedSound, Grows(was, was'), Busy, UNCHANGED <<cmd, asked, listed, listing>>,
           pc' # "idle", pc' = "valid" => pc = "valid", pc = "valid" => pc' \in {"valid", "refused"},
           pc' \in {"list", "ds", "ps"} => pc' = pc
    PROVE  ListedSound'
<1>1. pc # "idle" /\ pc # "refused"
  BY DEF Busy
<1> QED
  BY <1>1, GrowsParts DEF ListedSound, ForTable, Missed

LEMMA BeginListed ==
    ASSUME TypeInv, Begin
    PROVE  ListedSound'
<1>1. PICK c \in Command : cmd' = c /\ pc' = Start(c) /\ asked' = {c.ns} \ {None}
  BY DEF Begin
<1>2. listed' = {}
  BY DEF Begin, TypeInv, Placed
<1>3. c \in AllCommands
  BY CommandIssued
<1>4. pc' \in {"one", "valid", "load", "match"}
  BY <1>1, <1>3, CommandParts DEF Start
<1>5. c.kind \in {"App", "Job"} /\ pc' # "valid" => c.ns # None
  BY <1>1 DEF Start
<1> QED
  BY <1>1, <1>2, <1>4, <1>5 DEF ListedSound, ForTable

LEMMA FindOneListed ==
    ASSUME TypeInv, NowSeen, ListedSound, FindOne
    PROVE  ListedSound'
<1>1. Busy /\ Grows(was, was') /\ UNCHANGED cmd /\ pc = "one"
  BY WorkGrows DEF Work, FindOne
<1>2. CASE UNCHANGED <<asked, listed, listing>> /\ pc' \in {"names", "refused"}
  BY <1>1, <1>2, ListedKept
<1>3. CASE /\ Obj(cmd.kind, cmd.ns, cmd.name) \in local /\ pc' \in {"home", "load"}
           /\ listed' = {Obj(cmd.kind, cmd.ns, cmd.name)}
           /\ UNCHANGED <<asked, was>>
  <2>1. asked = {cmd.ns}
    BY <1>1 DEF TypeInv, Placed
  <2>2. Obj(cmd.kind, cmd.ns, cmd.name) \in was.there
    BY <1>1, <1>3, PresentSeen
  <2>3. Obj(cmd.kind, cmd.ns, cmd.name).kind = cmd.kind /\ Obj(cmd.kind, cmd.ns, cmd.name).ns = cmd.ns
    BY DEF Obj
  <2> QED
    BY <1>1, <1>3, <2>1, <2>2, <2>3 DEF ListedSound, ForTable
<1> QED
  BY <1>2, <1>3 DEF FindOne, Refuse, progress

LEMMA ValidNamespacesListed ==
    ASSUME TypeInv, NowSeen, ListedSound, ValidNamespaces
    PROVE  ListedSound'
<1>1. Busy /\ pc = "valid" /\ pc' = "load" /\ asked' = {ns \in Namespace : home[ns] # None}
      /\ UNCHANGED <<cmd, listed, listing, was>>
  BY DEF ValidNamespaces, Busy
<1>2. \A ns \in Namespace : ns \notin asked' => <<ns, None>> \in was.homes
  BY <1>1, PresentSeen
<1>3. listed = {}
  BY <1>1 DEF TypeInv, Placed
<1> QED
  BY <1>1, <1>2, <1>3 DEF ListedSound, ForTable

LEMMA FetchedListed ==
    ASSUME TypeInv, ListedSound, Fetched
    PROVE  ListedSound'
<1>1. Busy /\ Grows(was, was') /\ UNCHANGED <<cmd, was, asked, listed>> /\ pc = "fetch"
  BY WorkGrows DEF Work, Fetched
<1>2. CASE pc' = "ok" /\ UNCHANGED listing
  BY <1>1, <1>2, ListedKept
<1>3. CASE pc' = "list" /\ listing' = {o \in Object : o.kind = cmd.kind /\ o.ns \in asked}
  BY <1>1, <1>3 DEF ListedSound, ForTable
<1> QED
  BY <1>2, <1>3 DEF Fetched

LEMMA ListOneListed ==
    ASSUME TypeInv, NowSeen, ListedSound, ListOne
    PROVE  ListedSound'
<1>1. Busy /\ pc = "list" /\ UNCHANGED <<pc, cmd, asked>> /\ Grows(was, was')
  BY WorkGrows DEF Work, ListOne
<1>2. PICK o \in listing :
        /\ listing' = listing \ {o}
        /\ \/ o \in local /\ listed' = listed \union {o} /\ UNCHANGED was
           \/ o \notin local /\ UNCHANGED <<listed, was>>
           \/ was' = [was EXCEPT !.unread = @ \union {o}] /\ UNCHANGED listed
  BY DEF ListOne
<1>3. o.kind = cmd.kind /\ o.ns \in asked
  BY <1>1 DEF ListedSound
<1>4. CASE o \in local /\ listed' = listed \union {o} /\ UNCHANGED was
  <2>1. o \in was.there
    BY <1>1, <1>4, PresentSeen
  <2> QED
    BY <1>1, <1>2, <1>3, <1>4, <2>1 DEF ListedSound, ForTable, Missed
<1>5. CASE o \notin local /\ UNCHANGED <<listed, was>>
  <2>1. o \in Object
    BY DEF TypeInv, TypeOK
  <2>2. o \in was.gone
    BY <1>1, <1>5, <2>1, PresentSeen
  <2> QED
    BY <1>1, <1>2, <1>3, <1>5, <2>2 DEF ListedSound, ForTable, Missed
<1>6. CASE was' = [was EXCEPT !.unread = @ \union {o}] /\ UNCHANGED listed
  <2>1. /\ was'.unread = was.unread \union {o}
        /\ was'.gone = was.gone /\ was'.there = was.there /\ was'.homes = was.homes
    BY <1>6 DEF TypeInv, TypeOK, History
  <2> QED
    BY <1>1, <1>2, <1>3, <1>6, <2>1 DEF ListedSound, ForTable, Missed
<1> QED
  BY <1>2, <1>4, <1>5, <1>6

LEMMA ReadNamesListed ==
    ASSUME TypeInv, NowSeen, ListedSound, LocalApps \/ LocalDaemonSets
    PROVE  ListedSound'
<1>1. Busy /\ UNCHANGED <<cmd, asked, listing>> /\ Grows(was, was') /\ pc' \in {"ds", "ps"}
  BY WorkGrows DEF Work, LocalApps, LocalDaemonSets, ReadNames
<1>2. cmd.kind = "Namespace"
  BY DEF LocalApps, LocalDaemonSets, ReadNames, TypeInv, Placed
<1>3. ASSUME NEW kind, ReadNames(pc, kind, pc')
      PROVE  /\ listed' \subseteq was'.there
             /\ \A o \in Object : o.kind = kind /\ o.ns = cmd.ns => o \in listed' \union Missed'
             /\ listed \subseteq listed'
  <2> DEFINE below == {o \in Object : o.kind = kind /\ o.ns = cmd.ns}
  <2>1. PICK unread \in SUBSET below : /\ listed' = listed \union ((below \intersect local) \ unread)
                                       /\ was' = [was EXCEPT !.unread = @ \union unread]
    BY <1>3 DEF ReadNames, Failing
  <2>2. was'.unread = was.unread \union unread /\ was'.gone = was.gone /\ was'.there = was.there
    BY <2>1 DEF TypeInv, TypeOK, History
  <2>3. local \subseteq was.there /\ \A o \in Object \ local : o \in was.gone
    BY <1>1, PresentSeen
  <2> QED
    BY <2>1, <2>2, <2>3 DEF ListedSound, Missed
<1>4. CASE LocalApps
  <2>1. ReadNames(pc, "App", pc') /\ pc' = "ds"
    BY <1>4 DEF LocalApps, ReadNames
  <2> QED
    BY <1>1, <1>2, <1>3, <2>1 DEF ListedSound, ForTable
<1>5. CASE LocalDaemonSets
  <2>1. ReadNames(pc, "DaemonSet", pc') /\ pc' = "ps" /\ pc = "ds"
    BY <1>5 DEF LocalDaemonSets, ReadNames
  <2>2. Missed \subseteq Missed'
    BY <1>1, GrowsParts DEF Missed
  <2> QED
    BY <1>1, <1>2, <1>3, <2>1, <2>2 DEF ListedSound, ForTable
<1> QED
  BY <1>4, <1>5

LEMMA NextListedSound == TypeInv /\ NowSeen /\ ListedSound /\ [Next]_vars => ListedSound'
<1> SUFFICES ASSUME TypeInv, NowSeen, ListedSound, [Next]_vars PROVE ListedSound'
  OBVIOUS
<1>1. CASE UNCHANGED vars
  BY <1>1 DEF vars, progress, ListedSound, ForTable, Missed
<1>2. CASE Elsewhere
  <2>1. Busy /\ Grows(was, was') /\ UNCHANGED <<pc, cmd, asked, listed, listing>>
    BY <1>2, ElsewhereGrows DEF progress
  <2> QED
    BY <2>1, ListedKept DEF Busy
<1>3. CASE Match
  BY <1>3 DEF Match, TypeInv, Placed, ListedSound, ForTable
<1>4. ASSUME Work \/ ReadFails, UNCHANGED <<asked, listed, listing>>, pc' # "idle", pc' = "valid" => pc = "valid",
             pc = "valid" => pc' \in {"valid", "refused"}, pc' \in {"list", "ds", "ps"} => pc' = pc
      PROVE  ListedSound'
  BY <1>4, WorkGrows, ListedKept
<1>5. CASE FindHome \/ LoadNext \/ Loaded \/ Fetch \/ Merge
  BY <1>4, <1>5 DEF Work, FindHome, LoadNext, Loaded, Fetch, Merge, Refuse, progress
<1>6. CASE Listed \/ Answer \/ Answered \/ Connect \/ Collect \/ ReadFails
  BY <1>4, <1>6 DEF Work, Listed, Answer, Answered, Connect, Collect, ReadFails, Refuse, progress
<1> QED
  BY <1>1, <1>2, <1>3, <1>5, <1>6, BeginListed, FindOneListed, ValidNamespacesListed, FetchedListed,
     ListOneListed, ReadNamesListed DEF Next, Work

-----------------------------------------------------------------------------
(* The namespaces asked about. *)

LEMMA HomesGrow == \A ns : Grows(was, was') => Homes(ns) \subseteq Homes(ns)'
  BY GrowsParts DEF Homes

LEMMA ExcusedStays ==
    ASSUME Grows(was, was'), asked' = asked, NEW ns, Excused(ns)
    PROVE  Excused(ns)'
<1>1. CASE <<ns, None>> \in was.homes \/ ns \in was.unloaded
  BY <1>1, GrowsParts DEF Excused, Unreachable
<1>2. CASE Homes(ns) \intersect was.downs # {}
  BY <1>2, GrowsParts, HomesGrow DEF Excused, Unreachable
<1>3. CASE \E m \in asked : m < ns /\ Homes(m) \intersect Homes(ns) # {}
  <2>1. PICK m \in asked : m < ns /\ Homes(m) \intersect Homes(ns) # {}
    BY <1>3
  <2>2. Homes(m)' \intersect Homes(ns)' # {}
    BY <2>1, HomesGrow
  <2> QED
    BY <2>1, <2>2 DEF Excused
<1> QED
  BY <1>1, <1>2, <1>3 DEF Excused, Unreachable

LEMMA CoveredKept ==
    ASSUME Covered, Grows(was, was'), UNCHANGED <<cmd, asked, toload, tasks, answered>>,
           pc \in {"load", "fetch", "list"}
    PROVE  Covered'
  BY ExcusedStays DEF Covered, ForTable

LEMMA CoveredAtFirst ==
    ASSUME toload' = asked', tasks' = {}
    PROVE  Covered'
  BY DEF Covered

LEMMA LoadNextCovered ==
    ASSUME TypeInv, NowSeen, TaskSound, Covered, LoadNext
    PROVE  Covered'
<1>1. Busy /\ Grows(was, was') /\ pc = "load" /\ UNCHANGED <<cmd, pc, asked, answered>>
  BY WorkGrows DEF Work, LoadNext
<1>2. PICK ns \in toload :
        /\ \A m \in toload : ns <= m
        /\ toload' = toload \ {ns}
        /\ \/ home[ns] = None /\ UNCHANGED <<tasks, was>>
           \/ UNCHANGED tasks /\ was' = [was EXCEPT !.unloaded = @ \union {ns}]
           \/ /\ home[ns] # None /\ UNCHANGED was
              /\ tasks' = IF \E t \in tasks : t.host = home[ns] THEN tasks
                          ELSE tasks \union {Task(ns)}
  BY DEF LoadNext
<1>3. ns \in Namespace /\ ns \in Nat /\ toload \subseteq asked /\ asked \subseteq Nat
  BY HostStatusAssumption DEF TypeInv, TypeOK
<1>4. ForTable
  BY <1>1 DEF TypeInv, Placed, ForTable
<1>5. /\ \A m \in asked : m \in toload \union answered \/ (\E t \in tasks : t.ns = m) \/ Excused(m)
      /\ \A t \in tasks, m \in toload : t.ns < m
  BY <1>1, <1>4 DEF Covered
<1>6. /\ (\E t \in tasks' : t.ns = ns) \/ Excused(ns)'
      /\ tasks \subseteq tasks' /\ \A t \in tasks' \ tasks : t.ns = ns
  <2>1. CASE UNCHANGED tasks /\ was' = [was EXCEPT !.unloaded = @ \union {ns}]
    <3>1. ns \in was'.unloaded
      BY <2>1 DEF TypeInv, TypeOK, History
    <3> QED
      BY <2>1, <3>1 DEF Excused, Unreachable
  <2>4. CASE home[ns] = None /\ UNCHANGED <<tasks, was>>
    <3>1. <<ns, None>> \in was.homes
      BY <1>1, <1>3, <2>4, PresentSeen
    <3> QED
      BY <2>4, <3>1 DEF Excused, Unreachable
  <2>2. CASE UNCHANGED <<tasks, was>> /\ \E t \in tasks : t.host = home[ns]
    <3>1. PICK t \in tasks : t.host = home[ns]
      BY <2>2
    <3>2. t.ns < ns /\ t.ns \in asked /\ t.host \in Host
      BY <1>5, <3>1 DEF TypeInv, TypeOK
    <3>3. t.host \in Homes(t.ns)
      BY <3>2 DEF TaskSound, TaskWas, Homes
    <3>4. t.host \in Homes(ns)
      BY <1>1, <1>3, <3>1, <3>2, PresentSeen DEF Homes
    <3>5. Homes(t.ns)' = Homes(t.ns) /\ Homes(ns)' = Homes(ns)
      BY <2>2 DEF Homes
    <3> QED
      BY <1>1, <2>2, <3>2, <3>3, <3>4, <3>5 DEF Excused
  <2>3. CASE tasks' = tasks \union {Task(ns)}
    <3>1. Task(ns).ns = ns
      BY DEF Task
    <3> QED
      BY <2>3, <3>1
  <2> QED
    BY <1>2, <2>1, <2>2, <2>3, <2>4
<1>7. \A m \in toload' : ns < m
  BY <1>2, <1>3
<1> QED
  BY <1>1, <1>2, <1>4, <1>5, <1>6, <1>7, ExcusedStays DEF Covered, ForTable

LEMMA FetchCovered ==
    ASSUME TypeInv, Covered, Fetch
    PROVE  Covered'
<1>1. Grows(was, was') /\ pc = "fetch" /\ UNCHANGED <<cmd, pc, asked, toload, answered>>
  BY WorkGrows DEF Work, Fetch
<1>2. toload = {}
  BY <1>1 DEF TypeInv, Placed
<1>3. ASSUME NEW t \in tasks PROVE \E u \in tasks' : u.ns = t.ns
  <2>1. PICK s \in tasks : tasks' = (tasks \ {s}) \union
              {IF s.host \in up THEN [s EXCEPT !.step = "got", !.out = Output(s.host)]
               ELSE [s EXCEPT !.step = "failed"]}
    BY DEF Fetch
  <2>2. s \in [ns : asked, host : Host, step : {"ask", "failed", "got"}, out : SUBSET Reported]
    BY DEF TypeInv, TypeOK
  <2>3. PICK u \in tasks' : u = IF s.host \in up THEN [s EXCEPT !.step = "got", !.out = Output(s.host)]
               ELSE [s EXCEPT !.step = "failed"]
    BY <2>1
  <2>4. u.ns = s.ns
    BY <2>2, <2>3
  <2> QED
    BY <2>1, <2>4
<1> QED
  BY <1>1, <1>2, <1>3, ExcusedStays DEF Covered, ForTable

LEMMA MergeCovered ==
    ASSUME TypeInv, TaskSound, Covered, Merge
    PROVE  Covered'
<1>1. Grows(was, was') /\ pc = "fetch" /\ UNCHANGED <<cmd, pc, asked, toload>>
  BY WorkGrows DEF Work, Merge
<1>2. toload = {}
  BY <1>1 DEF TypeInv, Placed
<1>3. PICK t \in tasks : /\ t.step # "ask" /\ tasks' = tasks \ {t}
                         /\ \/ t.step = "failed" /\ UNCHANGED answered
                            \/ answered' = answered \union {t.ns}
  BY DEF Merge
<1>4. t.step = "failed" => Excused(t.ns)
  <2>1. t.host \in Host
    BY DEF TypeInv, TypeOK
  <2> QED
    BY <2>1 DEF TaskSound, TaskWas, Excused, Unreachable, Homes
<1>5. answered \subseteq answered'
  BY <1>3
<1> QED
  BY <1>1, <1>2, <1>3, <1>4, <1>5, ExcusedStays DEF Covered, ForTable

LEMMA NextCovered == TypeInv /\ NowSeen /\ TaskSound /\ Covered /\ [Next]_vars => Covered'
<1> SUFFICES ASSUME TypeInv, NowSeen, TaskSound, Covered, [Next]_vars, ForTable', pc' \in {"load", "fetch", "list"}
             PROVE  Covered'
  BY DEF Covered
<1>1. CASE UNCHANGED vars
  BY <1>1 DEF vars, progress, Covered, ForTable, Excused, Unreachable, Homes
<1>2. CASE Elsewhere
  BY <1>2, ElsewhereGrows, CoveredKept DEF progress
<1>3. CASE Begin
  BY <1>3, CoveredAtFirst DEF Begin, TypeInv, Placed
<1>4. CASE FindOne \/ FindHome
  <2>1. pc \in {"one", "home"} /\ pc' # "names" => UNCHANGED <<asked, toload, tasks>>
    BY <1>4 DEF FindOne, FindHome, Refuse, progress
  <2> QED
    BY <1>4, <2>1, CoveredAtFirst DEF FindOne, FindHome, TypeInv, Placed
<1>5. CASE ValidNamespaces
  BY <1>5, CoveredAtFirst DEF ValidNamespaces, TypeInv, Placed
<1>6. CASE Loaded \/ Fetched \/ ListOne
  <2>1. Work /\ pc \in {"load", "fetch", "list"} /\ UNCHANGED <<asked, toload, tasks, answered>>
    BY <1>6 DEF Work, Loaded, Fetched, ListOne, progress
  <2> QED
    BY <2>1, WorkGrows, CoveredKept
<1>7. CASE Match \/ Answer
  BY <1>7 DEF Match, Answer, ForTable, TypeInv, Placed
<1>8. CASE Listed \/ Answered \/ Connect \/ LocalApps \/ LocalDaemonSets \/ Collect \/ ReadFails
  BY <1>8 DEF Listed, Answered, Connect, LocalApps, LocalDaemonSets, ReadNames, Collect, ReadFails, Refuse
<1> QED
  BY <1>1, <1>2, <1>3, <1>4, <1>5, <1>6, <1>7, <1>8, LoadNextCovered, FetchCovered, MergeCovered DEF Next, Work

-----------------------------------------------------------------------------
(* What is kept of the answers. *)

LEMMA LabelsTell ==
    ASSUME NEW out \in SUBSET Reported
    PROVE  /\ WithLabel(out, "app") = {} /\ WithLabel(out, "daemonset") = {}
           /\ WithLabel(out, "job") = OfKind(out, "Job")
           /\ \A r \in out : HasLabel(r[1], "owner") <=> r[1].kind # "Job"
<1>1. \A r \in out : r[1].kind \in Kind
  BY HostStatusAssumption DEF Reported
<1> QED
  BY <1>1 DEF WithLabel, OfKind, HasLabel, LabelsOf, Kind

LEMMA ResultsKept ==
    ASSUME ResultsSound, Grows(was, was'), UNCHANGED <<cmd, answered, results>>, pc # "idle",
           UNCHANGED rows \/ cmd.kind # "DaemonSet"
    PROVE  ResultsSound'
<1>1. was.outs \subseteq was'.outs /\ was.downs \subseteq was'.downs
  BY GrowsParts
<1>2. \A ns : Homes(ns) \subseteq Homes(ns)'
  BY HomesGrow
<1>3. cmd.kind = "Job" =>
        /\ \A r \in results : \E seen \in was'.outs : r \in Latest(Jobs(seen[2], r[1].ns, r[1].owner))
        /\ \A ns \in answered, name \in Name : About(results, ns, name) = {} =>
             \E seen \in was'.outs : seen[1] \in Homes(ns)' /\ Jobs(seen[2], ns, name) = {}
  BY <1>1, <1>2 DEF ResultsSound
<1>4. cmd.kind = "DaemonSet" => \A row \in rows' :
        row.of \in Object /\ row.of.kind = "DaemonSet" /\
        (row.status = "Unknown" => Homes(row.of.ns)' \intersect was'.downs # {})
  <2>1. \A row \in rows : Homes(row.of.ns) \intersect was.downs # {} =>
          Homes(row.of.ns)' \intersect was'.downs # {}
    BY <1>1, <1>2
  <2> QED
    BY <2>1 DEF ResultsSound
<1> QED
  BY <1>3, <1>4 DEF ResultsSound

LEMMA MergeResults ==
    ASSUME TypeInv, TaskSound, ResultsSound, Merge
    PROVE  ResultsSound'
<1>1. pc = "fetch" /\ cmd.kind # "DaemonSet" /\ UNCHANGED <<pc, cmd, was, rows>>
  BY DEF Merge
<1>2. PICK t \in tasks : /\ t.step # "ask"
                         /\ IF t.step = "failed" THEN UNCHANGED <<answered, results>>
                            ELSE /\ answered' = answered \union {t.ns}
                                 /\ results' = Merged(cmd.kind, results, t.out)
  BY DEF Merge
<1>3. t.out \subseteq Reported /\ t.step \in {"ask", "failed", "got"} /\ t.host \in Host
  BY DEF TypeInv, TypeOK
<1>4. CASE t.step = "failed"
  <2>1. Grows(was, was')
    BY <1>1, GrowsParts
  <2> QED
    BY <1>1, <1>2, <1>4, <2>1, ResultsKept
<1>5. CASE t.step = "got" /\ cmd.kind = "App"
  BY <1>1, <1>2, <1>3, <1>5, LabelsTell DEF ResultsSound, Merged
<1>6. CASE t.step = "got" /\ cmd.kind = "Job"
  <2> DEFINE out == OfKind(t.out, "Job")
  <2>1. <<t.host, t.out>> \in was.outs /\ t.host \in Homes(t.ns)
    BY <1>3, <1>6 DEF TaskSound, TaskWas, Homes
  <2>2. results' = results \union {r \in out : /\ About(results, r[1].ns, r[1].owner) = {}
                                               /\ r \in Latest(About(out, r[1].ns, r[1].owner))}
    BY <1>2, <1>3, <1>6, LabelsTell DEF Merged
  <2>3. answered' = answered \union {t.ns} /\ results \subseteq results'
    BY <1>2, <1>6, <2>2
  <2>4. \A r \in results' : \E seen \in was.outs : r \in Latest(Jobs(seen[2], r[1].ns, r[1].owner))
    <3>1. ASSUME NEW r \in out, r \in Latest(About(out, r[1].ns, r[1].owner))
          PROVE  \E seen \in was.outs : r \in Latest(Jobs(seen[2], r[1].ns, r[1].owner))
      BY <2>1, <3>1 DEF Jobs
    <3> QED
      BY <1>1, <1>6, <2>2, <3>1 DEF ResultsSound
  <2>5. ASSUME NEW name \in Name, About(results', t.ns, name) = {}
        PROVE  Jobs(t.out, t.ns, name) = {}
    <3> SUFFICES ASSUME Jobs(t.out, t.ns, name) # {} PROVE FALSE
      OBVIOUS
    <3>1. About(out, t.ns, name) \in SUBSET Reported /\ About(out, t.ns, name) # {}
      BY <1>3 DEF Jobs, About, OfKind
    <3>2. PICK r \in Latest(About(out, t.ns, name)) : TRUE
      BY <3>1, LatestExists
    <3>3. r \in out /\ r[1].ns = t.ns /\ r[1].owner = name
      BY <3>2 DEF Latest, About
    <3>4. About(results, t.ns, name) = {}
      BY <2>3, <2>5 DEF About
    <3>5. r \in results'
      BY <2>2, <3>2, <3>3, <3>4
    <3> QED
      BY <2>5, <3>3, <3>5 DEF About
  <2>6. ASSUME NEW ns \in answered', NEW name \in Name, About(results', ns, name) = {}
        PROVE  \E seen \in was.outs : seen[1] \in Homes(ns) /\ Jobs(seen[2], ns, name) = {}
    <3>1. CASE ns = t.ns
      BY <2>1, <2>5, <2>6, <3>1
    <3>2. CASE ns \in answered
      <4>1. About(results, ns, name) = {}
        BY <2>3, <2>6 DEF About
      <4> QED
        BY <1>1, <1>6, <3>2, <4>1 DEF ResultsSound
    <3> QED
      BY <2>3, <3>1, <3>2
  <2>7. \A ns : Homes(ns)' = Homes(ns)
    BY <1>1 DEF Homes
  <2> QED
    BY <1>1, <1>6, <2>4, <2>6, <2>7 DEF ResultsSound
<1>7. CASE t.step = "got" /\ cmd.kind \notin {"App", "Job"}
  BY <1>1, <1>7 DEF ResultsSound
<1> QED
  BY <1>2, <1>3, <1>4, <1>5, <1>6, <1>7

LEMMA AnswerResults ==
    ASSUME TypeInv, TaskSound, ResultsSound, Answer
    PROVE  ResultsSound'
<1>1. pc = "fetch" /\ cmd.kind = "DaemonSet" /\ UNCHANGED <<pc, cmd, was, answered, results>>
  BY DEF Answer
<1>2. PICK t \in tasks : rows' = rows \union
               {[of |-> Obj("DaemonSet", t.ns, cmd.name),
                 status |-> IF t.step = "failed" THEN "Unknown"
                            ELSE Summary(About(WithLabel(t.out, "daemonset"), t.ns, cmd.name))]}
  BY DEF Answer
<1>3. t.out \subseteq Reported /\ t.host \in Host /\ t.ns \in Namespace
  BY DEF TypeInv, TypeOK
<1>4. Obj("DaemonSet", t.ns, cmd.name) \in Object
  BY <1>1, <1>3, CommandParts, ObjType DEF TypeInv, Placed, Kind
<1>5. Obj("DaemonSet", t.ns, cmd.name).ns = t.ns /\ Obj("DaemonSet", t.ns, cmd.name).kind = "DaemonSet"
  BY DEF Obj
<1>6. Summary(About(WithLabel(t.out, "daemonset"), t.ns, cmd.name)) # "Unknown"
  <2>1. About(WithLabel(t.out, "daemonset"), t.ns, cmd.name) = {}
    BY <1>3, LabelsTell DEF About
  <2>2. Summary({}) = "NotFound"
    BY DEF Summary
  <2> QED
    BY <2>1, <2>2
<1>7. t.step = "failed" => Homes(t.ns) \intersect was.downs # {}
  BY <1>3 DEF TaskSound, TaskWas, Homes
<1>8. \A ns : Homes(ns)' = Homes(ns)
  BY <1>1 DEF Homes
<1>9. ASSUME NEW row \in rows'
      PROVE  row.of \in Object /\ row.of.kind = "DaemonSet" /\
             (row.status = "Unknown" => Homes(row.of.ns) \intersect was.downs # {})
  <2>1. CASE row \in rows
    BY <1>1, <2>1 DEF ResultsSound
  <2>2. CASE row.of = Obj("DaemonSet", t.ns, cmd.name) /\ (row.status = "Unknown" => t.step = "failed")
    BY <1>4, <1>5, <1>7, <2>2
  <2> QED
    BY <1>2, <1>6, <2>1, <2>2
<1> QED
  BY <1>1, <1>8, <1>9 DEF ResultsSound

LEMMA NextResultsSound == TypeInv /\ TaskSound /\ ResultsSound /\ [Next]_vars => ResultsSound'
<1> SUFFICES ASSUME TypeInv, TaskSound, ResultsSound, [Next]_vars PROVE ResultsSound'
  OBVIOUS
<1>1. CASE UNCHANGED vars
  BY <1>1 DEF vars, progress, ResultsSound, Homes
<1>2. CASE Begin
  BY <1>2 DEF Begin, ResultsSound, TypeInv, Placed, About, Jobs
<1>3. CASE Elsewhere
  BY <1>3, ElsewhereGrows, ResultsKept DEF progress, Busy
<1>4. ASSUME Work \/ ReadFails, UNCHANGED <<answered, results>>, UNCHANGED rows \/ cmd.kind # "DaemonSet"
      PROVE  ResultsSound'
  BY <1>4, WorkGrows, ResultsKept DEF Busy
<1>5. CASE FindOne \/ FindHome \/ ValidNamespaces \/ LoadNext \/ Loaded \/ Fetch \/ Fetched \/ ReadFails
  BY <1>4, <1>5 DEF Work, FindOne, FindHome, ValidNamespaces, LoadNext, Loaded, Fetch, Fetched, ReadFails,
     Refuse, progress
<1>6. CASE ListOne \/ Listed \/ Match \/ Answered
  BY <1>4, <1>6 DEF Work, ListOne, Listed, Match, Answered, progress, TypeInv, Placed
<1>7. CASE Connect \/ LocalApps \/ LocalDaemonSets \/ Collect
  BY <1>4, <1>7 DEF Work, Connect, LocalApps, LocalDaemonSets, ReadNames, Collect, progress, TypeInv, Placed
<1> QED
  BY <1>1, <1>2, <1>3, <1>5, <1>6, <1>7, MergeResults, AnswerResults DEF Next, Work

-----------------------------------------------------------------------------
(* Together. *)

Inv == TypeInv /\ NowSeen /\ TaskSound /\ ListedSound /\ Covered /\ ResultsSound

LEMMA InitInv == Init => Inv
<1> SUFFICES ASSUME Init PROVE Inv
  OBVIOUS
<1>1. pc = "idle" /\ listed = {} /\ tasks = {}
  BY DEF Init
<1>2. ListedSound
  BY <1>1 DEF ListedSound, ForTable
<1> QED
  BY <1>1, <1>2, InitTypeInv DEF Inv, NowSeen, Busy, TaskSound, Covered, ForTable, ResultsSound

LEMMA NextInv == Inv /\ [Next]_vars => Inv'
  BY NextTypeInv, NextNowSeen, NextTaskSound, NextListedSound, NextCovered, NextResultsSound DEF Inv

LEMMA Invariance == Spec => []Inv
  BY InitInv, NextInv, PTL DEF Spec

(* The steps that show something; after them, nothing happens.               *)
Tabulated == ((Fetched /\ pc' = "ok") \/ Listed) /\ rows' = Table(listed)

LEMMA Endings ==
    ASSUME TypeInv, [Next]_vars, Shown'
    PROVE  UNCHANGED vars \/ (UNCHANGED <<cmd, was, asked>> /\ (Tabulated \/ Answered \/ Connect \/ Collect))
<1>1. CASE Begin
  <2>1. PICK c \in Command : pc' = Start(c)
    BY <1>1 DEF Begin
  <2>2. Start(c) # "ok"
    BY <2>1, CommandIssued, CommandParts DEF Start
  <2> QED
    BY <2>1, <2>2 DEF Shown
<1>2. CASE Elsewhere \/ ReadFails \/ FindOne \/ FindHome \/ ValidNamespaces \/ LoadNext \/ Loaded
  BY <1>2 DEF Shown, Elsewhere, ReadFails, FindOne, FindHome, ValidNamespaces, LoadNext, Loaded, Refuse, Busy
<1>3. CASE Fetch \/ Merge \/ ListOne \/ Match \/ Answer \/ LocalApps \/ LocalDaemonSets
  BY <1>3 DEF Shown, Fetch, Merge, ListOne, Match, Answer, LocalApps, LocalDaemonSets, ReadNames
<1>4. CASE Fetched \/ Listed
  <2>1. UNCHANGED <<cmd, was, asked>> /\ rows' = Table(listed)
    BY <1>4 DEF Shown, Fetched, Listed
  <2> QED
    BY <1>4, <2>1 DEF Shown, Tabulated
<1>5. CASE Answered \/ Connect \/ Collect
  BY <1>5 DEF Answered, Connect, Collect, progress
<1> QED
  BY <1>1, <1>2, <1>3, <1>4, <1>5 DEF Next, Work

(* A row of a table is about an object that was listed, and explained.       *)
LEMMA TableRows ==
    ASSUME Inv, Tabulated
    PROVE  /\ ForTable /\ Busy
           /\ cmd.name = None => pc = "list" /\ listing = {}
           /\ \A row \in rows' : /\ row.of \in listed /\ row.of \in Object
                                 /\ row.of.kind = cmd.kind /\ row.of.ns \in asked
                                 /\ row.status \in StatusOf(row.of)
           /\ \A o \in listed : \A s \in StatusOf(o) : [of |-> o, status |-> s] \in rows'
           /\ \A ns \in asked : ns \in answered \/ Excused(ns)
<1>1. pc \in {"fetch", "list"} /\ tasks = {} /\ toload = {} /\ ForTable /\ Busy
  <2>1. pc \in {"fetch", "list"} /\ (pc = "fetch" => cmd.kind # "DaemonSet" /\ tasks = {})
    BY DEF Tabulated, Fetched, Listed
  <2>2. cmd.kind \in {"App", "Job", "DaemonSet", "Namespace"}
    BY <2>1, CommandParts DEF Inv, TypeInv, Placed
  <2>3. /\ pc = "fetch" => cmd.kind # "Namespace" /\ toload = {}
        /\ pc = "list" => cmd.kind \in {"App", "Job"} /\ toload = {} /\ tasks = {}
    BY DEF Inv, TypeInv, Placed
  <2> QED
    BY <2>1, <2>2, <2>3 DEF ForTable, Busy
<1>2. cmd.name = None => pc = "list" /\ listing = {}
  BY DEF Tabulated, Fetched, Listed
<1>3. \A o \in listed : o.kind = cmd.kind /\ o.ns \in asked /\ o \in Object
  BY <1>1 DEF Inv, ListedSound, TypeInv, TypeOK
<1>4. rows' = Table(listed)
  BY DEF Tabulated
<1>5. \A row \in Table(listed) : \E o \in listed : \E s \in StatusOf(o) : row = [of |-> o, status |-> s]
  BY DEF Table
<1>6. \A o \in listed : \A s \in StatusOf(o) : [of |-> o, status |-> s] \in Table(listed)
  BY DEF Table
<1>7. \A ns \in asked : ns \in answered \/ Excused(ns)
  BY <1>1 DEF Inv, Covered
<1> HIDE DEF Table
<1>8. \A row \in rows' : /\ row.of \in listed /\ row.of \in Object
                         /\ row.of.kind = cmd.kind /\ row.of.ns \in asked
                         /\ row.status \in StatusOf(row.of)
  <2> SUFFICES ASSUME NEW row \in rows'
               PROVE  /\ row.of \in listed /\ row.of \in Object
                      /\ row.of.kind = cmd.kind /\ row.of.ns \in asked
                      /\ row.status \in StatusOf(row.of)
    OBVIOUS
  <2>1. PICK o \in listed : \E s \in StatusOf(o) : row = [of |-> o, status |-> s]
    BY <1>4, <1>5
  <2>2. row.of = o /\ row.status \in StatusOf(o)
    BY <2>1
  <2> QED
    BY <1>3, <2>2
<1> QED
  BY <1>1, <1>2, <1>4, <1>6, <1>7, <1>8

(* What is shown of a Job was so. *)
LEMMA RunShown ==
    ASSUME Inv, pc # "idle", cmd.kind = "Job", NEW ns \in answered, NEW name \in Name,
           NEW s \in RunStatus(About(results, ns, name))
    PROVE  \E seen \in was.outs : /\ s \in RunStatus(Jobs(seen[2], ns, name))
                                  /\ s = "Never" => seen[1] \in Homes(ns)
<1> DEFINE mine == About(results, ns, name)
<1>1. CASE mine = {}
  <2>1. PICK seen \in was.outs : seen[1] \in Homes(ns) /\ Jobs(seen[2], ns, name) = {}
    BY <1>1 DEF Inv, ResultsSound
  <2> QED
    BY <1>1, <2>1 DEF RunStatus
<1>2. CASE mine # {}
  <2>1. PICK r \in Latest(mine) : s = JobState[r[2]]
    BY <1>2 DEF RunStatus
  <2>2. r \in results /\ r[1].ns = ns /\ r[1].owner = name
    BY <2>1 DEF Latest, About
  <2>3. PICK seen \in was.outs : r \in Latest(Jobs(seen[2], ns, name))
    BY <2>2 DEF Inv, ResultsSound
  <2>4. Jobs(seen[2], ns, name) # {}
    BY <2>3 DEF Latest
  <2>5. s \in RunStatus(Jobs(seen[2], ns, name))
    BY <2>1, <2>3, <2>4 DEF RunStatus
  <2>6. r[2] \in State
    BY <2>2 DEF Inv, TypeInv, TypeOK, Reported
  <2>7. s # "Never"
    BY <2>1, <2>6 DEF JobState, State
  <2> QED
    BY <2>3, <2>5, <2>7
<1> QED
  BY <1>1, <1>2

-----------------------------------------------------------------------------
(* "Unknown" has a reason. *)

Explained(row) ==
    LET ns == row.of.ns IN
    \/ Unreachable(ns) \/ Unnamed(row.of)
    \/ /\ cmd.kind # "DaemonSet"
       /\ \E m \in asked : m < ns /\ Homes(m) \intersect Homes(ns) # {}

LEMMA TableExplained ==
    ASSUME Inv, Tabulated, NEW row \in rows', row.status = "Unknown"
    PROVE  Explained(row)
<1>1. /\ row.of \in Object /\ row.of.kind = cmd.kind /\ row.of.ns \in asked
      /\ row.status \in StatusOf(row.of) /\ ForTable
  BY TableRows
<1>2. CASE row.of.ns \notin answered
  <2>1. Excused(row.of.ns)
    BY <1>1, <1>2, TableRows
  <2> QED
    BY <1>1, <2>1 DEF Excused, Explained, ForTable
<1>3. CASE row.of.ns \in answered /\ cmd.kind = "App"
  <2>1. results = {}
    BY <1>1, <1>3 DEF Inv, ResultsSound, ForTable
  <2>2. row.status = Summary({})
    BY <1>1, <1>3, <2>1 DEF StatusOf, About
  <2> QED
    BY <2>2 DEF Summary
<1>4. CASE row.of.ns \in answered /\ cmd.kind = "Job"
  <2>1. row.status \in RunStatus(About(results, row.of.ns, row.of.name))
    BY <1>1, <1>4 DEF StatusOf
  <2>2. row.of.name \in Name
    BY <1>1 DEF Object
  <2>3. PICK seen \in was.outs : row.status \in RunStatus(Jobs(seen[2], row.of.ns, row.of.name))
    BY <1>1, <1>4, <2>1, <2>2, RunShown DEF ForTable
  <2> QED
    BY <1>1, <1>4, <2>3 DEF Explained, Unnamed, Jobs
<1> QED
  BY <1>1, <1>2, <1>3, <1>4 DEF ForTable

LEMMA NextUnknown == Inv /\ UnknownExplained /\ [Next]_vars => UnknownExplained'
<1> SUFFICES ASSUME Inv, UnknownExplained, [Next]_vars, Shown', cmd'.kind # "Namespace",
                    NEW row \in rows', row.status = "Unknown"
             PROVE  Explained(row)'
  BY DEF UnknownExplained, Explained
<1>1. CASE UNCHANGED vars
  <2>1. Explained(row)
    BY <1>1 DEF UnknownExplained, Explained, Shown, vars, progress
  <2> QED
    BY <1>1, <2>1 DEF Explained, Unreachable, Unnamed, Homes, vars, progress
<1>2. ASSUME UNCHANGED <<cmd, was, asked>>, Explained(row)
      PROVE  Explained(row)'
  BY <1>2 DEF Explained, Unreachable, Unnamed, Homes
<1>3. CASE UNCHANGED <<cmd, was, asked>> /\ Tabulated
  BY <1>2, <1>3, TableExplained
<1>4. CASE UNCHANGED <<cmd, was, asked>> /\ Answered
  <2>1. row \in rows /\ pc # "idle" /\ cmd.kind = "DaemonSet"
    BY <1>4 DEF Answered, progress
  <2>2. Homes(row.of.ns) \intersect was.downs # {}
    BY <2>1 DEF Inv, ResultsSound
  <2> QED
    BY <1>2, <1>4, <2>2 DEF Explained, Unreachable
<1>5. CASE UNCHANGED <<cmd, was, asked>> /\ (Connect \/ Collect)
  BY <1>5 DEF Connect, Collect, Inv, TypeInv, Placed
<1> QED
  BY <1>1, <1>3, <1>4, <1>5, Endings DEF Inv

(* Whatever fails, and in whatever order the answers come in: a namespace is *)
(* shown as "Unknown" only for one of the reasons that UnknownExplained      *)
(* lists.  The goroutines never lose an answer (prefetchStatus).             *)
THEOREM UnknownHasReason == Spec => []UnknownExplained
<1>1. Init => UnknownExplained
  BY DEF Init, UnknownExplained, Shown
<1> QED
  BY <1>1, Invariance, NextUnknown, PTL DEF Spec

-----------------------------------------------------------------------------
(* What a list shows, and misses. *)

LEMMA StatusExists ==
    ASSUME TypeOK, NEW o
    PROVE  StatusOf(o) # {}
<1> DEFINE mine == About(results, o.ns, o.name)
<1>1. mine \in SUBSET Reported
  BY DEF TypeOK, About
<1>2. RunStatus(mine) # {}
  BY <1>1, LatestExists DEF RunStatus
<1> QED
  BY <1>2 DEF StatusOf

LEMMA TableListing ==
    ASSUME Inv, Tabulated
    PROVE  /\ \A row \in rows' : row.of \in was.there
           /\ cmd.name = None =>
                \A o \in Object :
                    o.kind = cmd.kind /\ cmd.ns \in {o.ns, None} /\ (\A row \in rows' : row.of # o) =>
                        o \in was.gone \union was.unread \/ <<o.ns, None>> \in was.homes
<1>1. \A row \in rows' : row.of \in was.there
  BY TableRows DEF Inv, ListedSound
<1>2. ASSUME cmd.name = None, NEW o \in Object, o.kind = cmd.kind, cmd.ns \in {o.ns, None},
             \A row \in rows' : row.of # o
      PROVE  o \in was.gone \union was.unread \/ <<o.ns, None>> \in was.homes
  <2>1. pc = "list" /\ listing = {} /\ ForTable
    BY <1>2, TableRows
  <2>2. CASE o.ns \notin asked
    <3>1. o.ns \in Namespace
      BY DEF Object
    <3> QED
      BY <1>2, <2>1, <2>2, <3>1 DEF Inv, ListedSound
  <2>3. CASE o.ns \in asked
    <3>1. o \in listed \/ o \in was.gone \union was.unread
      BY <1>2, <2>1, <2>3 DEF Inv, ListedSound, Missed
    <3>2. ASSUME o \in listed PROVE FALSE
      <4>1. PICK s \in StatusOf(o) : TRUE
        BY StatusExists DEF Inv, TypeInv
      <4>2. [of |-> o, status |-> s] \in rows'
        BY <3>2, <4>1, TableRows
      <4>3. [of |-> o, status |-> s].of = o
        OBVIOUS
      <4> QED
        BY <1>2, <4>2, <4>3
    <3> QED
      BY <3>1, <3>2
  <2> QED
    BY <2>2, <2>3
<1> QED
  BY <1>1, <1>2

LEMMA NextListing == Inv /\ ListingWasTrue /\ [Next]_vars => ListingWasTrue'
<1> SUFFICES ASSUME Inv, ListingWasTrue, [Next]_vars, Shown', cmd'.verb = "get"
             PROVE  ListingWasTrue'
  BY DEF ListingWasTrue
<1>1. CASE UNCHANGED vars
  BY <1>1 DEF vars, progress, ListingWasTrue, Shown
<1>2. CASE UNCHANGED <<cmd, was, asked>> /\ Tabulated
  BY <1>2, TableListing DEF ListingWasTrue
<1>3. CASE UNCHANGED <<cmd, was, asked>> /\ (Answered \/ Connect \/ Collect)
  <2>1. pc # "idle" /\ cmd.kind \in {"DaemonSet", "Namespace"}
    BY <1>3 DEF Answered, Connect, Collect, Inv, TypeInv, Placed
  <2>2. cmd \in AllCommands
    BY <2>1 DEF Inv, TypeInv, Placed
  <2> QED
    BY <1>3, <2>1, <2>2, CommandParts
<1> QED
  BY <1>1, <1>2, <1>3, Endings DEF Inv

(* Whatever changes while it is put together from several reads: a list      *)
(* shows nothing that was not there, and misses nothing that was there all   *)
(* the while in a namespace that was.                                        *)
THEOREM ListingTrue == Spec => []ListingWasTrue
<1>1. Init => ListingWasTrue
  BY DEF Init, ListingWasTrue, Shown
<1> QED
  BY <1>1, Invariance, NextListing, PTL DEF Spec

-----------------------------------------------------------------------------
(* What describe of a namespace shows. *)

LEMMA CollectedRows ==
    ASSUME Inv, Collect
    PROVE  \E t \in tasks, out \in SUBSET Reported :
             /\ t.ns = cmd.ns /\ t.host \in Host
             /\ out # {} => <<t.host, out>> \in was.outs
             /\ \A row \in rows' :
                  \/ /\ row.of \in Container
                     /\ row.status = Management(row.of, cmd.ns)
                  \/ /\ row.of \in AppsOf(out, cmd.ns) \intersect listed
                     /\ row.status \in AppState(About(OfKind(out, "App"), cmd.ns, row.of.name))
<1>1. PICK t \in tasks :
        LET out == IF t.host \in up THEN Output(t.host) ELSE {}
        IN  rows' = {[of |-> r[1], status |-> Management(r[1], t.ns)] : r \in out}
                \union UNION {{[of |-> o, status |-> s] : s \in AppState(About(
                                  {r \in out : r[1].kind = "App"}, t.ns, o.name))} :
                              o \in AppsOf(out, t.ns) \intersect listed}
  BY DEF Collect
<1> DEFINE out == IF t.host \in up THEN Output(t.host) ELSE {}
           cs == {[of |-> r[1], status |-> Management(r[1], t.ns)] : r \in out}
           as == UNION {{[of |-> o, status |-> s] : s \in AppState(About(OfKind(out, "App"), t.ns, o.name))} :
                              o \in AppsOf(out, t.ns) \intersect listed}
<1>2. pc = "ps" /\ Busy /\ t.ns = cmd.ns /\ t.host \in Host
  BY DEF Collect, Busy, Inv, TypeInv, TypeOK, Placed
<1>3. out \in SUBSET Reported
  BY OutputType DEF Inv, TypeInv, TypeOK
<1>4. out # {} => <<t.host, out>> \in was.outs
  BY <1>2, PresentSeen DEF Inv
<1>5. rows' = cs \union as
  BY <1>1 DEF OfKind
<1>6. ASSUME NEW row \in cs
      PROVE  row.of \in Container /\ row.status = Management(row.of, cmd.ns)
  <2>1. PICK r \in out : row = [of |-> r[1], status |-> Management(r[1], t.ns)]
    OBVIOUS
  <2>2. row.of = r[1] /\ row.status = Management(r[1], t.ns)
    BY <2>1
  <2>3. r[1] \in Container
    BY <1>3 DEF Reported
  <2> QED
    BY <1>2, <2>2, <2>3
<1>7. ASSUME NEW row \in as
      PROVE  /\ row.of \in AppsOf(out, cmd.ns) \intersect listed
             /\ row.status \in AppState(About(OfKind(out, "App"), cmd.ns, row.of.name))
  <2>1. PICK o \in AppsOf(out, t.ns) \intersect listed :
           \E s \in AppState(About(OfKind(out, "App"), t.ns, o.name)) : row = [of |-> o, status |-> s]
    OBVIOUS
  <2>2. PICK s \in AppState(About(OfKind(out, "App"), t.ns, o.name)) : row = [of |-> o, status |-> s]
    BY <2>1
  <2>3. row.of = o /\ row.status = s
    BY <2>2
  <2> QED
    BY <1>2, <2>1, <2>2, <2>3
<1> HIDE DEF out, cs, as
<1>8. \A row \in rows' :
        \/ row.of \in Container /\ row.status = Management(row.of, cmd.ns)
        \/ /\ row.of \in AppsOf(out, cmd.ns) \intersect listed
           /\ row.status \in AppState(About(OfKind(out, "App"), cmd.ns, row.of.name))
  BY <1>5, <1>6, <1>7
<1> QED
  BY <1>2, <1>3, <1>4, <1>8

LEMMA ManagementMeans ==
    ASSUME Inv, Collect, NEW c \in Container
    PROVE  LET o == Obj(c.kind, c.ns, c.owner)
               s == Management(c, cmd.ns)
           IN  /\ s = "managed" => o \in was.there /\ o.ns = cmd.ns
               /\ s = "orphan" => o \in was.gone \union was.unread /\ o.ns = cmd.ns
               /\ s = "unmanaged" => o.ns # cmd.ns \/ o.kind = "Job"
<1> DEFINE o == Obj(c.kind, c.ns, c.owner)
<1>1. c.kind \in Kind /\ c.ns \in Namespace /\ c.owner \in Name
  BY HostStatusAssumption
<1>2. o \in Object /\ o.kind = c.kind /\ o.ns = c.ns
  BY <1>1, ObjType DEF Obj
<1>3. HasLabel(c, "owner") <=> c.kind # "Job"
  BY <1>1 DEF HasLabel, LabelsOf, Kind
<1>4. pc = "ps"
  BY DEF Collect
<1>5. CASE c.ns # cmd.ns \/ c.kind = "Job"
  <2>1. Management(c, cmd.ns) = "unmanaged"
    BY <1>3, <1>5 DEF Management
  <2> QED
    BY <1>2, <1>5, <2>1
<1>6. CASE c.ns = cmd.ns /\ c.kind # "Job"
  <2>1. Management(c, cmd.ns) = (IF o \in listed THEN "managed" ELSE "orphan")
    BY <1>3, <1>6 DEF Management
  <2>2. o \in listed => o \in was.there
    BY DEF Inv, ListedSound
  <2>3. o \notin listed => o \in was.gone \union was.unread
    BY <1>1, <1>2, <1>4, <1>6 DEF Inv, ListedSound, Missed, Kind
  <2> QED
    BY <1>2, <1>6, <2>1, <2>2, <2>3
<1> QED
  BY <1>5, <1>6

LEMMA NextOrphans == Inv /\ OrphansWereOrphans /\ [Next]_vars => OrphansWereOrphans'
<1> SUFFICES ASSUME Inv, OrphansWereOrphans, [Next]_vars, Shown', cmd'.kind = "Namespace"
             PROVE  OrphansWereOrphans'
  BY DEF OrphansWereOrphans
<1>1. CASE UNCHANGED vars
  BY <1>1 DEF vars, progress, OrphansWereOrphans, Shown
<1>2. CASE UNCHANGED <<cmd, was, asked>> /\ (Tabulated \/ Answered)
  BY <1>2, TableRows DEF Answered, ForTable
<1>3. CASE UNCHANGED <<cmd, was, asked>> /\ Connect
  <2>1. rows' = {}
    BY <1>3 DEF Connect, progress, Inv, TypeInv, Placed
  <2> QED
    BY <2>1 DEF OrphansWereOrphans
<1>4. CASE UNCHANGED <<cmd, was, asked>> /\ Collect
  <2> SUFFICES ASSUME NEW row \in rows', row.of \in Container
               PROVE  LET o == Obj(row.of.kind, row.of.ns, row.of.owner) IN
                      /\ row.status = "managed" => o \in was.there /\ o.ns = cmd.ns
                      /\ row.status = "orphan" => o \in was.gone \union was.unread /\ o.ns = cmd.ns
                      /\ row.status = "unmanaged" => o.ns # cmd.ns \/ o.kind = "Job"
    BY <1>4 DEF OrphansWereOrphans
  <2>1. row.status = Management(row.of, cmd.ns)
    <3>1. \A o \in listed : o \in Object
      BY DEF Inv, TypeInv, TypeOK
    <3> QED
      BY <1>4, <3>1, CollectedRows, ObjectsAreNotContainers
  <2> QED
    BY <1>4, <2>1, ManagementMeans
<1> QED
  BY <1>1, <1>2, <1>3, <1>4, Endings DEF Inv

(* Both directories are read before docker is asked, and anything may change *)
(* in between: still a container is called managed only if its App or        *)
(* DaemonSet was there, and an orphan only if it was missing, at some        *)
(* instant since the command began, or if reading the data directory failed  *)
(* to show it, and then for no other reason (classifyContainers).            *)
THEOREM OrphansTrue == Spec => []OrphansWereOrphans
<1>1. Init => OrphansWereOrphans
  BY DEF Init, OrphansWereOrphans, Shown
<1> QED
  BY <1>1, Invariance, NextOrphans, PTL DEF Spec

-----------------------------------------------------------------------------
(* What is shown of Jobs and of Apps was so. *)

TrueStatus(row) ==
    LET mine(out) == About(OfKind(out, row.of.kind), row.of.ns, row.of.name)
        Running(out) == {r \in out : r[2] = "running"}
    IN  CASE row.of.kind = "Job" ->
               \E seen \in was.outs :
                   /\ row.status \in RunStatus(mine(seen[2]))
                   /\ row.status = "Never" => seen[1] \in Homes(row.of.ns)
          [] row.of.kind = "App" /\ cmd.kind = "Namespace" ->
               \E seen \in was.outs : LET out == mine(seen[2]) IN
                   CASE row.status = "Running" -> out # {} /\ Running(out) = out
                     [] row.status = "Degraded" -> Running(out) \notin {{}, out}
                     [] OTHER -> out # {} /\ Running(out) = {}
          [] OTHER -> TRUE

RunningOf(out) == {r \in out : r[2] = "running"}
LEMMA AppStateMeans ==
    ASSUME NEW out, out # {}, NEW s \in AppState(out)
    PROVE  CASE s = "Running" -> out # {} /\ RunningOf(out) = out
             [] s = "Degraded" -> RunningOf(out) \notin {{}, out}
             [] OTHER -> out # {} /\ RunningOf(out) = {}
<1>1. CASE \A r \in out : r[2] = "running"
  <2>1. s = "Running" /\ RunningOf(out) = out
    BY <1>1 DEF AppState, RunningOf
  <2> QED
    BY <2>1
<1>2. CASE ~(\A r \in out : r[2] = "running") /\ \E r \in out : r[2] = "running"
  <2>1. s = "Degraded" /\ RunningOf(out) # out /\ RunningOf(out) # {}
    BY <1>2 DEF AppState, RunningOf
  <2> QED
    BY <2>1
<1>3. CASE ~\E r \in out : r[2] = "running"
  <2> DEFINE Last(r) == CASE r[2] = "paused" -> "Paused" [] r[2] \in Exited -> "Stopped"
                          [] OTHER -> "Unknown"
  <2>1. AppState(out) = {Last(r) : r \in {q \in out : \A u \in out : q[1].age <= u[1].age}}
    BY <1>3 DEF AppState
  <2>2. \A r : Last(r) \in {"Paused", "Stopped", "Unknown"}
    BY DEF Exited
  <2> HIDE DEF Last
  <2>3. s \in {"Paused", "Stopped", "Unknown"}
    BY <2>1, <2>2
  <2>4. RunningOf(out) = {}
    BY <1>3 DEF RunningOf
  <2> QED
    BY <2>3, <2>4
<1> QED
  BY <1>1, <1>2, <1>3

LEMMA NextStatus == Inv /\ StatusWasTrue /\ [Next]_vars => StatusWasTrue'
<1> SUFFICES ASSUME Inv, StatusWasTrue, [Next]_vars, Shown',
                    NEW row \in rows', row.of \in Object, row.status # "Unknown"
             PROVE  TrueStatus(row)'
  BY DEF StatusWasTrue, TrueStatus
<1>1. CASE UNCHANGED vars
  <2>1. TrueStatus(row)
    BY <1>1 DEF StatusWasTrue, TrueStatus, Shown, vars, progress
  <2> QED
    BY <1>1, <2>1 DEF TrueStatus, Homes, vars, progress
<1>2. ASSUME UNCHANGED <<cmd, was, asked>>, TrueStatus(row)
      PROVE  TrueStatus(row)'
  BY <1>2 DEF TrueStatus, Homes
<1>3. CASE UNCHANGED <<cmd, was, asked>> /\ Tabulated
  <2>1. row.of.kind = cmd.kind /\ row.of.ns \in asked /\ row.status \in StatusOf(row.of) /\ ForTable
    BY <1>3, TableRows
  <2>2. ASSUME cmd.kind = "App" PROVE TrueStatus(row)
    BY <2>1, <2>2 DEF TrueStatus
  <2>3. ASSUME cmd.kind = "Job" PROVE TrueStatus(row)
    <3>1. row.of.ns \in answered /\ row.status \in RunStatus(About(results, row.of.ns, row.of.name))
      BY <2>1, <2>3 DEF StatusOf
    <3>2. row.of.name \in Name
      BY DEF Object
    <3>3. \E seen \in was.outs : /\ row.status \in RunStatus(Jobs(seen[2], row.of.ns, row.of.name))
                                 /\ row.status = "Never" => seen[1] \in Homes(row.of.ns)
      BY <2>1, <2>3, <3>1, <3>2, RunShown DEF ForTable
    <3> QED
      BY <2>1, <2>3, <3>3 DEF TrueStatus, Jobs
  <2> QED
    BY <1>2, <1>3, <2>1, <2>2, <2>3 DEF ForTable
<1>4. CASE UNCHANGED <<cmd, was, asked>> /\ Answered
  <2>1. row.of.kind = "DaemonSet"
    BY <1>4 DEF Answered, progress, Inv, ResultsSound
  <2> QED
    BY <1>2, <1>4, <2>1 DEF TrueStatus
<1>5. CASE UNCHANGED <<cmd, was, asked>> /\ Connect
  BY <1>5 DEF Connect, progress, Inv, TypeInv, Placed
<1>6. CASE UNCHANGED <<cmd, was, asked>> /\ Collect
  <2>1. PICK t \in tasks, out \in SUBSET Reported :
             /\ t.ns = cmd.ns /\ t.host \in Host
             /\ out # {} => <<t.host, out>> \in was.outs
             /\ \A x \in rows' :
                  \/ /\ x.of \in Container
                     /\ x.status = Management(x.of, cmd.ns)
                  \/ /\ x.of \in AppsOf(out, cmd.ns) \intersect listed
                     /\ x.status \in AppState(About(OfKind(out, "App"), cmd.ns, x.of.name))
    BY <1>6, CollectedRows
  <2>2. /\ row.of \in AppsOf(out, cmd.ns)
        /\ row.status \in AppState(About(OfKind(out, "App"), cmd.ns, row.of.name))
    BY <2>1, ObjectsAreNotContainers
  <2> DEFINE mine == About(OfKind(out, "App"), cmd.ns, row.of.name)
  <2>3. PICK r \in out : r[1].kind = "App" /\ r[1].ns = cmd.ns /\ row.of = Obj("App", cmd.ns, r[1].owner)
    BY <2>2 DEF AppsOf
  <2>4. row.of.kind = "App" /\ row.of.ns = cmd.ns /\ row.of.name = r[1].owner
    BY <2>3 DEF Obj
  <2>5. r \in mine /\ <<t.host, out>> \in was.outs
    BY <2>1, <2>3, <2>4 DEF About, OfKind
  <2> HIDE DEF mine
  <2>6. (CASE row.status = "Running" -> mine # {} /\ RunningOf(mine) = mine
           [] row.status = "Degraded" -> RunningOf(mine) \notin {{}, mine}
           [] OTHER -> mine # {} /\ RunningOf(mine) = {})
    BY <2>2, <2>5, AppStateMeans DEF mine
  <2>7. cmd.kind = "Namespace"
    BY <1>6 DEF Collect, Inv, TypeInv, Placed
  <2> QED
    BY <1>2, <1>6, <2>4, <2>5, <2>6, <2>7 DEF TrueStatus, mine, RunningOf
<1> QED
  BY <1>1, <1>3, <1>4, <1>5, <1>6, Endings DEF Inv

(* Whatever happens while it runs: what get shows of a Job was so of its     *)
(* latest run in the answer of one host, and what describe of a namespace    *)
(* shows of an App was so of all its containers at one instant (parseJobPs,  *)
(* namespaceAppState).                                                       *)
THEOREM StatusTrue == Spec => []StatusWasTrue
<1>1. Init => StatusWasTrue
  BY DEF Init, StatusWasTrue, Shown
<1> QED
  BY <1>1, Invariance, NextStatus, PTL DEF Spec
=============================================================================
