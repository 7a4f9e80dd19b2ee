------------------------ MODULE AppLifecycle_proofs ------------------------
(***************************************************************************)
(* Proofs about AppLifecycle for every set of processes, hosts, services,  *)
(* secrets and requests.                                                   *)
(***************************************************************************)
EXTENDS AppLifecycle, TLAPS

-----------------------------------------------------------------------------
(* Type correctness, one group of variables at a time: the data directory, *)
(* the hosts, the processes.                                               *)

(* The state before any command. *)
LEMMA InitTypeOK == Init => TypeOK
BY ConstantsAssumption DEF Init, TypeOK, StoreOK, HostOK, ProcOK, MemOK, Memory,
   Blank, Labels, Steps, KnowsManifest, KnowsHost, Manifest

(* No step writes anything but a manifest, a secret or a generated file of *)
(* the right kind into the data directory.                                 *)
LEMMA StoreStep == TypeOK /\ Next => StoreOK'
<1> SUFFICES ASSUME TypeOK, Next PROVE StoreOK'
  OBVIOUS
<1> USE ConstantsAssumption DEF TypeOK, StoreOK, local, cluster
<1>1. ASSUME NEW p \in Proc,
             \/ Begin(p) \/ Leave(p) \/ Fail(p)
             \/ ApplyExists(p) \/ ImportExists(p) \/ GetOne(p) \/ LoadNs(p) \/ GenEnv(p)
             \/ SyncDir(p) \/ Upload(p) \/ Up(p)
             \/ Pause(p) \/ Stop(p) \/ DeleteExists(p) \/ Confirm(p)
      PROVE  StoreOK'
  <2>1. UNCHANGED <<local, cluster>>
    BY <1>1 DEF Begin, Leave, Fail, ApplyExists, ImportExists, GetOne, LoadNs, GenEnv,
       SyncDir, Upload, MakeMounts, ReadEntry, CreateEntry, WriteEntry, Up, Pause, PauseNs, TestDir, TestFile, Down,
       Stop, StopNs, RmRemote, DeleteExists, Confirm
  <2> QED BY <2>1
<1>2. ASSUME NEW p \in Proc, ApplyWrite(p) \/ ImportWrite(p) PROVE StoreOK'
  <2>1. req[p] \in AllRequests
    BY <1>2 DEF ApplyWrite, ImportWrite, ProcOK, MemOK, At
  <2> QED BY <1>2, <2>1 DEF ApplyWrite, ImportWrite, AllRequests, Manifest
<1>3. ASSUME NEW p \in Proc, GenMount(p) PROVE StoreOK'
  BY <1>3 DEF GenMount
<1>4. ASSUME NEW p \in Proc, GenCompose(p) PROVE StoreOK'
  BY <1>4 DEF GenCompose, ProcOK, MemOK, Memory, KnowsManifest, At, Compose, Manifest
<1>5. ASSUME NEW gone, Drop(gone)
      PROVE  /\ manifest' \in Manifest \union {None}
             /\ compose' \in Compose \union {None}
             /\ mount' \in Secret \union {None}
  BY <1>5 DEF Drop
<1>6. ASSUME NEW p \in Proc, RmLocal(p) PROVE StoreOK'
  BY <1>5, <1>6 DEF RmLocal
<1>7. WriteSecret \/ ApplyNamespace => StoreOK'
  BY DEF WriteSecret, ApplyNamespace
<1>8. DeleteNamespace => StoreOK'
  BY <1>5 DEF DeleteNamespace
<1> QED
  BY <1>1, <1>2, <1>3, <1>4, <1>6, <1>7, <1>8 DEF Next, Work, Start, Delete, Write

(* Nor does any step put anything else on a host. *)
LEMMA HostStep == TypeOK /\ Next => HostOK'
<1> SUFFICES ASSUME TypeOK, Next PROVE HostOK'
  OBVIOUS
<1> USE ConstantsAssumption DEF TypeOK, HostOK, remote, history
<1>1. ASSUME NEW p \in Proc,
             \/ Begin(p) \/ Leave(p) \/ Fail(p) \/ Write(p) \/ Delete(p)
             \/ GetOne(p) \/ LoadNs(p) \/ GenEnv(p) \/ GenMount(p) \/ GenCompose(p)
             \/ ReadEntry(p) \/ PauseNs(p) \/ StopNs(p)
      PROVE  HostOK'
  <2>1. UNCHANGED <<remote, running, history>>
    BY <1>1 DEF Begin, Leave, Fail, Write, ApplyExists, ApplyWrite, ImportExists,
       ImportWrite, Delete, DeleteExists, Confirm, RmLocal, GetOne, LoadNs, GenEnv,
       GenMount, GenCompose, ReadEntry, PauseNs, StopNs
  <2> QED BY <2>1
<1>2. ASSUME NEW p \in Proc, SyncDir(p) \/ MakeMounts(p) PROVE HostOK'
  BY <1>2 DEF SyncDir, MakeMounts
<1>3. ASSUME NEW h \in Host, NEW e \in Entries, NEW x, Put(h, e, x),
             x \in Content(e) \union {None, Empty, Torn}
      PROVE  /\ rcompose' \in [Host -> Compose \union {None, Empty, Torn}]
             /\ rmount' \in [Host -> Secret \union {None, Empty, Torn}]
  BY <1>3 DEF Put, Content, Entries
<1>5. ASSUME NEW h \in Host, NEW row \in [Service -> Secret \union {None}],
             running' = [running EXCEPT ![h] = row]
      PROVE  running' \in [Host -> [Service -> Secret \union {None}]]
  BY <1>5
<1>6. ASSUME NEW p \in Proc, pc[p] \in KnowsHost PROVE mem[p].host \in Host
  BY <1>6 DEF ProcOK, MemOK, Memory
<1>7. ASSUME NEW c \in Compose
      PROVE  Deployment(c) \in [Service -> Secret \union {None}]
  BY DEF Deployment, Compose
<1>8. ASSUME NEW p \in Proc, Up(p) PROVE HostOK'
  <2> DEFINE h == mem[p].host
  <2>1. h \in Host
    BY <1>6, <1>8 DEF Up, At, KnowsHost, KnowsManifest
  <2>2. CASE UNCHANGED running
    BY <1>8, <2>2 DEF Up
  <2>3. CASE Reachable(h) /\ running' = [running EXCEPT ![h] = Deployment(rcompose[h])]
    <3>1. running' \in [Host -> [Service -> Secret \union {None}]]
      BY <1>5, <1>7, <2>1, <2>3 DEF Reachable
    <3> QED BY <1>8, <3>1 DEF Up
  <2>4. CASE /\ Reachable(h)
             /\ \E done \in SUBSET Service :
                  running' = [running EXCEPT ![h] = [s \in Service |->
                    IF s \in done THEN Deployment(rcompose[h])[s] ELSE running[h][s]]]
    <3>1. PICK done \in SUBSET Service :
             running' = [running EXCEPT ![h] = [s \in Service |->
                    IF s \in done THEN Deployment(rcompose[h])[s] ELSE running[h][s]]]
      BY <2>4
    <3> HIDE DEF h
    <3>2. Deployment(rcompose[h]) \in [Service -> Secret \union {None}]
      BY <1>7, <2>4 DEF Reachable
    <3>3. [s \in Service |-> IF s \in done THEN Deployment(rcompose[h])[s] ELSE running[h][s]]
            \in [Service -> Secret \union {None}]
      BY <2>1, <3>2
    <3>4. running' \in [Host -> [Service -> Secret \union {None}]]
      BY <1>5, <2>1, <3>1, <3>3
    <3> QED BY <1>8, <3>4 DEF Up
  <2> QED BY <1>8, <2>2, <2>3, <2>4 DEF Up
<1>9. ASSUME NEW p \in Proc, Down(p) PROVE HostOK'
  <2> DEFINE h == mem[p].host
  <2>1. h \in Host
    BY <1>6, <1>9 DEF Down, At, KnowsHost, KnowsManifest
  <2>2. CASE UNCHANGED running
    BY <1>9, <2>2 DEF Down
  <2>3. ASSUME NEW S,
               running' = [running EXCEPT ![h] = [s \in Service |->
                             IF s \in S THEN None ELSE running[h][s]]]
        PROVE  HostOK'
    <3> HIDE DEF h
    <3>1. [s \in Service |-> IF s \in S THEN None ELSE running[h][s]]
            \in [Service -> Secret \union {None}]
      BY <2>1
    <3>2. running' \in [Host -> [Service -> Secret \union {None}]]
      BY <1>5, <2>1, <2>3, <3>1
    <3> QED BY <1>9, <3>2 DEF Down
  <2> QED BY <1>9, <2>2, <2>3 DEF Down
<1>10. ASSUME NEW p \in Proc, TestDir(p) \/ TestFile(p) PROVE HostOK'
  <2>1. mem[p].host \in Host
    BY <1>6, <1>10 DEF TestDir, TestFile, At, KnowsHost
  <2> QED BY <1>10, <2>1 DEF TestDir, TestFile, Probe
<1>11. ASSUME NEW p \in Proc, RmRemote(p) PROVE HostOK'
  BY <1>11 DEF RmRemote, Unlink
<1>13. ASSUME NEW p \in Proc, CreateEntry(p) PROVE HostOK'
  <2>1. mem[p].host \in Host /\ Entry(mem[p].list) \in Entries
    BY <1>6, <1>13 DEF CreateEntry, At, KnowsHost, KnowsManifest, Entry, Entries
  <2>2. Put(mem[p].host, Entry(mem[p].list), Empty) => HostOK'
    BY <1>3, <1>13, <2>1 DEF CreateEntry
  <2> QED BY <1>13, <2>2 DEF CreateEntry
<1>14. ASSUME NEW p \in Proc, WriteEntry(p) PROVE HostOK'
  <2> DEFINE h == mem[p].host  e == Entry(mem[p].list)  x == mem[p].file
  <2>1. h \in Host /\ e \in Entries /\ x \in Content(e) \union {None}
    BY <1>6, <1>14 DEF WriteEntry, At, KnowsHost, KnowsManifest, Entry, Entries, ProcOK, MemOK
  <2>2. (IF e = "compose" THEN rcompose[h] ELSE rmount[h]) \in Content(e) \union {None, Empty, Torn}
    BY <2>1 DEF Content
  <2>3. UNCHANGED <<rdir, running, abandoned>>
    BY <1>14 DEF WriteEntry
  <2>4. ASSUME NEW y \in Content(e) \union {None, Empty, Torn}, Put(h, e, y),
               stray' = stray \/ (y \in Compose /\ stray' = stray \union Dropped(h, y))
        PROVE  HostOK'
    <3>1. stray' \subseteq Host \X Service
      BY <2>1, <2>4 DEF Dropped
    <3> HIDE DEF h, e
    <3> QED BY <1>3, <2>1, <2>3, <2>4, <3>1
  <2>5. \/ Put(h, e, Torn) /\ UNCHANGED stray
        \/ \E y \in (IF x = None THEN {IF e = "compose" THEN rcompose[h] ELSE rmount[h]}
                     ELSE Written(IF e = "compose" THEN rcompose[h] ELSE rmount[h], x)) :
              /\ Put(h, e, y)
              /\ stray' = IF e = "compose" /\ y \in Compose THEN stray \union Dropped(h, y)
                                                           ELSE stray
    BY <1>14 DEF WriteEntry
  <2> HIDE DEF h, e, x
  <2> QED BY <2>1, <2>2, <2>4, <2>5 DEF Written
<1>12. WriteSecret \/ ApplyNamespace \/ DeleteNamespace => HostOK'
  BY DEF WriteSecret, ApplyNamespace, DeleteNamespace, Other, Deployed
<1> QED
  BY <1>1, <1>2, <1>8, <1>9, <1>10, <1>11, <1>12, <1>13, <1>14
  DEF Next, Work, Start, Upload, Pause, Stop

(* p then knows what known says. *)
Learns(p, known) == mem' = [mem EXCEPT ![p] = known]

(* A step of a process keeps ProcOK if what it has read by then is enough  *)
(* for the step it goes to.                                                *)
LEMMA GotoStep ==
  ASSUME TypeOK, NEW p \in Proc, pc[p] # "idle", NEW l \in Labels, Goto(p, l),
         UNCHANGED req, NEW known \in Memory, Learns(p, known),
         l \in KnowsManifest => known.m # None,
         l \in KnowsHost => known.host # None,
         l \in {"genMount", "genCompose"} => known.m.svcs # {} /\ known.env # None,
         l \in {"create", "write"} => known.file \in Content(Entry(known.list)) \union {None}
  PROVE  ProcOK'
BY DEF TypeOK, ProcOK, MemOK, Goto, Learns

(* In particular if it reads nothing and the next step needs nothing new. *)
LEMMA NoReadStep ==
  ASSUME TypeOK, NEW p \in Proc, pc[p] # "idle", NEW l \in Labels, Goto(p, l),
         UNCHANGED <<req, mem>>,
         l \in KnowsManifest => pc[p] \in KnowsManifest,
         l \in KnowsHost => pc[p] \in KnowsHost,
         l \in {"genMount", "genCompose"} => pc[p] = "genMount",
         l \in {"create", "write"} => pc[p] = "create"
  PROVE  ProcOK'
BY DEF TypeOK, ProcOK, MemOK, Goto

(* Every process has a command line, and has read what its step needs. *)
LEMMA ProcStep == TypeOK /\ Next => ProcOK'
<1> SUFFICES ASSUME TypeOK, Next PROVE ProcOK'
  OBVIOUS
<1> USE DEF At, Labels, Steps, StartSteps, PauseSteps, StopSteps, DeleteSteps,
            WriteSteps, KnowsManifest, KnowsHost
<1>1. ASSUME NEW p \in Proc,
             \/ Fail(p) \/ Write(p) \/ Delete(p) \/ GenMount(p) \/ GenCompose(p)
             \/ MakeMounts(p) \/ CreateEntry(p) \/ Up(p)
             \/ TestDir(p) \/ TestFile(p) \/ Down(p)
      PROVE  ProcOK'
  <2>1. Fail(p) => ProcOK'
    BY NoReadStep DEF Fail
  <2>2. Write(p) => ProcOK'
    BY NoReadStep DEF Write, ApplyExists, ApplyWrite, ImportExists, ImportWrite
  <2>3. Delete(p) => ProcOK'
    BY NoReadStep DEF Delete, DeleteExists, Confirm, RmLocal
  <2>4. GenMount(p) \/ GenCompose(p) => ProcOK'
    BY NoReadStep DEF GenMount, GenCompose
  <2>5. MakeMounts(p) \/ CreateEntry(p) \/ Up(p) => ProcOK'
    BY NoReadStep DEF MakeMounts, CreateEntry, Up
  <2>6. TestDir(p) \/ TestFile(p) => ProcOK'
    BY NoReadStep DEF TestDir, TestFile, Probe, AfterPause
  <2>7. Down(p) => ProcOK'
    BY NoReadStep DEF Down, AfterPause
  <2> QED BY <1>1, <2>1, <2>2, <2>3, <2>4, <2>5, <2>6, <2>7
<1>2. ASSUME NEW p \in Proc, Begin(p) PROVE ProcOK'
  <2>1. PICK r \in Requests : req' = [req EXCEPT ![p] = r] /\ Goto(p, FirstStep(r))
    BY <1>2 DEF Begin
  <2>2. FirstStep(r) \in {"applyExists", "impExists", "getOne", "pauseNs", "delExists"}
    BY <2>1, ConstantsAssumption DEF FirstStep, AllRequests, Verb
  <2>3. r # None
    BY <2>1, ConstantsAssumption
  <2> QED BY <1>2, <2>1, <2>2, <2>3 DEF Begin, Goto, TypeOK, ProcOK, MemOK
<1>3. ASSUME NEW p \in Proc, Leave(p) PROVE ProcOK'
  <2>1. Blank \in Memory
    BY DEF Blank, Memory
  <2> QED BY <1>3, <2>1 DEF Leave, Goto, TypeOK, ProcOK, MemOK
<1>4. ASSUME NEW p \in Proc, GetOne(p) PROVE ProcOK'
  <2> DEFINE known == [mem[p] EXCEPT !.m = manifest]
  <2>1. known \in Memory /\ known.m = manifest
    BY DEF Memory, TypeOK, ProcOK, StoreOK
  <2>2. Learns(p, known) /\ pc[p] # "idle" /\ UNCHANGED req
    BY <1>4 DEF GetOne, Learns
  <2>3. \/ Goto(p, "failed")
        \/ manifest # None /\ Goto(p, "loadNs")
    BY <1>4 DEF GetOne
  <2> HIDE DEF known
  <2> QED BY <2>1, <2>2, <2>3, GotoStep
<1>5. ASSUME NEW p \in Proc, LoadNs(p) \/ PauseNs(p) \/ StopNs(p) PROVE ProcOK'
  <2> DEFINE known == [mem[p] EXCEPT !.host = ns]
  <2>1. known \in Memory /\ known.host = ns /\ known.m = mem[p].m
    BY DEF Memory, TypeOK, ProcOK, StoreOK
  <2>2. Learns(p, known) /\ pc[p] # "idle" /\ UNCHANGED req
    BY <1>5 DEF LoadNs, PauseNs, StopNs, Learns
  <2>3. \/ Goto(p, "failed") \/ Goto(p, "ok")
        \/ mem[p].m # None /\ ns # None /\ Goto(p, "genEnv")
        \/ ns # None /\ (Goto(p, "testDir") \/ Goto(p, "rmRemote"))
    BY <1>5 DEF LoadNs, PauseNs, StopNs, TypeOK, ProcOK, MemOK
  <2> HIDE DEF known
  <2> QED BY <2>1, <2>2, <2>3, GotoStep
<1>6. ASSUME NEW p \in Proc, GenEnv(p) PROVE ProcOK'
  <2> DEFINE known == [mem[p] EXCEPT !.env = secret]
  <2>1. /\ known \in Memory /\ known.env = secret
        /\ known.m = mem[p].m /\ known.host = mem[p].host
    BY DEF Memory, TypeOK, ProcOK, StoreOK
  <2>2. Learns(p, known) /\ pc[p] # "idle" /\ UNCHANGED req
    BY <1>6 DEF GenEnv, Learns
  <2>3. \/ Goto(p, "failed")
        \/ /\ mem[p].m # None /\ mem[p].host # None
           /\ mem[p].m.svcs # {} /\ secret # None
           /\ Goto(p, "genMount")
    BY <1>6 DEF GenEnv, TypeOK, ProcOK, MemOK
  <2> HIDE DEF known
  <2> QED BY <2>1, <2>2, <2>3, GotoStep
<1>7. ASSUME NEW p \in Proc, SyncDir(p) PROVE ProcOK'
  <2> DEFINE known == [mem[p] EXCEPT !.list = Present]
  <2>1. known \in Memory /\ known.m = mem[p].m /\ known.host = mem[p].host
    BY DEF Memory, Present, TypeOK, ProcOK
  <2>2. pc[p] = "syncDir" /\ UNCHANGED req /\ mem[p].m # None /\ mem[p].host # None
    BY <1>7 DEF SyncDir, TypeOK, ProcOK, MemOK
  <2>3. CASE Learns(p, known) /\ Goto(p, AfterEntry(Present))
    <3>1. AfterEntry(Present) \in {"up", "read", "mkdir"}
      BY DEF AfterEntry
    <3> HIDE DEF known
    <3> QED BY <2>1, <2>2, <2>3, <3>1, GotoStep
  <2>4. CASE UNCHANGED mem /\ Goto(p, "failed")
    BY <2>2, <2>4, NoReadStep
  <2> QED BY <1>7, <2>3, <2>4 DEF SyncDir, Learns
<1>8. ASSUME NEW p \in Proc, ReadEntry(p) PROVE ProcOK'
  <2>1. pc[p] = "read" /\ UNCHANGED req /\ mem[p].m # None /\ mem[p].host # None /\ mem[p] \in Memory
    BY <1>8 DEF ReadEntry, TypeOK, ProcOK, MemOK
  <2>2. CASE UNCHANGED mem /\ Goto(p, "failed")
    BY <2>1, <2>2, NoReadStep
  <2>3. CASE Learns(p, [mem[p] EXCEPT !.list = {}]) /\ Goto(p, "up")
    <3> DEFINE known == [mem[p] EXCEPT !.list = {}]
    <3>1. known \in Memory /\ known.m = mem[p].m /\ known.host = mem[p].host
      BY <2>1 DEF Memory
    <3>2. Learns(p, known)
      BY <2>3
    <3> HIDE DEF known
    <3> QED BY <2>1, <2>3, <3>1, <3>2, GotoStep
  <2>4. ASSUME NEW x \in Content(Entry(mem[p].list)),
               Learns(p, [mem[p] EXCEPT !.file = x]), Goto(p, "create")
        PROVE  ProcOK'
    <3> DEFINE known == [mem[p] EXCEPT !.file = x]
    <3>1. /\ known \in Memory /\ known.m = mem[p].m /\ known.host = mem[p].host
          /\ known.file \in Content(Entry(known.list))
      BY <2>1 DEF Memory, Content
    <3>2. Learns(p, known)
      BY <2>4
    <3> HIDE DEF known
    <3> QED BY <2>1, <2>4, <3>1, <3>2, GotoStep
  <2>5. LET x == IF Entry(mem[p].list) = "compose" THEN compose ELSE mount
        IN  x # None => x \in Content(Entry(mem[p].list))
    BY DEF Content, TypeOK, StoreOK
  <2> QED BY <1>8, <2>2, <2>3, <2>4, <2>5 DEF ReadEntry, Learns
<1>9. ASSUME NEW p \in Proc, WriteEntry(p) PROVE ProcOK'
  <2> DEFINE rest == mem[p].list \ {Entry(mem[p].list)}
             known == [mem[p] EXCEPT !.list = rest, !.file = None]
  <2>1. pc[p] = "write" /\ UNCHANGED req /\ mem[p].m # None /\ mem[p].host # None /\ mem[p] \in Memory
    BY <1>9 DEF WriteEntry, TypeOK, ProcOK, MemOK
  <2>2. known \in Memory /\ known.m = mem[p].m /\ known.host = mem[p].host
    BY <2>1 DEF Memory
  <2>3. CASE UNCHANGED mem /\ Goto(p, "failed")
    BY <2>1, <2>3, NoReadStep
  <2>4. CASE Goto(p, AfterEntry(rest)) /\ Learns(p, known)
    <3>1. AfterEntry(rest) \in {"up", "read", "mkdir"}
      BY DEF AfterEntry
    <3> HIDE DEF known, rest
    <3> QED BY <2>1, <2>2, <2>4, <3>1, GotoStep
  <2>5. \/ UNCHANGED mem /\ Goto(p, "failed")
        \/ Goto(p, AfterEntry(rest)) /\ Learns(p, known)
    BY <1>9, <2>1 DEF WriteEntry, Learns, Memory
  <2> QED BY <2>3, <2>4, <2>5
<1>10. ASSUME NEW p \in Proc, RmRemote(p) PROVE ProcOK'
  <2>1. PICK gone : Unlink(mem[p].host, gone)
    BY <1>10 DEF RmRemote
  <2>2. ASSUME NEW q \in Proc
        PROVE  /\ mem'[q] \in Memory
               /\ mem'[q].m = mem[q].m /\ mem'[q].host = mem[q].host
               /\ mem'[q].env = mem[q].env /\ mem'[q].list = mem[q].list
               /\ mem'[q].file \in {mem[q].file, None}
    BY <2>1 DEF Unlink, TypeOK, ProcOK, Memory
  <2>3. mem' \in [Proc -> Memory]
    BY <2>1, <2>2 DEF Unlink
  <2>4. /\ pc[p] = "rmRemote" /\ UNCHANGED req
        /\ \E l \in {"rmLocal", "ok", "failed"} : pc' = [pc EXCEPT ![p] = l]
    BY <1>10 DEF RmRemote, Goto
  <2>5. ASSUME NEW q \in Proc PROVE MemOK(q)'
    BY <2>2, <2>4 DEF TypeOK, ProcOK, MemOK
  <2> QED BY <2>3, <2>4, <2>5 DEF TypeOK, ProcOK
<1>11. WriteSecret \/ ApplyNamespace \/ DeleteNamespace => ProcOK'
  BY DEF WriteSecret, ApplyNamespace, DeleteNamespace, Other, proc, TypeOK, ProcOK, MemOK
<1> QED
  BY <1>1, <1>2, <1>3, <1>4, <1>5, <1>6, <1>7, <1>8, <1>9, <1>10, <1>11
  DEF Next, Work, Start, Upload, Pause, Stop

(* Whatever the commands, and however they interleave and fail, every file *)
(* is absent, torn or of its kind, and every process has a command line    *)
(* and has read what it acts on.                                           *)
THEOREM TypeCorrect == Spec => []TypeOK
<1>1. TypeOK /\ UNCHANGED vars => TypeOK'
  BY DEF TypeOK, StoreOK, HostOK, ProcOK, MemOK, vars
<1>2. TypeOK /\ [Next]_vars => TypeOK'
  BY <1>1, StoreStep, HostStep, ProcStep DEF TypeOK
<1> QED BY InitTypeOK, <1>2, PTL DEF Spec
-----------------------------------------------------------------------------
(* Commands that must not change anything, beside any others. *)

(* The steps that a dry run, and a refused delete, may be at. *)
DrySteps == {"idle", "ok", "failed", "applyExists", "impExists", "getOne", "loadNs", "genEnv",
             "genMount", "genCompose", "pauseNs", "delExists"}
RefusedSteps == {"idle", "ok", "failed", "delExists", "confirm"}

Tame(p) ==
    req[p] # None =>
        /\ req[p].dry => pc[p] \in DrySteps
        /\ req[p].verb = "delete" /\ req[p].consent \in {"answeredN", "noTTY"} =>
              pc[p] \in RefusedSteps

HarmlessInv == TypeOK /\ \A p \in Proc : Tame(p)

(* Every verb leads a dry run back before its first write, and the prompt  *)
(* leads a refused delete back.                                            *)
LEMMA HarmlessStep == HarmlessInv /\ [Next]_vars => HarmlessInv'
<1> SUFFICES ASSUME HarmlessInv, [Next]_vars PROVE HarmlessInv'
  OBVIOUS
<1>0. TypeOK'
  BY StoreStep, HostStep, ProcStep
  DEF HarmlessInv, TypeOK, StoreOK, HostOK, ProcOK, MemOK, vars
<1> USE ConstantsAssumption DEF HarmlessInv, TypeOK, ProcOK, Goto, At, DrySteps, RefusedSteps
<1>1. ASSUME NEW p \in Proc, NEW l \in Labels, Goto(p, l), UNCHANGED req, Tame(p)'
      PROVE  HarmlessInv'
  BY <1>0, <1>1 DEF Tame
<1> USE DEF Labels, Steps, StartSteps, PauseSteps, StopSteps, DeleteSteps, WriteSteps
<1>2. ASSUME NEW p \in Proc, Begin(p) PROVE HarmlessInv'
  <2>1. PICK r \in Requests : req' = [req EXCEPT ![p] = r] /\ Goto(p, FirstStep(r))
    BY <1>2 DEF Begin
  <2>2. r.verb \in Verb
    BY <2>1 DEF AllRequests
  <2>3. \/ r.verb # "delete" /\ FirstStep(r) \in {"applyExists", "impExists", "getOne", "pauseNs"}
        \/ r.verb = "delete" /\ FirstStep(r) = "delExists"
    BY <2>2 DEF FirstStep, Verb
  <2> QED BY <1>0, <2>1, <2>3 DEF Tame
<1>3. ASSUME NEW p \in Proc, Leave(p) PROVE HarmlessInv'
  BY <1>0, <1>3 DEF Leave, Tame
<1>4. ASSUME NEW p \in Proc, Start(p) \/ Fail(p) PROVE HarmlessInv'
  BY <1>1, <1>4 DEF Tame, Start, GetOne, LoadNs, GenEnv, GenMount, GenCompose, SyncDir,
     Upload, MakeMounts, ReadEntry, CreateEntry, WriteEntry, AfterEntry, Up, Fail
<1>5. ASSUME NEW p \in Proc, Pause(p) PROVE HarmlessInv'
  BY <1>1, <1>5 DEF Tame, Pause, PauseNs, TestDir, TestFile, Probe, Down, AfterPause
<1>6. ASSUME NEW p \in Proc, Stop(p) \/ Delete(p) PROVE HarmlessInv'
  BY <1>1, <1>6 DEF Tame, Stop, StopNs, RmRemote, Delete, DeleteExists, Confirm, RmLocal
<1>7. ASSUME NEW p \in Proc, Write(p) PROVE HarmlessInv'
  BY <1>1, <1>7 DEF Tame, Write, ApplyExists, ApplyWrite, ImportExists, ImportWrite
<1>8. CASE (WriteSecret \/ ApplyNamespace \/ DeleteNamespace) \/ UNCHANGED vars
  BY <1>0, <1>8 DEF WriteSecret, ApplyNamespace, DeleteNamespace, Other, proc, Tame, vars
<1> QED BY <1>2, <1>3, <1>4, <1>5, <1>6, <1>7, <1>8 DEF Next, Work

(* However commands interleave and fail, no step of a dry run or of a      *)
(* refused delete changes a manifest, the secret or anything on a host.    *)
THEOREM HarmlessCorrect == Spec => HarmlessCommands
<1> DEFINE Effect == \A p \in Proc :
        req[p] # None /\ Harmless(req[p]) /\ pc'[p] # pc[p] =>
            UNCHANGED <<manifest, cluster, remote, running>>
<1>1. Init => HarmlessInv
  BY InitTypeOK DEF Init, HarmlessInv, Tame
<1>2. HarmlessInv /\ [Next]_vars => HarmlessInv'
  BY HarmlessStep
<1>3. HarmlessInv /\ [Next]_vars => [Effect]_vars
  <2> SUFFICES ASSUME HarmlessInv, Next, NEW p \in Proc, req[p] # None, Harmless(req[p]),
                      pc'[p] # pc[p]
               PROVE  UNCHANGED <<manifest, cluster, remote, running>>
    OBVIOUS
  <2>1. Tame(p) /\ req[p] \in AllRequests /\ pc[p] \in DrySteps \union RefusedSteps
    BY ConstantsAssumption DEF HarmlessInv, TypeOK, ProcOK, Tame, Harmless
  <2>2. ASSUME NEW q \in Proc, q # p, Begin(q) \/ Work(q) \/ Fail(q) \/ Leave(q)
        PROVE  FALSE
    <3>1. \E l : Goto(q, l)
      BY <2>2 DEF Begin, Fail, Leave, Work, Start, GetOne, LoadNs, GenEnv, GenMount, GenCompose,
         SyncDir, Upload, MakeMounts, ReadEntry, CreateEntry, WriteEntry, Up, Pause, PauseNs, TestDir, TestFile, Probe, Down,
         Stop, StopNs, RmRemote, Delete, DeleteExists, Confirm, RmLocal, Write, ApplyExists,
         ApplyWrite, ImportExists, ImportWrite
    <3> QED BY <2>2, <3>1 DEF Goto, HarmlessInv, TypeOK, ProcOK
  <2>3. CASE Begin(p) \/ Work(p) \/ Fail(p) \/ Leave(p)
    <3>1. CASE Begin(p) \/ Fail(p) \/ Leave(p)
      BY <3>1 DEF Begin, Fail, Leave, local
    <3>2. CASE Start(p)
      BY <2>1, <3>2 DEF Start, GetOne, LoadNs, GenEnv, GenMount, GenCompose, SyncDir,
         Upload, MakeMounts, ReadEntry, CreateEntry, WriteEntry, Up, At, DrySteps, RefusedSteps, local
    <3>3. CASE Pause(p) \/ Stop(p)
      BY <2>1, <3>3 DEF Pause, PauseNs, TestDir, TestFile, Down, Stop, StopNs, RmRemote, At,
         DrySteps, RefusedSteps, local
    <3>4. CASE Delete(p) \/ Write(p)
      BY <2>1, <3>4 DEF Delete, DeleteExists, Confirm, RmLocal, Write, ApplyExists, ApplyWrite,
         ImportExists, ImportWrite, At, DrySteps, RefusedSteps, local
    <3> QED BY <2>3, <3>1, <3>2, <3>3, <3>4 DEF Work
  <2>4. WriteSecret \/ ApplyNamespace \/ DeleteNamespace => UNCHANGED pc
    BY DEF WriteSecret, ApplyNamespace, DeleteNamespace, Other, proc
  <2> QED BY <2>2, <2>3, <2>4 DEF Next
<1> QED BY <1>1, <1>2, <1>3, PTL DEF Spec, HarmlessCommands

-----------------------------------------------------------------------------
(* Starts, applies and imports that overlap, and meet no failure.  Commands *)
(* that change nothing, and commands on the secret and the namespace, may   *)
(* be among them; the namespace is not deleted.                             *)
Putting == {"apply", "import", "start"}
OnlyStarts ==
    /\ ~Faults /\ "delete namespace" \notin Others
    /\ \A r \in Requests : r.verb \in Putting \/ Harmless(r)

(* Such commands come to no step that takes something down. *)
Upward(p) ==
    req[p] # None /\ req[p].verb \in Putting =>
        pc[p] \in StartSteps \union WriteSteps \union {"idle", "ok", "failed"}

(* What a start has made for itself is still there when it needs it, and   *)
(* once it has truncated the compose file there is one on the host.         *)
Uploading(p) == pc[p] \in UploadSteps \union {"up"}
Loaded(p) ==
    /\ pc[p] \in {"genCompose", "syncDir"} \/ Uploading(p) => mount # None
    /\ pc[p] = "syncDir" \/ Uploading(p) => compose # None
    /\ Uploading(p) => rdir[mem[p].host]
    /\ pc[p] = "mkdir" => "compose" \notin mem[p].list
    /\ Replacing(p, mem[p].host) => rcompose[mem[p].host] # None

(* Where containers and compose file differ, an "up" is still to come. *)
Settling(h) ==
    \/ rcompose[h] \notin Compose
    \/ running[h] = Deployment(rcompose[h])
    \/ \E p \in Proc : Replacing(p, h)

SettleInv ==
    /\ HarmlessInv
    /\ \A p \in Proc : Upward(p) /\ Loaded(p)
    /\ \A h \in Host : Settling(h)

(* No such command is ever at a step that takes something down. *)
LEMMA NoTeardown ==
  ASSUME OnlyStarts, HarmlessInv, NEW p \in Proc, Upward(p)
  PROVE  pc[p] \notin (PauseSteps \ {"pauseNs"}) \union StopSteps \union {"rmLocal"}
<1>1. CASE pc[p] = "idle"
  BY <1>1 DEF PauseSteps, StopSteps
<1>2. CASE pc[p] # "idle"
  <2>1. req[p] \in Requests /\ req[p] # None
    BY <1>2 DEF HarmlessInv, TypeOK, ProcOK, MemOK
  <2>2. CASE req[p].verb \in Putting
    BY <2>1, <2>2 DEF Upward, StartSteps, WriteSteps, PauseSteps, StopSteps
  <2>3. CASE Harmless(req[p])
    BY <2>1, <2>3 DEF HarmlessInv, Tame, Harmless, DrySteps, RefusedSteps, PauseSteps, StopSteps
  <2> QED BY <2>1, <2>2, <2>3 DEF OnlyStarts
<1> QED BY <1>1, <1>2

LEMMA UpwardStep ==
  ASSUME TypeOK, NEW p \in Proc, Upward(p), [Next]_vars
  PROVE  Upward(p)'
<1> USE DEF At, Goto, TypeOK, ProcOK, Upward, Putting, Labels, Steps, StartSteps, PauseSteps,
            StopSteps, DeleteSteps, WriteSteps
<1>1. CASE Begin(p)
  BY <1>1, ConstantsAssumption DEF Begin, FirstStep
<1>2. CASE Leave(p)
  BY <1>2 DEF Leave
<1>3. CASE Start(p) \/ Fail(p)
  BY <1>3 DEF Start, GetOne, LoadNs, GenEnv, GenMount, GenCompose, SyncDir, Upload, MakeMounts,
     ReadEntry, CreateEntry, WriteEntry, AfterEntry, Up, Fail
<1>4. CASE Pause(p)
  BY <1>4 DEF Pause, PauseNs, TestDir, TestFile, Down
<1>5. CASE Stop(p) \/ Delete(p)
  BY <1>5 DEF Stop, StopNs, RmRemote, Delete, DeleteExists, Confirm, RmLocal
<1>6. CASE Write(p)
  BY <1>6 DEF Write, ApplyExists, ApplyWrite, ImportExists, ImportWrite
<1>7. CASE UNCHANGED <<pc, req>>
  BY <1>7
<1>8. ASSUME NEW q \in Proc, q # p, Begin(q) \/ Work(q) \/ Fail(q) \/ Leave(q)
      PROVE  pc'[p] = pc[p] /\ req'[p] = req[p]
  <2>1. Begin(q) \/ Fail(q) \/ Leave(q) => pc'[p] = pc[p] /\ req'[p] = req[p]
    BY <1>8 DEF Begin, Fail, Leave
  <2>2. Start(q) => pc'[p] = pc[p] /\ req'[p] = req[p]
    BY <1>8 DEF Start, GetOne, LoadNs, GenEnv, GenMount, GenCompose, SyncDir, Upload, MakeMounts,
       ReadEntry, CreateEntry, WriteEntry, Up
  <2>3. Pause(q) \/ Stop(q) => pc'[p] = pc[p] /\ req'[p] = req[p]
    BY <1>8 DEF Pause, PauseNs, TestDir, TestFile, Probe, Down, Stop, StopNs, RmRemote
  <2>4. Delete(q) \/ Write(q) => pc'[p] = pc[p] /\ req'[p] = req[p]
    BY <1>8 DEF Delete, DeleteExists, Confirm, RmLocal, Write, ApplyExists, ApplyWrite,
       ImportExists, ImportWrite
  <2> QED BY <1>8, <2>1, <2>2, <2>3, <2>4 DEF Work
<1>9. WriteSecret \/ ApplyNamespace \/ DeleteNamespace \/ UNCHANGED vars => UNCHANGED <<pc, req>>
  BY DEF WriteSecret, ApplyNamespace, DeleteNamespace, Other, proc, vars
<1> QED BY <1>1, <1>2, <1>3, <1>4, <1>5, <1>6, <1>7, <1>8, <1>9 DEF Next, Work

(* A step that puts nothing on a host and starts nothing there, and takes   *)
(* no file away.                                                            *)
Preparing(p, l) ==
    /\ Goto(p, l) /\ l \notin UploadSteps \union {"up"}
    /\ \A q \in Proc \ {p} : mem'[q] = mem[q]
    /\ UNCHANGED <<remote, running>>
    /\ compose # None => compose' # None
    /\ mount # None => mount' # None

LEMMA PreparingStep ==
  ASSUME SettleInv, HarmlessInv', \A q \in Proc : Upward(q)', NEW p \in Proc, NEW l \in Labels,
         Preparing(p, l), ~Uploading(p),
         l \in {"genCompose", "syncDir"} => mount' # None,
         l = "syncDir" => compose' # None
  PROVE  SettleInv'
<1>1. TypeOK
  BY DEF SettleInv, HarmlessInv
<1>2. pc'[p] = l /\ \A q \in Proc \ {p} : pc'[q] = pc[q]
  BY <1>1 DEF Preparing, Goto, TypeOK, ProcOK
<1>3. ASSUME NEW q \in Proc PROVE Loaded(q)'
  BY <1>2 DEF SettleInv, Loaded, Preparing, remote, Uploading, UploadSteps, Replacing
<1>4. ASSUME NEW h \in Host PROVE Settling(h)'
  <2>1. ASSUME NEW q \in Proc, Replacing(q, h) PROVE Replacing(q, h)'
    BY <1>2, <2>1 DEF Preparing, Replacing, Uploading, UploadSteps
  <2> QED BY <2>1 DEF SettleInv, Settling, Preparing, remote, Deployment
<1> QED BY <1>3, <1>4 DEF SettleInv

(* A step that works on the compose file of h, or past it, and leaves an    *)
(* "up" to come.                                                            *)
Uploads(p, h, l) ==
    /\ Goto(p, l)
    /\ \A q \in Proc \ {p} : mem'[q] = mem[q]
    /\ \A g \in Host \ {h} : rcompose'[g] = rcompose[g]
    /\ rcompose'[h] # None
    /\ UNCHANGED <<compose, mount, running>> /\ rdir' = [rdir EXCEPT ![h] = TRUE]
    /\ mem'[p].host = h /\ Replacing(p, h)'
    /\ l = "mkdir" => "compose" \notin mem'[p].list

LEMMA UploadsStep ==
  ASSUME SettleInv, HarmlessInv', \A q \in Proc : Upward(q)', NEW p \in Proc, NEW l \in Labels,
         Uploading(p), Uploads(p, mem[p].host, l)
  PROVE  SettleInv'
<1> DEFINE h == mem[p].host
<1>1. TypeOK /\ h \in Host
  BY DEF SettleInv, HarmlessInv, TypeOK, ProcOK, MemOK, Memory, Uploading, UploadSteps, KnowsHost,
     KnowsManifest
<1>2. pc'[p] = l /\ \A q \in Proc \ {p} : pc'[q] = pc[q]
  BY <1>1 DEF Uploads, Goto, TypeOK, ProcOK
<1>3. rdir'[h] /\ \A g \in Host : rdir[g] => rdir'[g]
  BY <1>1 DEF Uploads, TypeOK, HostOK
<1>4. ASSUME NEW q \in Proc PROVE Loaded(q)'
  <2>1. CASE q = p
    BY <1>2, <1>3, <2>1 DEF SettleInv, Loaded, Uploads, Uploading, UploadSteps, Replacing
  <2>2. CASE q # p
    <3>1. mem'[q] = mem[q] /\ pc'[q] = pc[q]
      BY <1>2, <2>2 DEF Uploads
    <3>2. Uploading(q) => mem[q].host \in Host
      BY <1>1 DEF TypeOK, ProcOK, MemOK, Memory, Uploading, UploadSteps, KnowsHost, KnowsManifest
    <3>3. Replacing(q, mem[q].host) => Uploading(q)
      BY DEF Replacing, Uploading, UploadSteps
    <3>4. Replacing(q, mem[q].host)' => Replacing(q, mem[q].host)
      BY <3>1 DEF Replacing
    <3>5. Uploading(q)' <=> Uploading(q)
      BY <3>1 DEF Uploading
    <3>6. mem[q].host \in Host /\ rcompose[mem[q].host] # None => rcompose'[mem[q].host] # None
      BY DEF Uploads
    <3> QED BY <1>3, <3>1, <3>2, <3>3, <3>4, <3>5, <3>6 DEF SettleInv, Loaded, Uploads
  <2> QED BY <2>1, <2>2
<1>5. ASSUME NEW g \in Host PROVE Settling(g)'
  <2>1. CASE g = h
    BY <2>1 DEF Settling, Uploads
  <2>2. CASE g # h
    <3>1. ASSUME NEW q \in Proc, Replacing(q, g) PROVE Replacing(q, g)'
      BY <1>2, <2>2, <3>1 DEF Uploads, Replacing
    <3> QED BY <2>2, <3>1 DEF SettleInv, Settling, Uploads, Deployment
  <2> QED BY <2>1, <2>2
<1> QED BY <1>4, <1>5 DEF SettleInv

LEMMA SettleStep == OnlyStarts /\ SettleInv /\ [Next]_vars => SettleInv'
<1> SUFFICES ASSUME OnlyStarts, SettleInv, [Next]_vars PROVE SettleInv'
  OBVIOUS
<1>1. HarmlessInv /\ HarmlessInv' /\ TypeOK /\ TypeOK'
  BY HarmlessStep DEF SettleInv, HarmlessInv
<1>2. \A p \in Proc : Upward(p) /\ Upward(p)'
  BY <1>1, UpwardStep DEF SettleInv
<1>3. \A p \in Proc : pc[p] \notin (PauseSteps \ {"pauseNs"}) \union StopSteps \union {"rmLocal"}
  BY <1>1, <1>2, NoTeardown
<1>4. \A p \in Proc : Loaded(p)
  BY DEF SettleInv
<1>5. \A h \in Host : Settling(h)
  BY DEF SettleInv
<1>6. ~Faults /\ "delete namespace" \notin Others
  BY DEF OnlyStarts
<1> DEFINE Plain == {"idle", "ok", "failed", "applyExists", "applyWrite", "impExists", "impWrite",
                     "getOne", "loadNs", "genEnv", "genMount", "genCompose", "syncDir",
                     "pauseNs", "testDir", "delExists", "confirm"}
<1> USE DEF At
<1>7. ASSUME NEW p \in Proc, NEW l \in Plain, Preparing(p, l), ~Uploading(p),
             l \in {"genCompose", "syncDir"} => mount' # None,
             l = "syncDir" => compose' # None
      PROVE  SettleInv'
  BY <1>1, <1>2, <1>7, PreparingStep DEF Labels, Steps, StartSteps, PauseSteps, StopSteps,
     DeleteSteps, WriteSteps
<1>8. ASSUME NEW p \in Proc, Begin(p) PROVE SettleInv'
  <2>1. PICK r \in Requests : Goto(p, FirstStep(r))
    BY <1>8 DEF Begin
  <2>2. FirstStep(r) \in {"applyExists", "impExists", "getOne", "pauseNs", "delExists"}
    BY <2>1, ConstantsAssumption DEF FirstStep, AllRequests, Verb
  <2>3. Preparing(p, FirstStep(r))
    BY <1>8, <2>1, <2>2 DEF Begin, Preparing, local, UploadSteps
  <2> QED BY <1>7, <1>8, <2>2, <2>3 DEF Begin, Uploading, UploadSteps
<1>9. ASSUME NEW p \in Proc, Leave(p) PROVE SettleInv'
  <2>1. Preparing(p, "idle") /\ ~Uploading(p)
    BY <1>1, <1>6, <1>9 DEF Leave, Preparing, local, Uploading, UploadSteps, TypeOK, ProcOK
  <2> QED BY <1>7, <2>1
<1>10. ASSUME NEW p \in Proc, NEW l \in Plain \ {"genCompose", "syncDir"}, Goto(p, l),
              UNCHANGED <<compose, mount, remote, running>>,
              mem' = mem \/ \E known : mem' = [mem EXCEPT ![p] = known], ~Uploading(p)
       PROVE  SettleInv'
  <2>1. Preparing(p, l)
    BY <1>1, <1>10 DEF Preparing, UploadSteps, TypeOK, ProcOK
  <2> QED BY <1>7, <1>10, <2>1
<1> USE DEF Uploading, UploadSteps
<1>11. ASSUME NEW p \in Proc, Write(p) \/ GetOne(p) \/ LoadNs(p) \/ GenEnv(p) \/ PauseNs(p)
                              \/ DeleteExists(p) \/ Confirm(p)
       PROVE  SettleInv'
  <2>1. CASE Write(p)
    BY <1>10, <2>1 DEF Write, ApplyExists, ApplyWrite, ImportExists, ImportWrite, local
  <2>2. CASE GetOne(p) \/ LoadNs(p) \/ PauseNs(p)
    BY <1>10, <2>2 DEF GetOne, LoadNs, PauseNs, local
  <2>3. CASE GenEnv(p)
    BY <1>10, <2>3 DEF GenEnv, local
  <2>4. CASE DeleteExists(p) \/ Confirm(p)
    BY <1>10, <2>4 DEF DeleteExists, Confirm, local
  <2> QED BY <1>11, <2>1, <2>2, <2>3, <2>4
<1>12. ASSUME NEW p \in Proc, GenMount(p) PROVE SettleInv'
  <2>1. CASE secret = None /\ Goto(p, "failed") /\ UNCHANGED mount
    <3>1. Preparing(p, "failed") /\ ~Uploading(p)
      BY <1>12, <2>1 DEF GenMount, Preparing
    <3> QED BY <1>7, <3>1
  <2>2. CASE secret # None /\ Goto(p, "genCompose") /\ mount' = secret
    <3>1. Preparing(p, "genCompose") /\ ~Uploading(p) /\ mount' # None
      BY <1>12, <2>2 DEF GenMount, Preparing
    <3> QED BY <1>7, <3>1
  <2> QED BY <1>12, <2>1, <2>2 DEF GenMount
<1>13. ASSUME NEW p \in Proc, GenCompose(p) PROVE SettleInv'
  <2>1. compose' # None /\ mount' = mount /\ mount # None
    <3>1. compose' \in Compose
      BY <1>1, <1>13 DEF GenCompose, TypeOK, ProcOK, MemOK, Memory, KnowsManifest, Compose, Manifest
    <3> QED BY <1>4, <1>13, <3>1, ConstantsAssumption DEF GenCompose, Loaded
  <2>2. PICK l \in {"ok", "syncDir"} : Goto(p, l)
    BY <1>13 DEF GenCompose
  <2>3. Preparing(p, l) /\ ~Uploading(p)
    BY <1>13, <2>1, <2>2 DEF GenCompose, Preparing
  <2> QED BY <1>7, <2>1, <2>3
<1>14. ASSUME NEW p \in Proc, SyncDir(p) PROVE SettleInv'
  <2>1. mount # None /\ compose # None /\ Present = Entries /\ AfterEntry(Present) = "read"
    BY <1>4, <1>14 DEF SyncDir, Loaded, Present, Entries, AfterEntry
  <2>2. /\ pc[p] = "syncDir" /\ pc' = [pc EXCEPT ![p] = "read"]
        /\ mem' = [mem EXCEPT ![p].list = Entries]
        /\ rdir' = [rdir EXCEPT ![mem[p].host] = TRUE]
        /\ UNCHANGED <<compose, mount, rcompose, running>>
    BY <1>14, <2>1 DEF SyncDir, Entries, Goto, local
  <2>3. mem[p].host \in Host
    BY <1>1, <2>2 DEF TypeOK, ProcOK, MemOK, Memory, KnowsHost, KnowsManifest
  <2>4. /\ mem'[p].list = Entries /\ pc'[p] = "read"
        /\ \A q \in Proc : mem'[q].host = mem[q].host
        /\ \A q \in Proc \ {p} : mem'[q] = mem[q] /\ pc'[q] = pc[q]
    BY <1>1, <2>2 DEF TypeOK, ProcOK, Memory
  <2>5. ASSUME NEW q \in Proc, NEW h PROVE Replacing(q, h)' <=> Replacing(q, h)
    BY <2>2, <2>4 DEF Replacing, Entries
  <2>6. rdir'[mem[p].host] /\ \A g \in Host : rdir[g] => rdir'[g]
    BY <1>1, <2>2, <2>3 DEF TypeOK, HostOK
  <2>7. ASSUME NEW q \in Proc PROVE Loaded(q)'
    <3>1. CASE q = p
      BY <1>4, <2>1, <2>2, <2>4, <2>5, <2>6, <3>1 DEF Loaded
    <3>2. CASE q # p
      <4>1. Uploading(q) => mem[q].host \in Host
        BY <1>1 DEF TypeOK, ProcOK, MemOK, Memory, KnowsHost, KnowsManifest
      <4> QED BY <1>4, <2>2, <2>4, <2>5, <2>6, <3>2, <4>1 DEF Loaded
    <3> QED BY <3>1, <3>2
  <2>8. ASSUME NEW h \in Host PROVE Settling(h)'
    BY <1>5, <2>2, <2>5 DEF Settling, Deployment
  <2> QED BY <1>1, <1>2, <2>7, <2>8 DEF SettleInv
<1>15. ASSUME NEW p \in Proc, Upload(p)
       PROVE  /\ mem[p] \in Memory /\ mem[p].host \in Host /\ Uploading(p)
              /\ compose # None /\ mount # None /\ rdir[mem[p].host]
  BY <1>1, <1>4, <1>15 DEF Upload, MakeMounts, ReadEntry, CreateEntry, WriteEntry, Loaded, TypeOK,
     ProcOK, MemOK, Memory, KnowsHost, KnowsManifest
<1>16. ASSUME NEW p \in Proc, NEW l \in UploadSteps \union {"up"}, Upload(p),
              Uploads(p, mem[p].host, l)
       PROVE  SettleInv'
  BY <1>1, <1>2, <1>15, <1>16, UploadsStep DEF Labels, Steps, StartSteps
<1>17. ASSUME NEW p \in Proc, MakeMounts(p) PROVE SettleInv'
  <2>1. Upload(p) /\ pc[p] = "mkdir" /\ "compose" \notin mem[p].list
    BY <1>4, <1>17 DEF Upload, MakeMounts, Loaded
  <2>2. /\ Goto(p, "read") /\ rdir' = [rdir EXCEPT ![mem[p].host] = TRUE]
        /\ UNCHANGED <<mem, compose, mount, rcompose, running>>
    BY <1>15, <1>17, <2>1 DEF MakeMounts, local
  <2>3. Replacing(p, mem[p].host) /\ Replacing(p, mem[p].host)'
    BY <1>1, <2>1, <2>2 DEF Replacing, Goto, TypeOK, ProcOK
  <2>4. Uploads(p, mem[p].host, "read")
    BY <1>4, <2>2, <2>3 DEF Uploads, Loaded
  <2> QED BY <1>16, <2>1, <2>4
<1>18. ASSUME NEW p \in Proc, ReadEntry(p) PROVE SettleInv'
  <2> DEFINE x == IF Entry(mem[p].list) = "compose" THEN compose ELSE mount
  <2>1. Upload(p) /\ pc[p] = "read" /\ mem[p] \in Memory
    BY <1>15, <1>18 DEF Upload, ReadEntry
  <2>2. /\ Goto(p, "create") /\ mem' = [mem EXCEPT ![p].file = x]
        /\ UNCHANGED <<compose, mount, rdir, rcompose, running>>
    BY <1>15, <1>18, <2>1 DEF ReadEntry, local, remote
  <2>3. /\ pc'[p] = "create" /\ mem'[p].host = mem[p].host /\ mem'[p].list = mem[p].list
        /\ \A q \in Proc \ {p} : pc'[q] = pc[q] /\ mem'[q] = mem[q]
    BY <1>1, <2>1, <2>2 DEF Goto, TypeOK, ProcOK, Memory
  <2>4. ASSUME NEW q \in Proc, NEW h PROVE Replacing(q, h)' <=> Replacing(q, h)
    BY <2>1, <2>3 DEF Replacing
  <2>5. ASSUME NEW q \in Proc PROVE Loaded(q)'
    <3>1. mem'[q].host = mem[q].host
      BY <2>3
    <3>2. CASE q = p
      BY <1>4, <2>1, <2>2, <2>3, <2>4, <3>1, <3>2 DEF Loaded
    <3>3. CASE q # p
      BY <1>4, <2>2, <2>3, <2>4, <3>1, <3>3 DEF Loaded
    <3> QED BY <3>2, <3>3
  <2>6. ASSUME NEW h \in Host PROVE Settling(h)'
    BY <1>5, <2>2, <2>4 DEF Settling, Deployment
  <2> QED BY <1>1, <1>2, <2>5, <2>6 DEF SettleInv
<1>19. ASSUME NEW p \in Proc, NEW h \in Host, NEW e, NEW y, Put(h, e, y), y # None,
              e # "compose" => rcompose[h] # None
       PROVE  rcompose'[h] # None /\ \A g \in Host \ {h} : rcompose'[g] = rcompose[g]
  BY <1>1, <1>19 DEF Put, TypeOK, HostOK
<1>20. ASSUME NEW p \in Proc, Upload(p), rdir' = rdir
       PROVE  rdir' = [rdir EXCEPT ![mem[p].host] = TRUE]
  BY <1>1, <1>15, <1>20 DEF TypeOK, HostOK
<1>21. ASSUME NEW p \in Proc, CreateEntry(p) PROVE SettleInv'
  <2> DEFINE h == mem[p].host  e == Entry(mem[p].list)
  <2>1. Upload(p) /\ pc[p] = "create" /\ h \in Host
    BY <1>15, <1>21 DEF Upload, CreateEntry
  <2>2. /\ Goto(p, "write") /\ Put(h, e, Empty)
        /\ UNCHANGED <<mem, compose, mount, rdir, running>>
    BY <1>15, <1>21, <2>1 DEF CreateEntry, local
  <2>3. e # "compose" => rcompose[h] # None
    BY <1>4, <2>1 DEF Loaded, Replacing, Entry
  <2>4. rcompose'[h] # None /\ \A g \in Host \ {h} : rcompose'[g] = rcompose[g]
    BY <1>19, <2>1, <2>2, <2>3, ConstantsAssumption
  <2>5. Replacing(p, h)'
    BY <1>1, <2>2 DEF Replacing, Goto, TypeOK, ProcOK
  <2>6. Uploads(p, h, "write")
    BY <1>20, <2>1, <2>2, <2>4, <2>5 DEF Uploads
  <2> QED BY <1>16, <2>1, <2>6
<1>22. ASSUME NEW p \in Proc, WriteEntry(p) PROVE SettleInv'
  <2> DEFINE h == mem[p].host  e == Entry(mem[p].list)  x == mem[p].file
             rest == mem[p].list \ {e}
             old == IF e = "compose" THEN rcompose[h] ELSE rmount[h]
  <2>1. Upload(p) /\ pc[p] = "write" /\ h \in Host /\ mem[p] \in Memory
    BY <1>15, <1>22 DEF Upload, WriteEntry
  <2>2. /\ Goto(p, AfterEntry(rest)) /\ mem' = [mem EXCEPT ![p].list = rest, ![p].file = None]
        /\ UNCHANGED <<compose, mount, rdir, running>>
        /\ \E y \in (IF x = None THEN {old} ELSE Written(old, x)) : Put(h, e, y)
    BY <1>6, <1>22 DEF WriteEntry, local
  <2>3. rcompose[h] # None
    BY <1>4, <2>1 DEF Loaded, Replacing
  <2>4. rcompose'[h] # None /\ \A g \in Host \ {h} : rcompose'[g] = rcompose[g]
    <3>1. PICK y \in (IF x = None THEN {old} ELSE Written(old, x)) : Put(h, e, y)
      BY <2>2
    <3>2. CASE e = "compose"
      <4>1. y # None
        BY <2>3, <3>1, <3>2, ConstantsAssumption DEF Written
      <4> HIDE DEF h, e
      <4> QED BY <1>19, <2>1, <3>1, <3>2, <4>1
    <3>3. CASE e # "compose"
      BY <2>3, <3>1, <3>3 DEF Put
    <3> QED BY <3>2, <3>3
  <2>5. "compose" \notin rest /\ AfterEntry(rest) \in {"up", "mkdir"}
    BY DEF Entry, AfterEntry
  <2>6. /\ mem'[p].host = h /\ mem'[p].list = rest /\ pc'[p] = AfterEntry(rest)
        /\ \A q \in Proc \ {p} : mem'[q] = mem[q]
    BY <1>1, <2>1, <2>2 DEF Goto, TypeOK, ProcOK, Memory
  <2>7. Replacing(p, h)'
    BY <2>5, <2>6 DEF Replacing
  <2>8. Uploads(p, h, AfterEntry(rest))
    BY <1>20, <2>1, <2>2, <2>4, <2>5, <2>6, <2>7 DEF Uploads
  <2> QED BY <1>16, <2>1, <2>5, <2>8
<1>23. ASSUME NEW p \in Proc, Up(p) PROVE SettleInv'
  <2> DEFINE h == mem[p].host
  <2>1. pc[p] = "up" /\ rdir[h] /\ h \in Host
    BY <1>1, <1>4, <1>23 DEF Up, Loaded, TypeOK, ProcOK, MemOK, Memory, KnowsHost, KnowsManifest
  <2>2. /\ UNCHANGED <<mem, compose, mount, rdir, rcompose>>
        /\ \E l \in {"ok", "failed"} : pc' = [pc EXCEPT ![p] = l]
        /\ \/ rcompose[h] \in Compose /\ running' = [running EXCEPT ![h] = Deployment(rcompose[h])]
           \/ rcompose[h] \notin Compose /\ UNCHANGED running
    BY <1>6, <1>23, <2>1 DEF Up, Reachable, Goto, local, remote
  <2>3. /\ pc'[p] \in {"ok", "failed"} /\ \A q \in Proc \ {p} : pc'[q] = pc[q]
        /\ \A g \in Host \ {h} : running'[g] = running[g]
    BY <1>1, <2>1, <2>2 DEF TypeOK, ProcOK, HostOK
  <2> HIDE DEF h
  <2>4. ASSUME NEW q \in Proc PROVE Loaded(q)'
    BY <1>4, <2>2, <2>3 DEF Loaded, Replacing
  <2>5. ASSUME NEW g \in Host PROVE Settling(g)'
    <3>1. CASE g = h
      <4>1. rcompose[h] \in Compose => running'[h] = Deployment(rcompose'[h])
        BY <1>1, <2>1, <2>2 DEF TypeOK, HostOK, Deployment
      <4> QED BY <2>2, <3>1, <4>1 DEF Settling, Deployment
    <3>2. CASE g # h
      <4>1. ASSUME NEW q \in Proc, Replacing(q, g) PROVE Replacing(q, g)'
        BY <2>1, <2>2, <2>3, <3>2, <4>1 DEF Replacing, h
      <4> QED BY <1>5, <2>2, <2>3, <3>2, <4>1 DEF Settling, Deployment
    <3> QED BY <3>1, <3>2
  <2> QED BY <1>1, <1>2, <2>4, <2>5 DEF SettleInv
<1>24. ASSUME UNCHANGED <<compose, mount, remote, running, proc>> PROVE SettleInv'
  <2>1. \A q \in Proc : Loaded(q)'
    BY <1>4, <1>24 DEF Loaded, Replacing, remote, proc
  <2>2. \A h \in Host : Settling(h)'
    BY <1>5, <1>24 DEF Settling, Replacing, remote, proc, Deployment
  <2> QED BY <1>1, <1>2, <2>1, <2>2 DEF SettleInv
<1>25. WriteSecret \/ ApplyNamespace \/ UNCHANGED vars =>
         UNCHANGED <<compose, mount, remote, running, proc>>
  BY DEF WriteSecret, ApplyNamespace, Other, local, vars, remote, proc
<1>26. /\ ~DeleteNamespace
       /\ \A p \in Proc : ~(TestDir(p) \/ TestFile(p) \/ Down(p) \/ Stop(p) \/ RmLocal(p) \/ Fail(p))
  BY <1>3, <1>6 DEF TestDir, TestFile, Down, Stop, StopNs, RmRemote, RmLocal, Fail, PauseSteps,
     StopSteps, DeleteNamespace, Other
<1>27. ASSUME NEW p \in Proc, Begin(p) \/ Work(p) \/ Fail(p) \/ Leave(p) PROVE SettleInv'
  BY <1>8, <1>9, <1>11, <1>12, <1>13, <1>14, <1>17, <1>18, <1>21, <1>22, <1>23, <1>26, <1>27
  DEF Work, Start, Upload, Pause, Delete
<1> QED BY <1>24, <1>25, <1>26, <1>27 DEF Next

(* Only an "up" ends the work of a command on a compose file.              *)
LEMMA ReplacedStep ==
  ASSUME OnlyStarts, SettleInv, Next, NEW h \in Host, NEW p \in Proc, Replacing(p, h),
         ~Replacing(p, h)'
  PROVE  Up(p)
<1>1. TypeOK /\ Upward(p) /\ Loaded(p)
  BY DEF SettleInv, HarmlessInv
<1>2. Uploading(p) /\ ~Faults /\ compose # None /\ mount # None /\ rdir[h] /\ mem[p] \in Memory
  BY <1>1 DEF Replacing, Uploading, UploadSteps, Loaded, OnlyStarts, TypeOK, ProcOK
<1> USE DEF At, Goto, TypeOK, ProcOK, Uploading, UploadSteps
<1>3. ASSUME NEW q \in Proc \ {p} PROVE ~(Begin(q) \/ Work(q) \/ Fail(q) \/ Leave(q))
  <2>1. Begin(q) \/ Fail(q) \/ Leave(q) => pc'[p] = pc[p] /\ mem'[p] = mem[p]
    BY <1>1 DEF Begin, Fail, Leave
  <2>2. Start(q) => pc'[p] = pc[p] /\ mem'[p] = mem[p]
    BY <1>1 DEF Start, GetOne, LoadNs, GenEnv, GenMount, GenCompose, SyncDir, Upload, MakeMounts,
       ReadEntry, CreateEntry, WriteEntry, Up
  <2>3. Pause(q) \/ StopNs(q) => pc'[p] = pc[p] /\ mem'[p] = mem[p]
    BY <1>1 DEF Pause, PauseNs, TestDir, TestFile, Probe, Down, StopNs
  <2>4. RmRemote(q) => pc'[p] = pc[p] /\ mem'[p].host = mem[p].host /\ mem'[p].list = mem[p].list
    BY <1>1, <1>2 DEF RmRemote, Unlink, Memory
  <2>5. Delete(q) \/ Write(q) => pc'[p] = pc[p] /\ mem'[p] = mem[p]
    BY <1>1 DEF Delete, DeleteExists, Confirm, RmLocal, Write, ApplyExists, ApplyWrite,
       ImportExists, ImportWrite
  <2>6. ~(pc'[p] = pc[p] /\ mem'[p].host = mem[p].host /\ mem'[p].list = mem[p].list)
    BY DEF Replacing
  <2> QED BY <2>1, <2>2, <2>3, <2>4, <2>5, <2>6 DEF Work, Stop
<1>4. ~(WriteSecret \/ ApplyNamespace \/ DeleteNamespace)
  BY DEF WriteSecret, ApplyNamespace, DeleteNamespace, Other, proc, Replacing
<1>5. ~Begin(p) /\ ~Fail(p) /\ ~Leave(p)
  BY <1>2 DEF Begin, Fail, Leave
<1>6. Work(p) => Upload(p) \/ Up(p)
  BY <1>2 DEF Work, Start, GetOne, LoadNs, GenEnv, GenMount, GenCompose, SyncDir, Pause, PauseNs,
     TestDir, TestFile, Down, Stop, StopNs, RmRemote, Delete, DeleteExists, Confirm, RmLocal,
     Write, ApplyExists, ApplyWrite, ImportExists, ImportWrite
<1>7. ~MakeMounts(p)
  BY <1>1, <1>2 DEF MakeMounts, Replacing, Loaded
<1>8. ~ReadEntry(p)
  BY <1>1, <1>2 DEF ReadEntry, Replacing, Memory
<1>9. ~CreateEntry(p)
  BY <1>1, <1>2 DEF CreateEntry, Replacing
<1>10. ~WriteEntry(p)
  <2> SUFFICES ASSUME WriteEntry(p) PROVE FALSE
    OBVIOUS
  <2> DEFINE rest == mem[p].list \ {Entry(mem[p].list)}
  <2>1. pc'[p] = AfterEntry(rest) /\ mem'[p].host = mem[p].host
    BY <1>1, <1>2 DEF WriteEntry, Memory
  <2>2. AfterEntry(rest) \in {"up", "mkdir"}
    BY DEF Entry, AfterEntry
  <2> QED BY <2>1, <2>2 DEF Replacing
<1> QED BY <1>3, <1>4, <1>5, <1>6, <1>7, <1>8, <1>9, <1>10 DEF Next, Upload

(* Starts, applies and imports that overlap in any number, access by       *)
(* access, and meet no failure: when the last of them is done with the     *)
(* compose file of a host, the containers there are those of the file, or  *)
(* the file is a mix and the last command has failed.                      *)
THEOREM StartsSettle ==
  ASSUME OnlyStarts
  PROVE  Spec => OverlappingStartsSettle
<1> DEFINE Settles == \A h \in Host :
        (\E p \in Proc : Replacing(p, h)) /\ (\A p \in Proc : ~Replacing(p, h)') =>
            \/ rcompose'[h] \in Compose /\ running'[h] = Deployment(rcompose'[h])
            \/ /\ rcompose'[h] \notin Compose \/ mount = None
               /\ \E p \in Proc : Replacing(p, h) /\ pc'[p] = "failed"
<1>1. Init => SettleInv
  BY InitTypeOK, ConstantsAssumption
  DEF Init, SettleInv, HarmlessInv, Tame, Upward, Loaded, Uploading, UploadSteps, Replacing, Settling
<1>2. SettleInv /\ [Next]_vars => SettleInv'
  BY SettleStep
<1>3. SettleInv /\ [Next]_vars => [Settles]_vars
  <2> SUFFICES ASSUME SettleInv, Next, NEW h \in Host, NEW p \in Proc, Replacing(p, h),
                      \A q \in Proc : ~Replacing(q, h)'
               PROVE  \/ rcompose'[h] \in Compose /\ running'[h] = Deployment(rcompose'[h])
                      \/ rcompose'[h] \notin Compose /\ pc'[p] = "failed"
    OBVIOUS
  <2>1. Up(p) /\ mem[p].host = h /\ UNCHANGED rcompose
    BY ReplacedStep DEF Up, Replacing, remote
  <2>2. ~Faults /\ TypeOK /\ Loaded(p) /\ pc[p] = "up"
    BY <2>1 DEF SettleInv, HarmlessInv, OnlyStarts, Up, At
  <2>3. rdir[h]
    BY <2>1, <2>2 DEF Loaded, Uploading
  <2>4. CASE rcompose[h] \in Compose
    <3>1. running' = [running EXCEPT ![h] = Deployment(rcompose[h])]
      BY <2>1, <2>2, <2>3, <2>4 DEF Up, Reachable
    <3> QED BY <2>1, <2>2, <2>4, <3>1 DEF TypeOK, HostOK, Deployment
  <2>5. CASE rcompose[h] \notin Compose
    BY <2>1, <2>2, <2>5 DEF Up, Reachable, Goto, TypeOK, ProcOK
  <2> QED BY <2>4, <2>5
<1> QED BY <1>1, <1>2, <1>3, PTL DEF Spec, OverlappingStartsSettle
=============================================================================
