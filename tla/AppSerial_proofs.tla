-------------------------- MODULE AppSerial_proofs --------------------------
(***************************************************************************)
(* What holds of commands that are issued one at a time, proved for every  *)
(* set of hosts, services, secrets and requests, and for every step at     *)
(* which a command may fail or be killed.                                  *)
(***************************************************************************)
EXTENDS AppLifecycle_proofs

(* The inductive invariant.  FilesAccounted and ContainersHaveHandle are   *)
(* not inductive alone: rmLocal may take the manifest away only because it *)
(* is known then that the remote directory is gone, and rmRemote the       *)
(* compose file because it is known that only strays still run.  That is   *)
(* ReadsAreCurrent, which in turn needs Solo: no other command moves what  *)
(* was read.                                                               *)
SerialInv == TypeOK /\ Solo /\ ReadsAreCurrent /\ FilesAccounted /\ ContainersHaveHandle

(* Nothing is deployed yet. *)
LEMMA InitSerial == Init => SerialInv
<1> SUFFICES ASSUME Init PROVE SerialInv
  OBVIOUS
<1>1. TypeOK
  BY InitTypeOK
<1>2. Solo
  BY DEF Init, Solo
<1>3. ReadsAreCurrent
  BY DEF Init, ReadsAreCurrent, Current, KnowsManifest, KnowsHost, Paused, UploadSteps
<1>4. FilesAccounted /\ ContainersHaveHandle
  BY DEF Init, FilesAccounted, ContainersHaveHandle
<1> QED BY <1>1, <1>2, <1>3, <1>4 DEF SerialInv

(* A step of a command that is under way moves the pc of that command. *)
LEMMA WorkMoves ==
  ASSUME TypeOK, NEW p \in Proc, Work(p) \/ Fail(p) \/ Leave(p)
  PROVE  pc[p] # "idle" /\ \E l \in Labels : Goto(p, l)
<1> USE DEF At, Labels, Steps, StartSteps, PauseSteps, StopSteps, DeleteSteps, WriteSteps
<1>1. Start(p) => pc[p] # "idle" /\ \E l \in Labels : Goto(p, l)
  BY DEF Start, GetOne, LoadNs, GenEnv, GenMount, GenCompose, SyncDir, AfterEntry,
     Upload, MakeMounts, ReadEntry, CreateEntry, WriteEntry, Up
<1>2. Pause(p) => pc[p] # "idle" /\ \E l \in Labels : Goto(p, l)
  BY DEF Pause, PauseNs, TestDir, TestFile, Probe, Down, AfterPause
<1>3. Stop(p) \/ Delete(p) => pc[p] # "idle" /\ \E l \in Labels : Goto(p, l)
  BY DEF Stop, StopNs, RmRemote, Delete, DeleteExists, Confirm, RmLocal
<1>4. Write(p) \/ Fail(p) \/ Leave(p) => pc[p] # "idle" /\ \E l \in Labels : Goto(p, l)
  BY DEF Write, ApplyExists, ApplyWrite, ImportExists, ImportWrite, Fail, Leave
<1> QED BY <1>1, <1>2, <1>3, <1>4 DEF Work

(* A command is issued only when none is under way. *)
LEMMA SoloStep ==
  ASSUME Exclusive, TypeOK, Solo, Next
  PROVE  Solo'
<1>1. ASSUME NEW p \in Proc, Begin(p) PROVE Solo'
  BY <1>1 DEF Begin, Quiet, Goto, Solo, TypeOK, ProcOK
<1>2. ASSUME NEW p \in Proc, Work(p) \/ Fail(p) \/ Leave(p) PROVE Solo'
  <2>1. pc[p] # "idle" /\ \E l \in Labels : Goto(p, l)
    BY <1>2, WorkMoves
  <2> QED BY <2>1 DEF Goto, Solo, TypeOK, ProcOK
<1>3. WriteSecret \/ ApplyNamespace \/ DeleteNamespace => Solo'
  BY DEF WriteSecret, ApplyNamespace, DeleteNamespace, Other, proc, Solo
<1> QED BY <1>1, <1>2, <1>3 DEF Next

(* Files on a host stay accounted for: SyncDir makes the directory on the  *)
(* host of a namespace and for a manifest that are still there, and        *)
(* rmLocal takes the manifest away when that directory is gone.            *)
LEMMA FilesStep ==
  ASSUME Exclusive, SerialInv, Next
  PROVE  FilesAccounted'
<1> USE DEF SerialInv, FilesAccounted
<1>1. ASSUME NEW p \in Proc,
             \/ Begin(p) \/ Leave(p) \/ Fail(p)
             \/ ApplyExists(p) \/ ImportExists(p) \/ GetOne(p) \/ LoadNs(p) \/ GenEnv(p)
             \/ GenMount(p) \/ GenCompose(p) \/ ReadEntry(p) \/ CreateEntry(p)
             \/ WriteEntry(p) \/ Up(p) \/ Pause(p) \/ StopNs(p) \/ DeleteExists(p) \/ Confirm(p)
      PROVE  FilesAccounted'
  <2>1. UNCHANGED <<ns, manifest, rdir, abandoned>>
    BY <1>1 DEF Begin, Leave, Fail, ApplyExists, ImportExists, GetOne, LoadNs, GenEnv,
       GenMount, GenCompose, ReadEntry, CreateEntry, WriteEntry, Up, Pause, PauseNs, TestDir,
       TestFile, Down, StopNs, DeleteExists, Confirm, local, cluster, remote, history
  <2> QED BY <2>1
<1>2. ASSUME NEW p \in Proc, ApplyWrite(p) \/ ImportWrite(p) PROVE FilesAccounted'
  <2>1. manifest' # None /\ UNCHANGED <<ns, rdir, abandoned>>
    <3>1. req[p] \in AllRequests
      BY <1>2, ConstantsAssumption DEF ApplyWrite, ImportWrite, TypeOK, ProcOK, MemOK, At
    <3> QED BY <1>2, <3>1, ConstantsAssumption
        DEF ApplyWrite, ImportWrite, AllRequests, Manifest, cluster, remote, history
  <2> QED BY <2>1
<1>3. ASSUME NEW p \in Proc, SyncDir(p) \/ MakeMounts(p) PROVE FilesAccounted'
  <2>1. manifest # None /\ ns = mem[p].host
    BY <1>3 DEF SyncDir, MakeMounts, At, ReadsAreCurrent, Current, KnowsManifest, KnowsHost
  <2>2. /\ rdir' \in {rdir, [rdir EXCEPT ![ns] = TRUE]}
        /\ UNCHANGED <<ns, manifest, abandoned>>
    BY <1>3, <2>1 DEF SyncDir, MakeMounts, local, cluster, history
  <2> QED BY <2>1, <2>2 DEF TypeOK, HostOK
<1>4. ASSUME NEW p \in Proc, RmRemote(p) PROVE FilesAccounted'
  <2>1. \A h \in Host : rdir'[h] => rdir[h]
    BY <1>4 DEF RmRemote, TypeOK, HostOK
  <2>2. UNCHANGED <<ns, manifest, abandoned>>
    BY <1>4 DEF RmRemote, local, cluster, history
  <2> QED BY <2>1, <2>2
<1>5. ASSUME NEW p \in Proc, RmLocal(p) PROVE FilesAccounted'
  <2>1. ~rdir[ns]
    BY <1>5 DEF RmLocal, At, ReadsAreCurrent, Current
  <2>2. UNCHANGED <<ns, rdir, abandoned>>
    BY <1>5 DEF RmLocal, cluster, remote, history
  <2> QED BY <2>1, <2>2
<1>6. WriteSecret => FilesAccounted'
  BY DEF WriteSecret, Other, remote, local
<1>7. ApplyNamespace \/ DeleteNamespace => FilesAccounted'
  BY DEF ApplyNamespace, DeleteNamespace, Other, remote, local, Drop, Deployed
<1> QED
  BY <1>1, <1>2, <1>3, <1>4, <1>5, <1>6, <1>7
  DEF Next, Work, Start, Upload, Stop, Delete, Write

(* Containers keep their handle.  An upload or a failing probe records the *)
(* ones that lose it; down and rmRemote take away the compose file, or the *)
(* directory, of none but these.                                           *)
LEMMA HandleStep ==
  ASSUME Exclusive, SerialInv, Next
  PROVE  ContainersHaveHandle'
<1> USE DEF SerialInv, ContainersHaveHandle, Handle
<1>1. ASSUME NEW p \in Proc,
             \/ Begin(p) \/ Leave(p) \/ Fail(p) \/ Write(p) \/ Delete(p)
             \/ GetOne(p) \/ LoadNs(p) \/ GenEnv(p) \/ GenMount(p) \/ GenCompose(p)
             \/ ReadEntry(p) \/ PauseNs(p) \/ StopNs(p)
      PROVE  ContainersHaveHandle'
  <2>1. UNCHANGED <<running, stray, rdir, rcompose>>
    BY <1>1 DEF Begin, Leave, Fail, Write, ApplyExists, ApplyWrite, ImportExists,
       ImportWrite, Delete, DeleteExists, Confirm, RmLocal, GetOne, LoadNs, GenEnv,
       GenMount, GenCompose, ReadEntry, PauseNs, StopNs, remote, history
  <2> QED BY <2>1
<1>2. WriteSecret \/ ApplyNamespace \/ DeleteNamespace => ContainersHaveHandle'
  BY DEF WriteSecret, ApplyNamespace, DeleteNamespace, Other, remote
<1>3. ASSUME NEW p \in Proc, SyncDir(p) \/ MakeMounts(p) PROVE ContainersHaveHandle'
  <2>1. \A h \in Host : rdir[h] => rdir'[h]
    BY <1>3 DEF SyncDir, MakeMounts, TypeOK, HostOK
  <2>2. UNCHANGED <<running, stray, rcompose>>
    BY <1>3 DEF SyncDir, MakeMounts, history
  <2> QED BY <2>1, <2>2
<1>4. ASSUME NEW h \in Host, NEW y \in Compose \union {Empty, Torn},
             rcompose' = [rcompose EXCEPT ![h] = y], UNCHANGED <<running, rdir>>,
             stray' = IF y \in Compose THEN stray \union Dropped(h, y) ELSE stray
      PROVE  ContainersHaveHandle'
  <2> SUFFICES ASSUME NEW g \in Host, NEW s \in Service, running[g][s] # None,
                      <<g, s>> \notin stray'
               PROVE  Handle(g, s)'
    BY <1>4
  <2>1. <<g, s>> \notin stray /\ Handle(g, s)
    BY <1>4
  <2>2. CASE g = h
    <3>1. rcompose'[g] = y
      BY <1>4, <2>2 DEF TypeOK, HostOK
    <3>2. y \in Compose => s \in y.svcs
      BY <1>4, <2>2 DEF Dropped
    <3> QED BY <1>4, <2>1, <3>1, <3>2
  <2>3. CASE g # h
    BY <1>4, <2>1, <2>3 DEF TypeOK, HostOK
  <2> QED BY <2>2, <2>3
<1>9. ASSUME NEW p \in Proc, CreateEntry(p) PROVE ContainersHaveHandle'
  <2>1. mem[p].host \in Host /\ UNCHANGED <<running, rdir, stray>>
    BY <1>9 DEF CreateEntry, At, TypeOK, ProcOK, MemOK, Memory, KnowsHost, KnowsManifest, history
  <2>2. rcompose' = [rcompose EXCEPT ![mem[p].host] = Empty] \/ rcompose' = rcompose
    BY <1>9 DEF CreateEntry, Put
  <2>3. Empty \notin Compose
    BY ConstantsAssumption
  <2> QED BY <1>4, <2>1, <2>2, <2>3
<1>10. ASSUME NEW p \in Proc, WriteEntry(p) PROVE ContainersHaveHandle'
  <2> DEFINE h == mem[p].host  e == Entry(mem[p].list)  x == mem[p].file
  <2>1. h \in Host /\ UNCHANGED <<running, rdir>> /\ x \in Content(e) \union {None}
    BY <1>10 DEF WriteEntry, At, TypeOK, ProcOK, MemOK, Memory, KnowsHost, KnowsManifest
  <2>2. CASE e = "mount"
    <3>1. UNCHANGED <<rcompose, stray>>
      BY <1>10, <2>2 DEF WriteEntry, Put
    <3> QED BY <2>1, <3>1
  <2>3. ASSUME e = "compose", NEW y \in Compose \union {Empty, Torn}, Put(h, e, y),
               stray' = IF y \in Compose THEN stray \union Dropped(h, y) ELSE stray
        PROVE  ContainersHaveHandle'
    BY <1>4, <2>1, <2>3 DEF Put
  <2>4. CASE e = "compose" /\ x # None
    <3>1. PICK y \in Written(rcompose[h], x) \union {Torn} :
             /\ Put(h, e, y)
             /\ stray' = IF y \in Compose THEN stray \union Dropped(h, y) ELSE stray
      <4>1. Torn \notin Compose
        BY ConstantsAssumption
      <4> QED BY <1>10, <2>4, <4>1 DEF WriteEntry
    <3>2. y \in Compose \union {Empty, Torn}
      BY <2>1, <2>4, <3>1 DEF Written, Content
    <3> HIDE DEF h, e, x
    <3> QED BY <2>3, <2>4, <3>1, <3>2
  <2>5. CASE e = "compose" /\ x = None
    <3>1. /\ rcompose' = [rcompose EXCEPT ![h] = rcompose[h]]
          /\ stray \subseteq stray'
      BY <1>10, <2>5 DEF WriteEntry, Put
    <3>2. rcompose' = rcompose
      BY <2>1, <3>1 DEF TypeOK, HostOK
    <3> QED BY <2>1, <3>1, <3>2
  <2>6. e \in {"compose", "mount"}
    BY DEF Entry
  <2> QED BY <2>2, <2>4, <2>5, <2>6
<1>5. ASSUME NEW p \in Proc, Up(p) PROVE ContainersHaveHandle'
  <2> DEFINE h == mem[p].host
  <2>1. UNCHANGED <<rdir, rcompose>> /\ h \in Host
    BY <1>5 DEF Up, At, remote, TypeOK, ProcOK, MemOK, Memory, KnowsHost, KnowsManifest
  <2>2. CASE UNCHANGED <<running, stray>>
    BY <2>1, <2>2
  <2>3. ASSUME Reachable(h), stray' \in {stray, stray \ ({h} \X Service)},
               \A g \in Host \ {h} : running'[g] = running[g],
               \A s \in Service :
                  \/ running'[h][s] = Deployment(rcompose[h])[s]
                  \/ running'[h][s] = running[h][s] /\ stray' = stray
        PROVE  ContainersHaveHandle'
    BY <2>1, <2>3 DEF Reachable, Deployment
  <2>4. CASE /\ Reachable(h) /\ running' = [running EXCEPT ![h] = Deployment(rcompose[h])]
             /\ stray' = stray \ ({h} \X Service)
    BY <2>1, <2>3, <2>4 DEF TypeOK, HostOK
  <2>5. CASE /\ Reachable(h) /\ UNCHANGED stray
             /\ \E done \in SUBSET Service :
                  running' = [running EXCEPT ![h] = [s \in Service |->
                    IF s \in done THEN Deployment(rcompose[h])[s] ELSE running[h][s]]]
    <3>1. PICK done \in SUBSET Service :
             running' = [running EXCEPT ![h] = [s \in Service |->
                    IF s \in done THEN Deployment(rcompose[h])[s] ELSE running[h][s]]]
      BY <2>5
    <3>2. \A g \in Host \ {h} : running'[g] = running[g]
      BY <3>1, <2>1 DEF TypeOK, HostOK
    <3>3. \A s \in Service : running'[h][s] \in {Deployment(rcompose[h])[s], running[h][s]}
      BY <3>1, <2>1 DEF TypeOK, HostOK
    <3> QED BY <2>3, <2>5, <3>2, <3>3
  <2> QED BY <1>5, <2>2, <2>4, <2>5 DEF Up
<1>6. ASSUME NEW p \in Proc, TestDir(p) \/ TestFile(p) PROVE ContainersHaveHandle'
  <2>1. UNCHANGED <<running, rdir, rcompose>> /\ stray \subseteq stray'
    BY <1>6 DEF TestDir, TestFile, Probe, remote
  <2> QED BY <2>1
<1>7. ASSUME NEW p \in Proc, Down(p) PROVE ContainersHaveHandle'
  <2>1. UNCHANGED <<rdir, rcompose, stray>>
    BY <1>7 DEF Down, remote, history
  <2>2. \A h \in Host, s \in Service : running'[h][s] # None => running'[h][s] = running[h][s]
    <3> DEFINE h == mem[p].host
    <3>1. \/ UNCHANGED running
          \/ \E S : running' = [running EXCEPT ![h] = [s \in Service |->
                                  IF s \in S THEN None ELSE running[h][s]]]
      BY <1>7 DEF Down
    <3>2. ASSUME NEW S, running' = [running EXCEPT ![h] = [s \in Service |->
                                  IF s \in S THEN None ELSE running[h][s]]],
                 NEW g \in Host, NEW s \in Service, running'[g][s] # None
          PROVE  running'[g][s] = running[g][s]
      BY <3>2 DEF TypeOK, HostOK
    <3> QED BY <3>1, <3>2
  <2> QED BY <2>1, <2>2
<1>8. ASSUME NEW p \in Proc, RmRemote(p) PROVE ContainersHaveHandle'
  <2>1. /\ mem[p].host = ns /\ UNCHANGED <<running, stray>>
        /\ \A s \in Service : running[ns][s] # None => <<ns, s>> \in stray
    BY <1>8 DEF RmRemote, At, history, ReadsAreCurrent, Current, KnowsHost, Paused
  <2>2. \A h \in Host \ {ns} : rdir'[h] = rdir[h] /\ rcompose'[h] = rcompose[h]
    BY <1>8, <2>1 DEF RmRemote, Unlink, TypeOK, HostOK
  <2> QED BY <2>1, <2>2
<1> QED
  BY <1>1, <1>2, <1>3, <1>5, <1>6, <1>7, <1>8, <1>9, <1>10
  DEF Next, Work, Start, Upload, Pause, Stop

(* What the command under way has read stays current, as it alone writes;  *)
(* and when a pause is over, only strays still run.                        *)
LEMMA ReadsStep ==
  ASSUME Exclusive, SerialInv, Next
  PROVE  ReadsAreCurrent'
<1> USE ConstantsAssumption DEF SerialInv
<1>1. ASSUME NEW p \in Proc, NEW l \in Labels, Goto(p, l), pc[p] # "idle", Current(p)'
      PROVE  ReadsAreCurrent'
  BY <1>1 DEF Goto, Solo, TypeOK, ProcOK, ReadsAreCurrent, Current, KnowsManifest,
     KnowsHost, Paused, UploadSteps
<1>2. ASSUME NEW p \in Proc, Begin(p) PROVE ReadsAreCurrent'
  <2>1. PICK r \in Requests : Goto(p, FirstStep(r)) /\ Quiet
    BY <1>2 DEF Begin
  <2>2. FirstStep(r) \in {"applyExists", "impExists", "getOne", "pauseNs", "delExists"}
    BY <2>1 DEF FirstStep, AllRequests, Verb
  <2>3. \A q \in Proc : pc'[q] \in {"idle", "applyExists", "impExists", "getOne",
                                    "pauseNs", "delExists"}
    BY <2>1, <2>2 DEF Goto, Quiet, TypeOK, ProcOK
  <2> QED BY <2>3 DEF ReadsAreCurrent, Current, KnowsManifest, KnowsHost, Paused, UploadSteps
<1>3. WriteSecret \/ ApplyNamespace \/ DeleteNamespace => ReadsAreCurrent'
  BY DEF WriteSecret, ApplyNamespace, DeleteNamespace, Other, Quiet, proc,
     ReadsAreCurrent, Current, KnowsManifest, KnowsHost, Paused, UploadSteps
<1>4. ASSUME NEW p \in Proc, Work(p) \/ Fail(p) \/ Leave(p), Current(p)'
      PROVE  ReadsAreCurrent'
  BY <1>1, <1>4, WorkMoves
<1>5. ASSUME NEW p \in Proc PROVE Current(p)
  BY DEF ReadsAreCurrent
<1>6. ASSUME NEW p \in Proc, pc[p] \in KnowsHost PROVE ns \in Host /\ mem[p].host = ns
  BY <1>5, <1>6 DEF Current, TypeOK, StoreOK
<1> USE DEF At, Goto, KnowsManifest, KnowsHost, Paused, UploadSteps
<1>7. ASSUME NEW p \in Proc, pc'[p] \in {"idle", "failed", "ok", "applyWrite", "getOne",
                                        "impWrite", "confirm", "pauseNs"}
      PROVE  Current(p)'
  BY <1>7 DEF Current
<1>8. ASSUME NEW p \in Proc, Fail(p) \/ Leave(p) \/ Write(p) \/ DeleteExists(p) \/ Confirm(p)
      PROVE  Current(p)'
  BY <1>7, <1>8 DEF Fail, Leave, Write, ApplyExists, ApplyWrite, ImportExists, ImportWrite,
     DeleteExists, Confirm, TypeOK, ProcOK
<1>9. ASSUME NEW p \in Proc, RmLocal(p) PROVE Current(p)'
  BY <1>7, <1>9 DEF RmLocal, TypeOK, ProcOK
<1>10. ASSUME NEW p \in Proc, GetOne(p) PROVE Current(p)'
  BY <1>10 DEF GetOne, Current, TypeOK, ProcOK, Memory, local
<1>11. ASSUME NEW p \in Proc, LoadNs(p) \/ PauseNs(p) PROVE Current(p)'
  BY <1>5, <1>11 DEF LoadNs, PauseNs, Current, TypeOK, ProcOK, Memory, local, cluster
<1>12. ASSUME NEW p \in Proc, GenEnv(p) PROVE Current(p)'
  BY <1>5, <1>12 DEF GenEnv, Current, TypeOK, ProcOK, Memory, local, cluster
<1>13. ASSUME NEW p \in Proc, GenMount(p) \/ GenCompose(p) PROVE Current(p)'
  BY <1>5, <1>13 DEF GenMount, GenCompose, Current, TypeOK, ProcOK, cluster
<1>14. ASSUME NEW p \in Proc, SyncDir(p) PROVE Current(p)'
  BY <1>5, <1>14 DEF SyncDir, AfterEntry, Current, TypeOK, ProcOK, HostOK, StoreOK, Memory, local, cluster
<1>15. ASSUME NEW p \in Proc, Upload(p) \/ Up(p) PROVE Current(p)'
  <2>1. /\ manifest # None /\ mem[p].m = manifest
        /\ ns \in Host /\ mem[p].host = ns /\ rdir[ns]
    BY <1>5, <1>6, <1>15 DEF Upload, MakeMounts, ReadEntry, CreateEntry, WriteEntry, Up, Current
  <2>2. UNCHANGED <<manifest, ns>> /\ rdir'[ns]
    BY <1>15, <2>1 DEF Upload, MakeMounts, ReadEntry, CreateEntry, WriteEntry, Up, local, cluster,
       remote, TypeOK, HostOK
  <2>3. mem'[p].m = mem[p].m /\ mem'[p].host = mem[p].host
    BY <1>15 DEF Upload, MakeMounts, ReadEntry, CreateEntry, WriteEntry, Up, TypeOK, ProcOK, Memory
  <2>4. pc'[p] \in {"mkdir", "read", "create", "write", "up", "ok", "failed"}
    BY <1>15 DEF Upload, MakeMounts, ReadEntry, CreateEntry, WriteEntry, AfterEntry, Up, TypeOK,
       ProcOK
  <2> QED BY <2>1, <2>2, <2>3, <2>4 DEF Current
<1>16. ASSUME NEW p \in Proc, TestDir(p) \/ TestFile(p) PROVE Current(p)'
  <2>1. ns \in Host /\ mem[p].host = ns /\ UNCHANGED <<ns, running, mem>>
    BY <1>6, <1>16 DEF TestDir, TestFile, cluster
  <2>2. CASE pc'[p] = "stopNs"
    <3>1. CASE stray' = stray \union {<<ns, s>> : s \in {t \in Service : running[ns][t] # None}}
      BY <2>1, <2>2, <3>1 DEF Current
    <3>2. CASE stray' = stray /\ ~(rdir[ns] /\ rcompose[ns] # None)
      BY <2>1, <2>2, <3>2 DEF Current, ContainersHaveHandle, Handle
    <3> QED BY <1>16, <2>1, <2>2, <3>1, <3>2 DEF TestDir, TestFile, Probe, TypeOK, ProcOK
  <2>3. CASE pc'[p] \in {"testFile", "down", "ok"}
    BY <2>1, <2>3 DEF Current
  <2> QED BY <1>16, <2>2, <2>3 DEF TestDir, TestFile, Probe, AfterPause, TypeOK, ProcOK
<1>17. ASSUME NEW p \in Proc, Down(p) PROVE Current(p)'
  <2>1. ns \in Host /\ mem[p].host = ns /\ UNCHANGED <<ns, stray, mem>>
    BY <1>6, <1>17 DEF Down, cluster, history
  <2>2. CASE pc'[p] \in {"failed", "ok"}
    BY <1>7, <2>2
  <2>3. CASE /\ pc'[p] = "stopNs" /\ Reachable(ns)
             /\ running' = [running EXCEPT ![ns] = [s \in Service |->
                              IF s \in rcompose[ns].svcs THEN None ELSE running[ns][s]]]
    <3>1. \A s \in Service : running'[ns][s] # None =>
             running[ns][s] # None /\ s \notin rcompose[ns].svcs
      BY <2>1, <2>3 DEF TypeOK, HostOK
    <3>2. \A s \in Service : running'[ns][s] # None => <<ns, s>> \in stray
      BY <2>1, <2>3, <3>1 DEF ContainersHaveHandle, Handle, Reachable
    <3> QED BY <2>1, <2>3, <3>2 DEF Current
  <2> QED BY <1>17, <2>1, <2>2, <2>3 DEF Down, AfterPause, TypeOK, ProcOK
<1>18. ASSUME NEW p \in Proc, StopNs(p) PROVE Current(p)'
  BY <1>5, <1>18 DEF StopNs, Current, TypeOK, ProcOK, Memory, cluster, history
<1>19. ASSUME NEW p \in Proc, RmRemote(p) PROVE Current(p)'
  <2>1. UNCHANGED <<ns, running, stray>> /\ mem'[p].host = mem[p].host /\ pc[p] = "rmRemote"
    BY <1>19 DEF RmRemote, Unlink, cluster, history
  <2>2. CASE pc'[p] = "rmLocal"
    <3>1. ~rdir'[ns]
      BY <1>6, <1>19, <2>1, <2>2 DEF RmRemote, TypeOK, HostOK, ProcOK
    <3> QED BY <1>5, <2>1, <2>2, <3>1 DEF Current
  <2> QED BY <1>7, <1>19, <2>2 DEF RmRemote, TypeOK, ProcOK
<1> QED
  BY <1>2, <1>3, <1>4, <1>8, <1>9, <1>10, <1>11, <1>12, <1>13, <1>14, <1>15, <1>16,
     <1>17, <1>18, <1>19
  DEF Next, Work, Start, Pause, Stop, Delete

(* The invariant is inductive. *)
LEMMA SerialStep ==
  ASSUME Exclusive, SerialInv, [Next]_vars
  PROVE  SerialInv'
<1>1. CASE Next
  <2>1. TypeOK'
    BY <1>1, StoreStep, HostStep, ProcStep DEF SerialInv, TypeOK
  <2>2. Solo'
    BY <1>1, SoloStep DEF SerialInv
  <2> QED BY <1>1, <2>1, <2>2, ReadsStep, FilesStep, HandleStep DEF SerialInv
<1>2. CASE UNCHANGED vars
  BY <1>2 DEF vars, SerialInv, TypeOK, StoreOK, HostOK, ProcOK, MemOK, Solo, ReadsAreCurrent,
     Current, FilesAccounted, ContainersHaveHandle, Handle, UploadSteps
<1> QED BY <1>1, <1>2

(* Commands issued one at a time act on what they have read. *)
THEOREM SerialCorrect ==
  ASSUME Exclusive
  PROVE  Spec => []SerialInv
<1>1. SerialInv /\ [Next]_vars => SerialInv'
  BY SerialStep
<1> QED BY <1>1, InitSerial, PTL DEF Spec

(* No sequence of commands, however they fail or are killed, leaves App    *)
(* files on a host that no namespace and App manifest lead to, unless the  *)
(* namespace was moved or deleted.                                         *)
THEOREM SerialFiles ==
  ASSUME Exclusive
  PROVE  Spec => []FilesAccounted
<1>1. SerialInv => FilesAccounted
  BY DEF SerialInv
<1> QED BY <1>1, SerialCorrect, PTL

(* Nor does one leave a container that no compose file on its host names,  *)
(* unless an upload without "up" or a failing probe made it a stray.       *)
THEOREM SerialHandles ==
  ASSUME Exclusive
  PROVE  Spec => []ContainersHaveHandle
<1>1. SerialInv => ContainersHaveHandle
  BY DEF SerialInv
<1> QED BY <1>1, SerialCorrect, PTL

(* What the command under way has read still holds when it acts on it. *)
THEOREM SerialReads ==
  ASSUME Exclusive
  PROVE  Spec => []ReadsAreCurrent
<1>1. SerialInv => ReadsAreCurrent
  BY DEF SerialInv
<1> QED BY <1>1, SerialCorrect, PTL
=============================================================================
