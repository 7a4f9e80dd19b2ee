------------------------- MODULE AppOutcome_proofs -------------------------
(***************************************************************************)
(* What a command that reports success has achieved, for commands issued   *)
(* one at a time: StartConverges and StopLeavesOnlyStrays.                 *)
(***************************************************************************)
EXTENDS AppSerial_proofs

(* A step belongs to the verbs whose handler contains it. *)
VerbOK(p) ==
    /\ pc[p] \in StartSteps => req[p].verb \in {"apply", "start"}
    /\ pc[p] \in PauseSteps => req[p].verb \in {"pause", "stop", "delete"}
    /\ pc[p] \in StopSteps => req[p].verb \in {"stop", "delete"}
    /\ pc[p] \in DeleteSteps => req[p].verb = "delete"
    /\ pc[p] \in {"applyExists", "applyWrite"} => req[p].verb = "apply"
    /\ pc[p] \in {"impExists", "impWrite"} => req[p].verb = "import"

(* How far a start has come: each file it wrote stays as it wrote it, and  *)
(* a remote file that it has truncated stays empty until it writes it.     *)
AfterSync == UploadSteps \union {"up"}
Source(list) == IF Entry(list) = "compose" THEN compose ELSE mount
Target(list) == IF Entry(list) = "compose" THEN rcompose[ns] ELSE rmount[ns]

Prepared(p) ==
    /\ pc[p] \in StartSteps /\ req[p].verb = "apply" =>
          manifest # None /\ manifest.svcs = req[p].svcs
    /\ pc[p] \in {"genMount", "genCompose"} => mem[p].env = secret
    /\ pc[p] \in {"genCompose", "syncDir"} \union AfterSync => secret # None /\ mount = secret
    /\ pc[p] \in {"syncDir"} \union AfterSync =>
          compose # None /\ compose = [svcs |-> manifest.svcs, env |-> secret]
    /\ pc[p] \in {"read", "create", "write"} => mem[p].list \in {Entries, {"mount"}}
    /\ pc[p] = "mkdir" => mem[p].list = {"mount"}
    /\ pc[p] \in {"create", "write"} => mem[p].file = Source(mem[p].list)
    /\ pc[p] = "write" => Target(mem[p].list) = Empty
    /\ pc[p] \in AfterSync /\ "compose" \notin mem[p].list => rcompose[ns] = compose
    /\ pc[p] = "up" => rmount[ns] = mount /\ mem[p].list = {}

OutcomeInv ==
    /\ SerialInv
    /\ \A p \in Proc : VerbOK(p) /\ Prepared(p)
    /\ StartConverges
    /\ StopLeavesOnlyStrays

(* No command is under way. *)
LEMMA InitOutcome == Init => OutcomeInv
<1> SUFFICES ASSUME Init PROVE OutcomeInv
  OBVIOUS
<1>1. SerialInv
  BY InitSerial
<1>2. \A p \in Proc : VerbOK(p) /\ Prepared(p)
  BY DEF Init, VerbOK, Prepared, AfterSync, UploadSteps, StartSteps, PauseSteps, StopSteps, DeleteSteps
<1>3. StartConverges /\ StopLeavesOnlyStrays
  BY DEF Init, StartConverges, StopLeavesOnlyStrays
<1> QED BY <1>1, <1>2, <1>3 DEF OutcomeInv

(* A handler runs its own steps only. *)
LEMMA VerbStep ==
  ASSUME OutcomeInv, Next
  PROVE  \A p \in Proc : VerbOK(p)'
<1> USE DEF OutcomeInv, SerialInv, TypeOK, ProcOK, Goto, At, Steps, StartSteps, PauseSteps,
            StopSteps, DeleteSteps, WriteSteps, VerbOK
<1>1. ASSUME NEW p \in Proc, NEW l \in Labels, Goto(p, l), UNCHANGED req, VerbOK(p)'
      PROVE  \A q \in Proc : VerbOK(q)'
  BY <1>1
<1>2. ASSUME NEW p \in Proc, Begin(p) PROVE \A q \in Proc : VerbOK(q)'
  <2>1. PICK r \in Requests : req' = [req EXCEPT ![p] = r] /\ Goto(p, FirstStep(r))
    BY <1>2 DEF Begin
  <2>2. r.verb \in Verb
    BY <2>1, ConstantsAssumption DEF AllRequests
  <2>3. \/ r.verb = "apply" /\ FirstStep(r) = "applyExists"
        \/ r.verb = "import" /\ FirstStep(r) = "impExists"
        \/ r.verb = "start" /\ FirstStep(r) = "getOne"
        \/ r.verb \in {"pause", "stop"} /\ FirstStep(r) = "pauseNs"
        \/ r.verb = "delete" /\ FirstStep(r) = "delExists"
    BY <2>2 DEF FirstStep, Verb
  <2> QED BY <2>1, <2>3
<1>3. ASSUME NEW p \in Proc, Leave(p) PROVE \A q \in Proc : VerbOK(q)'
  BY <1>3 DEF Leave
<1>4. ASSUME NEW p \in Proc, Start(p) \/ Fail(p) PROVE \A q \in Proc : VerbOK(q)'
  BY <1>4 DEF Start, GetOne, LoadNs, GenEnv, GenMount, GenCompose, SyncDir, AfterEntry,
     Upload, MakeMounts, ReadEntry, CreateEntry, WriteEntry, Up, Fail
<1>5. ASSUME NEW p \in Proc, Pause(p) PROVE \A q \in Proc : VerbOK(q)'
  BY <1>5 DEF Pause, PauseNs, TestDir, TestFile, Probe, Down, AfterPause
<1>6. ASSUME NEW p \in Proc, Stop(p) \/ Delete(p) PROVE \A q \in Proc : VerbOK(q)'
  BY <1>6 DEF Stop, StopNs, RmRemote, Delete, DeleteExists, Confirm, RmLocal
<1>7. ASSUME NEW p \in Proc, Write(p) PROVE \A q \in Proc : VerbOK(q)'
  BY <1>7 DEF Write, ApplyExists, ApplyWrite, ImportExists, ImportWrite
<1>8. WriteSecret \/ ApplyNamespace \/ DeleteNamespace => \A q \in Proc : VerbOK(q)'
  BY DEF WriteSecret, ApplyNamespace, DeleteNamespace, Other, proc
<1> QED BY <1>2, <1>3, <1>4, <1>5, <1>6, <1>7, <1>8 DEF Next, Work

(* Each step of a start finds the files of the steps before it unchanged. *)
LEMMA PreparedStep ==
  ASSUME Exclusive, OutcomeInv, Next
  PROVE  \A p \in Proc : Prepared(p)'
<1> USE ConstantsAssumption DEF OutcomeInv, SerialInv
<1>1. ASSUME NEW p \in Proc, NEW l \in Labels, Goto(p, l), pc[p] # "idle", Prepared(p)'
      PROVE  \A q \in Proc : Prepared(q)'
  BY <1>1 DEF Goto, Solo, TypeOK, ProcOK, Prepared, AfterSync, UploadSteps, StartSteps
<1>2. ASSUME NEW p \in Proc, Work(p) \/ Fail(p) \/ Leave(p), Prepared(p)'
      PROVE  \A q \in Proc : Prepared(q)'
  BY <1>1, <1>2, WorkMoves
<1>3. ASSUME NEW p \in Proc, Begin(p) PROVE \A q \in Proc : Prepared(q)'
  <2>1. PICK r \in Requests : req' = [req EXCEPT ![p] = r] /\ Goto(p, FirstStep(r)) /\ Quiet
    BY <1>3 DEF Begin
  <2>2. r.verb \in Verb
    BY <2>1 DEF AllRequests
  <2>3. \/ FirstStep(r) \in {"applyExists", "impExists", "pauseNs", "delExists"}
        \/ FirstStep(r) = "getOne" /\ r.verb = "start"
    BY <2>2 DEF FirstStep, Verb
  <2>4. \A q \in Proc : \/ pc'[q] \in {"idle", "applyExists", "impExists", "pauseNs", "delExists"}
                        \/ pc'[q] = "getOne" /\ req'[q].verb = "start"
    BY <2>1, <2>3 DEF Goto, Quiet, TypeOK, ProcOK
  <2> QED BY <2>4 DEF Prepared, AfterSync, UploadSteps, StartSteps
<1>4. WriteSecret \/ ApplyNamespace \/ DeleteNamespace => \A q \in Proc : Prepared(q)'
  BY DEF WriteSecret, ApplyNamespace, DeleteNamespace, Other, Quiet, proc, Prepared,
     AfterSync, UploadSteps, StartSteps
<1>5. ASSUME NEW p \in Proc PROVE Prepared(p) /\ Current(p)
  BY DEF ReadsAreCurrent
<1>6. ASSUME NEW p \in Proc, pc[p] \in KnowsHost PROVE ns \in Host /\ mem[p].host = ns
  BY <1>5, <1>6 DEF Current, TypeOK, StoreOK
<1> USE DEF At, Goto, StartSteps, AfterSync, UploadSteps
<1>7. ASSUME NEW p \in Proc, pc'[p] \notin StartSteps PROVE Prepared(p)'
  BY <1>7 DEF Prepared
<1>8. ASSUME NEW p \in Proc, \/ Fail(p) \/ Leave(p) \/ Pause(p) \/ Stop(p) \/ Delete(p)
                            \/ ApplyExists(p) \/ ImportExists(p) \/ ImportWrite(p)
      PROVE  Prepared(p)'
  <2>1. pc'[p] \notin StartSteps
    BY <1>8 DEF Fail, Leave, Pause, PauseNs, TestDir, TestFile, Probe, Down, AfterPause, Stop,
       StopNs, RmRemote, Delete, DeleteExists, Confirm, RmLocal, ApplyExists, ImportExists,
       ImportWrite, TypeOK, ProcOK
  <2> QED BY <1>7, <2>1
<1>9. ASSUME NEW p \in Proc, ApplyWrite(p) PROVE Prepared(p)'
  <2>1. req[p] \in AllRequests
    BY <1>9 DEF ApplyWrite, TypeOK, ProcOK, MemOK
  <2> QED BY <1>9, <2>1 DEF ApplyWrite, Prepared, AllRequests, Manifest, TypeOK, ProcOK
<1>10. ASSUME NEW p \in Proc, GetOne(p) \/ LoadNs(p) PROVE Prepared(p)'
  BY <1>5, <1>10 DEF GetOne, LoadNs, Prepared, TypeOK, ProcOK, local
<1>11. ASSUME NEW p \in Proc, GenEnv(p) PROVE Prepared(p)'
  BY <1>5, <1>11 DEF GenEnv, Prepared, TypeOK, ProcOK, Memory, local, cluster
<1>12. ASSUME NEW p \in Proc, GenMount(p) PROVE Prepared(p)'
  BY <1>5, <1>12 DEF GenMount, Prepared, TypeOK, ProcOK, cluster
<1>13. ASSUME NEW p \in Proc, GenCompose(p) PROVE Prepared(p)'
  <2>1. compose' # None /\ mem[p].m = manifest
    BY <1>5, <1>13 DEF GenCompose, Current, KnowsManifest, TypeOK, ProcOK, MemOK, Memory,
       Manifest, Compose
  <2> QED BY <1>5, <1>13, <2>1 DEF GenCompose, Prepared, TypeOK, ProcOK, cluster
<1>14. ASSUME NEW p \in Proc, SyncDir(p) PROVE Prepared(p)'
  <2>1. compose # None /\ mount # None
    BY <1>5, <1>14 DEF SyncDir, Prepared
  <2>2. Present = Entries /\ AfterEntry(Entries) = "read" /\ "compose" \in Entries
    BY <2>1 DEF Present, Entries, AfterEntry
  <2>3. CASE pc' = [pc EXCEPT ![p] = "read"] /\ mem' = [mem EXCEPT ![p].list = Entries]
    <3>1. pc'[p] = "read" /\ mem'[p].list = Entries
      BY <2>3 DEF TypeOK, ProcOK, Memory
    <3>2. UNCHANGED <<ns, manifest, secret, compose, mount, req>> /\ pc[p] = "syncDir"
      BY <1>14 DEF SyncDir, local, cluster
    <3> QED BY <1>5, <2>2, <3>1, <3>2 DEF Prepared
  <2>4. CASE pc' = [pc EXCEPT ![p] = "failed"]
    BY <1>7, <2>4 DEF TypeOK, ProcOK
  <2> QED BY <1>14, <2>2, <2>3, <2>4 DEF SyncDir
<1>15. ASSUME NEW p \in Proc, Upload(p) \/ Up(p)
       PROVE  /\ ns \in Host /\ mem[p].host = ns /\ mem[p] \in Memory
              /\ UNCHANGED <<ns, manifest, secret, compose, mount, req>>
  BY <1>6, <1>15 DEF Upload, MakeMounts, ReadEntry, CreateEntry, WriteEntry, Up, KnowsHost,
     KnowsManifest, local, cluster, TypeOK, ProcOK
<1>16. ASSUME NEW p \in Proc, Up(p) PROVE Prepared(p)'
  BY <1>7, <1>16 DEF Up, TypeOK, ProcOK
<1>17. ASSUME NEW p \in Proc, MakeMounts(p) PROVE Prepared(p)'
  <2>1. UNCHANGED <<mem, rcompose, rmount>> /\ pc[p] = "mkdir" /\ pc'[p] \in {"failed", "read"}
    BY <1>17 DEF MakeMounts, TypeOK, ProcOK
  <2> QED BY <1>5, <1>7, <1>15, <1>17, <2>1 DEF Prepared, Upload
<1>18. ASSUME NEW p \in Proc, ReadEntry(p) PROVE Prepared(p)'
  <2>1. UNCHANGED <<rcompose, rmount>> /\ pc[p] = "read" /\ compose # None /\ mount # None
    BY <1>5, <1>18 DEF ReadEntry, Prepared, remote
  <2>2. CASE pc' = [pc EXCEPT ![p] = "failed"]
    BY <1>7, <2>2 DEF TypeOK, ProcOK
  <2>3. CASE /\ pc' = [pc EXCEPT ![p] = "create"]
             /\ mem' = [mem EXCEPT ![p].file = Source(mem[p].list)]
    <3>1. /\ pc'[p] = "create" /\ mem'[p].list = mem[p].list
          /\ mem'[p].file = Source(mem[p].list)
      BY <1>15, <1>18, <2>3 DEF TypeOK, ProcOK, Memory, Upload
    <3>2. UNCHANGED <<ns, manifest, secret, compose, mount, req>>
      BY <1>15, <1>18 DEF Upload
    <3> QED BY <1>5, <2>1, <3>1, <3>2 DEF Prepared, Source
  <2> QED BY <1>18, <2>1, <2>2, <2>3 DEF ReadEntry, Source
<1>19. ASSUME NEW p \in Proc, CreateEntry(p) PROVE Prepared(p)'
  <2>1. UNCHANGED mem /\ pc[p] = "create" /\ mem[p].list \in {Entries, {"mount"}}
    BY <1>5, <1>19 DEF CreateEntry, Prepared
  <2>2. CASE pc' = [pc EXCEPT ![p] = "failed"]
    BY <1>7, <2>2 DEF TypeOK, ProcOK
  <2>3. CASE pc' = [pc EXCEPT ![p] = "write"] /\ Put(ns, Entry(mem[p].list), Empty)
    <3>1. pc'[p] = "write" /\ UNCHANGED <<ns, manifest, secret, compose, mount, req>>
      BY <1>15, <1>19, <2>3 DEF TypeOK, ProcOK, Upload
    <3>2. Target(mem[p].list)' = Empty
      BY <1>15, <1>19, <2>1, <2>3, <3>1 DEF Put, Target, Entry, TypeOK, HostOK, Upload
    <3>3. "compose" \notin mem[p].list => rcompose' = rcompose
      BY <2>1, <2>3 DEF Put, Entry
    <3> QED BY <1>5, <2>1, <3>1, <3>2, <3>3 DEF Prepared, Source, Target
  <2>4. mem[p].host = ns
    BY <1>15, <1>19 DEF Upload
  <2> QED BY <1>19, <2>2, <2>3, <2>4 DEF CreateEntry
<1>20. ASSUME NEW p \in Proc, WriteEntry(p) PROVE Prepared(p)'
  <2> DEFINE list == mem[p].list  e == Entry(list)  rest == list \ {e}
  <2>1. /\ pc[p] = "write" /\ list \in {Entries, {"mount"}}
        /\ mem[p].file = Source(list) /\ Source(list) # None /\ Target(list) = Empty
        /\ mem[p].host = ns /\ ns \in Host
    BY <1>5, <1>15, <1>20 DEF WriteEntry, Prepared, Source, Upload
  <2>2. CASE pc' = [pc EXCEPT ![p] = "failed"]
    BY <1>7, <2>2 DEF TypeOK, ProcOK
  <2>3. CASE /\ pc' = [pc EXCEPT ![p] = AfterEntry(rest)]
             /\ mem' = [mem EXCEPT ![p].list = rest, ![p].file = None]
             /\ Put(ns, e, Source(list))
    <3>1. pc'[p] = AfterEntry(rest) /\ mem'[p].list = rest
      BY <1>15, <1>20, <2>3 DEF TypeOK, ProcOK, Memory, Upload
    <3>2. UNCHANGED <<ns, manifest, secret, compose, mount, req>>
      BY <1>15, <1>20 DEF Upload
    <3>3. CASE list = Entries
      <4>1. e = "compose" /\ rest = {"mount"} /\ AfterEntry(rest) = "mkdir"
        BY <3>3 DEF Entry, Entries, AfterEntry
      <4>2. rcompose'[ns] = compose
        BY <2>1, <2>3, <4>1 DEF Put, Source, TypeOK, HostOK
      <4> QED BY <1>5, <2>1, <3>1, <3>2, <4>1, <4>2 DEF Prepared
    <3>4. CASE list = {"mount"}
      <4>1. e = "mount" /\ rest = {} /\ AfterEntry(rest) = "up" /\ "compose" \notin list
        BY <3>4 DEF Entry, AfterEntry
      <4>2. rcompose'[ns] = compose /\ rmount'[ns] = mount
        BY <1>5, <2>1, <2>3, <4>1 DEF Put, Source, TypeOK, HostOK, Prepared
      <4> QED BY <1>5, <2>1, <3>1, <3>2, <4>1, <4>2 DEF Prepared
    <3> QED BY <2>1, <3>3, <3>4
  <2>4. \/ pc' = [pc EXCEPT ![p] = "failed"]
        \/ /\ pc' = [pc EXCEPT ![p] = AfterEntry(rest)]
           /\ mem' = [mem EXCEPT ![p].list = rest, ![p].file = None]
           /\ \E y \in Written(Target(list), Source(list)) : Put(ns, e, y)
    BY <1>20, <2>1 DEF WriteEntry, Target
  <2>5. Written(Target(list), Source(list)) = {Source(list)}
    BY <2>1 DEF Written
  <2> QED BY <2>2, <2>3, <2>4, <2>5
<1> QED
  BY <1>2, <1>3, <1>4, <1>8, <1>9, <1>10, <1>11, <1>12, <1>13, <1>14, <1>16, <1>17, <1>18,
     <1>19, <1>20
  DEF Next, Work, Start, Upload, Write

(* "up" is the last step of a start; until the next command it stays true  *)
(* that the host runs what the data directory says.                        *)
LEMMA ConvergesStep ==
  ASSUME Exclusive, OutcomeInv, Next
  PROVE  StartConverges'
<1> USE ConstantsAssumption DEF OutcomeInv, SerialInv
<1>1. ASSUME NEW p \in Proc, NEW l \in Labels \ {"ok"}, Goto(p, l), pc[p] # "idle"
      PROVE  StartConverges'
  BY <1>1 DEF Goto, Solo, TypeOK, ProcOK, StartConverges
<1>2. ASSUME NEW p \in Proc, Begin(p) PROVE StartConverges'
  <2>1. PICK r \in Requests : Goto(p, FirstStep(r)) /\ Quiet
    BY <1>2 DEF Begin
  <2>2. FirstStep(r) \in {"applyExists", "impExists", "getOne", "pauseNs", "delExists"}
    BY <2>1 DEF FirstStep, AllRequests, Verb
  <2> QED BY <2>1, <2>2 DEF Goto, Quiet, TypeOK, ProcOK, StartConverges
<1>3. WriteSecret \/ ApplyNamespace \/ DeleteNamespace => StartConverges'
  BY DEF WriteSecret, ApplyNamespace, DeleteNamespace, Other, Quiet, proc, StartConverges
<1>4. ASSUME NEW p \in Proc, Goto(p, "ok"), pc[p] # "idle", UNCHANGED req,
             req[p].dry \/ req[p].verb \notin {"apply", "start"}
      PROVE  StartConverges'
  BY <1>4 DEF Goto, Solo, TypeOK, ProcOK, StartConverges
<1>5. ASSUME NEW p \in Proc, Work(p) \/ Fail(p) \/ Leave(p), ~Up(p)
      PROVE  StartConverges'
  <2>1. pc[p] # "idle" /\ \E l \in Labels : Goto(p, l)
    BY <1>5, WorkMoves
  <2>2. CASE Goto(p, "ok")
    <3>1. VerbOK(p)
      OBVIOUS
    <3>2. ASSUME Start(p) PROVE UNCHANGED req /\ req[p].dry
      BY <1>5, <2>2, <3>2 DEF Start, GetOne, LoadNs, GenEnv, GenMount, GenCompose, SyncDir,
         AfterEntry, Upload, MakeMounts, ReadEntry, CreateEntry, WriteEntry, Goto, At, TypeOK, ProcOK
    <3>3. ASSUME Pause(p) \/ Stop(p) \/ Delete(p)
          PROVE  UNCHANGED req /\ req[p].verb \notin {"apply", "start"}
      BY <3>1, <3>3 DEF Pause, PauseNs, TestDir, TestFile, Down, Stop, StopNs, RmRemote,
         Delete, DeleteExists, Confirm, RmLocal, At, VerbOK, PauseSteps, StopSteps, DeleteSteps
    <3>4. ASSUME Write(p)
          PROVE  UNCHANGED req /\ (req[p].dry \/ req[p].verb = "import")
      BY <2>2, <3>1, <3>4 DEF Write, ApplyExists, ApplyWrite, ImportExists, ImportWrite, Goto,
         At, VerbOK, TypeOK, ProcOK
    <3>5. ~Fail(p) /\ ~Leave(p)
      BY <2>2 DEF Fail, Leave, Goto, TypeOK, ProcOK
    <3> QED BY <1>4, <1>5, <2>1, <2>2, <3>2, <3>3, <3>4, <3>5 DEF Work
  <2> QED BY <1>1, <2>1, <2>2
<1>6. ASSUME NEW p \in Proc, Up(p) PROVE StartConverges'
  <2>1. ns \in Host /\ mem[p].host = ns /\ Prepared(p) /\ Current(p) /\ pc[p] = "up"
    BY <1>6 DEF Up, At, ReadsAreCurrent, Current, KnowsHost, KnowsManifest, TypeOK, StoreOK
  <2>2. CASE Goto(p, "failed")
    BY <1>1, <2>1, <2>2 DEF Labels
  <2>3. CASE /\ Goto(p, "ok") /\ Reachable(ns)
             /\ running' = [running EXCEPT ![ns] = Deployment(rcompose[ns])]
    <3>1. UNCHANGED <<ns, manifest, secret, rdir, rcompose, rmount, req>>
      BY <1>6 DEF Up, local, cluster, remote
    <3>2. running'[ns] = Deployment(rcompose[ns])
      BY <2>1, <2>3 DEF TypeOK, HostOK
    <3>3. /\ req[p].verb = "apply" => manifest.svcs = req[p].svcs
          /\ ns # None /\ rdir[ns]
          /\ rcompose[ns] = [svcs |-> manifest.svcs, env |-> secret]
          /\ rmount[ns] = secret
      BY <2>1 DEF Prepared, Current, KnowsHost, KnowsManifest, StartSteps, AfterSync,
           UploadSteps
    <3>4. \A q \in Proc : pc'[q] = "ok" => q = p
      BY <2>1, <2>3 DEF Goto, Solo, TypeOK, ProcOK
    <3> QED BY <3>1, <3>2, <3>3, <3>4 DEF StartConverges, Deployment
  <2> QED BY <1>6, <2>1, <2>2, <2>3 DEF Up
<1> QED BY <1>2, <1>3, <1>5, <1>6 DEF Next

(* A pause ends in four places and a stop and a delete in one each; at     *)
(* every one of them only strays still run.                                *)
LEMMA LeavesStep ==
  ASSUME Exclusive, OutcomeInv, Next
  PROVE  StopLeavesOnlyStrays'
<1> USE ConstantsAssumption DEF OutcomeInv, SerialInv
<1>1. ASSUME NEW p \in Proc, NEW l \in Labels \ {"ok"}, Goto(p, l), pc[p] # "idle"
      PROVE  StopLeavesOnlyStrays'
  BY <1>1 DEF Goto, Solo, TypeOK, ProcOK, StopLeavesOnlyStrays
<1>2. ASSUME NEW p \in Proc, Begin(p) PROVE StopLeavesOnlyStrays'
  <2>1. PICK r \in Requests : Goto(p, FirstStep(r)) /\ Quiet
    BY <1>2 DEF Begin
  <2>2. FirstStep(r) \in {"applyExists", "impExists", "getOne", "pauseNs", "delExists"}
    BY <2>1 DEF FirstStep, AllRequests, Verb
  <2> QED BY <2>1, <2>2 DEF Goto, Quiet, TypeOK, ProcOK, StopLeavesOnlyStrays
<1>3. WriteSecret \/ ApplyNamespace \/ DeleteNamespace => StopLeavesOnlyStrays'
  BY DEF WriteSecret, ApplyNamespace, DeleteNamespace, Other, Quiet, proc, StopLeavesOnlyStrays
<1>4. ASSUME NEW p \in Proc, Goto(p, "ok"), pc[p] # "idle", UNCHANGED <<ns, req>>,
             \/ req[p].dry \/ req[p].verb \notin {"pause", "stop", "delete"}
             \/ /\ ns # None
                /\ \A s \in Service : running'[ns][s] # None => <<ns, s>> \in stray'
                /\ req[p].verb # "pause" => ~rdir'[ns]
                /\ req[p].verb = "delete" =>
                      manifest' = None /\ compose' = None /\ mount' = None
      PROVE  StopLeavesOnlyStrays'
  BY <1>4 DEF Goto, Solo, TypeOK, ProcOK, StopLeavesOnlyStrays
<1>5. ASSUME NEW p \in Proc, Goto(p, "ok"),
             \/ Fail(p) \/ Leave(p) \/ Start(p) \/ Write(p) \/ PauseNs(p) \/ StopNs(p)
             \/ DeleteExists(p) \/ Confirm(p)
      PROVE  StopLeavesOnlyStrays'
  <2>1. ~Fail(p) /\ ~Leave(p) /\ ~StopNs(p) /\ ~Confirm(p)
    BY <1>5 DEF Fail, Leave, StopNs, Confirm, Goto, TypeOK, ProcOK
  <2>2. VerbOK(p)
    OBVIOUS
  <2>3. CASE Start(p) \/ Write(p)
    <3>1. /\ UNCHANGED <<ns, req>> /\ pc[p] # "idle"
          /\ req[p].verb \notin {"pause", "stop", "delete"}
      BY <2>2, <2>3 DEF Start, GetOne, LoadNs, GenEnv, GenMount, GenCompose, SyncDir, Upload, MakeMounts,
         ReadEntry, CreateEntry, WriteEntry, Up, Write, ApplyExists, ApplyWrite, ImportExists, ImportWrite, At, VerbOK,
         StartSteps, cluster
    <3> QED BY <1>4, <1>5, <3>1
  <2>4. CASE PauseNs(p) \/ DeleteExists(p)
    <3>1. UNCHANGED <<ns, req>> /\ pc[p] # "idle" /\ req[p].dry
      BY <1>5, <2>4 DEF PauseNs, DeleteExists, Goto, At, cluster, TypeOK, ProcOK
    <3> QED BY <1>4, <1>5, <3>1
  <2> QED BY <1>5, <2>1, <2>3, <2>4
<1>6. ASSUME NEW p \in Proc, pc[p] \in KnowsHost PROVE ns \in Host /\ mem[p].host = ns
  BY <1>6 DEF ReadsAreCurrent, Current, TypeOK, StoreOK
<1>7. ASSUME NEW p \in Proc, Goto(p, "ok"), TestDir(p) \/ TestFile(p)
      PROVE  StopLeavesOnlyStrays'
  <2>1. /\ ns \in Host /\ mem[p].host = ns /\ UNCHANGED <<ns, req, running>>
        /\ pc[p] # "idle" /\ req[p].verb = "pause"
    BY <1>6, <1>7 DEF TestDir, TestFile, Probe, AfterPause, Goto, At, KnowsHost, cluster,
       TypeOK, ProcOK
  <2>2. \A s \in Service : running[ns][s] # None => <<ns, s>> \in stray'
    <3>1. CASE stray' = stray \union {<<ns, s>> : s \in {t \in Service : running[ns][t] # None}}
      BY <3>1
    <3>2. CASE stray' = stray /\ ~(rdir[ns] /\ rcompose[ns] # None)
      BY <2>1, <3>2 DEF ContainersHaveHandle, Handle
    <3> QED BY <1>7, <2>1, <3>1, <3>2 DEF TestDir, TestFile, Probe, Goto, TypeOK, ProcOK
  <2> QED BY <1>4, <1>7, <2>1, <2>2
<1>8. ASSUME NEW p \in Proc, Goto(p, "ok"), Down(p) PROVE StopLeavesOnlyStrays'
  <2>1. /\ ns \in Host /\ mem[p].host = ns /\ UNCHANGED <<ns, req, stray>>
        /\ pc[p] # "idle" /\ req[p].verb = "pause" /\ Reachable(ns)
        /\ running' = [running EXCEPT ![ns] = [s \in Service |->
                         IF s \in rcompose[ns].svcs THEN None ELSE running[ns][s]]]
    BY <1>6, <1>8 DEF Down, AfterPause, Goto, At, KnowsHost, cluster, history, TypeOK, ProcOK
  <2>2. \A s \in Service : running'[ns][s] # None =>
           running[ns][s] # None /\ s \notin rcompose[ns].svcs
    BY <2>1 DEF TypeOK, HostOK
  <2>3. \A s \in Service : running'[ns][s] # None => <<ns, s>> \in stray
    BY <2>1, <2>2 DEF ContainersHaveHandle, Handle, Reachable
  <2> QED BY <1>4, <1>8, <2>1, <2>3
<1>9. ASSUME NEW p \in Proc, pc[p] \in {"rmRemote", "rmLocal"}
      PROVE  /\ ns \in Host /\ mem[p].host = ns
             /\ \A s \in Service : running[ns][s] # None => <<ns, s>> \in stray
             /\ pc[p] = "rmLocal" => ~rdir[ns]
             /\ pc[p] = "rmRemote" => req[p].verb \in {"stop", "delete"}
  BY <1>6, <1>9 DEF ReadsAreCurrent, Current, KnowsHost, Paused, VerbOK, StopSteps
<1>10. ASSUME NEW p \in Proc, Goto(p, "ok"), RmRemote(p) PROVE StopLeavesOnlyStrays'
  <2>1. /\ UNCHANGED <<ns, req, running, stray>> /\ pc[p] = "rmRemote"
        /\ rdir' = [rdir EXCEPT ![mem[p].host] = FALSE] /\ req[p].verb # "delete"
    BY <1>10 DEF RmRemote, Goto, At, cluster, history, TypeOK, ProcOK
  <2> QED BY <1>4, <1>9, <1>10, <2>1 DEF TypeOK, HostOK
<1>11. ASSUME NEW p \in Proc, Goto(p, "ok"), RmLocal(p) PROVE StopLeavesOnlyStrays'
  <2>1. /\ UNCHANGED <<ns, req, running, stray, rdir>> /\ pc[p] = "rmLocal"
        /\ manifest' = None /\ compose' = None /\ mount' = None
    BY <1>11 DEF RmLocal, Drop, LocalFiles, Entries, Goto, At, cluster, remote, history,
       TypeOK, ProcOK
  <2> QED BY <1>4, <1>9, <1>11, <2>1
<1>12. ASSUME NEW p \in Proc, Work(p) \/ Fail(p) \/ Leave(p) PROVE StopLeavesOnlyStrays'
  <2>1. pc[p] # "idle" /\ \E l \in Labels : Goto(p, l)
    BY <1>12, WorkMoves
  <2>2. CASE Goto(p, "ok")
    BY <1>5, <1>7, <1>8, <1>10, <1>11, <1>12, <2>2 DEF Work, Pause, Stop, Delete
  <2> QED BY <1>1, <2>1, <2>2
<1> QED BY <1>2, <1>3, <1>12 DEF Next

(* The invariant is inductive. *)
LEMMA OutcomeStep ==
  ASSUME Exclusive, OutcomeInv, [Next]_vars
  PROVE  OutcomeInv'
<1>1. SerialInv'
  BY SerialStep DEF OutcomeInv
<1>2. CASE Next
  BY <1>1, <1>2, VerbStep, PreparedStep, ConvergesStep, LeavesStep DEF OutcomeInv
<1>3. CASE UNCHANGED vars
  BY <1>1, <1>3 DEF vars, OutcomeInv, VerbOK, Prepared, Source, Target, StartConverges, StopLeavesOnlyStrays,
     Deployment
<1> QED BY <1>2, <1>3

(* A start or apply that reports success has converged: the host runs      *)
(* exactly the services of the current manifest with the current secret,   *)
(* whatever earlier commands left behind.                                  *)
THEOREM SerialConverges ==
  ASSUME Exclusive
  PROVE  Spec => []StartConverges
<1>1. OutcomeInv /\ [Next]_vars => OutcomeInv'
  BY OutcomeStep
<1>2. OutcomeInv => StartConverges
  BY DEF OutcomeInv
<1> QED BY <1>1, <1>2, InitOutcome, PTL DEF Spec

(* A pause, stop or delete that reports success leaves nothing running but *)
(* the strays, and a stop no remote and a delete no local files.           *)
THEOREM SerialStops ==
  ASSUME Exclusive
  PROVE  Spec => []StopLeavesOnlyStrays
<1>1. OutcomeInv /\ [Next]_vars => OutcomeInv'
  BY OutcomeStep
<1>2. OutcomeInv => StopLeavesOnlyStrays
  BY DEF OutcomeInv
<1> QED BY <1>1, <1>2, InitOutcome, PTL DEF Spec
=============================================================================
