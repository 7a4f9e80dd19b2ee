---------------------- MODULE DaemonSetReconcile_proofs ----------------------
(***************************************************************************)
(* Proofs about DaemonSetReconcile, for any set of namespaces and any      *)
(* manifests, with and without failures: type correctness, that            *)
(* deployments keep their marker, and what a reported success means.       *)
(***************************************************************************)
EXTENDS DaemonSetReconcile, TLAPS

LEMMA InitTypeOK == Init => TypeOK
  BY ConstantsAssumption
     DEF Init, TypeOK, Memory, Blank, Steps, Waiting, Work, StopWork, DeployWork

(* The steps of the command outside its goroutines keep the types. *)
LEMMA CommandTypeOK ==
  ASSUME TypeOK, Begin \/ Command \/ Fail \/ Leave \/ Relabel
  PROVE  TypeOK'
  <1> USE ConstantsAssumption DEF TypeOK, data, host, history, Steps, Waiting, Work, StopWork, DeployWork
  <1>1. CASE Begin
    <2>1. \A r \in Requests : FirstStep(r) \in {"applyExists", "getOne", "stopDeployed", "delExists"}
      BY DEF FirstStep, AllRequests, Verb
    <2> QED BY <1>1, <2>1 DEF Begin
  <1>2. CASE ApplyExists BY <1>2 DEF ApplyExists
  <1>3. CASE ApplyWrite BY <1>3 DEF ApplyWrite, AllRequests
  <1>4. CASE GetOne BY <1>4 DEF GetOne, Memory
  <1>5. CASE Match BY <1>5 DEF Match, Matching, Memory
  <1>6. CASE ReadDeployed BY <1>6 DEF ReadDeployed, Deployed, Listed, Memory, Spawn
  <1>7. CASE WaitRemoved BY <1>7 DEF WaitRemoved, Finished
  <1>8. CASE StartDeploy BY <1>8 DEF StartDeploy, Spawn, Memory
  <1>9. CASE WaitDeployed BY <1>9 DEF WaitDeployed, Finished
  <1>10. CASE StopDeployed BY <1>10 DEF StopDeployed, Deployed, Listed, Memory, Spawn, AfterStop
  <1>11. CASE WaitStopped BY <1>11 DEF WaitStopped, AfterStop, Finished
  <1>12. CASE DeleteExists BY <1>12 DEF DeleteExists
  <1>13. CASE Confirm BY <1>13 DEF Confirm
  <1>14. CASE RmDir BY <1>14 DEF RmDir
  <1>15. CASE Fail BY <1>15 DEF Fail
  <1>16. CASE Leave BY <1>16 DEF Leave, Memory, Blank, Idle
  <1>17. CASE Relabel BY <1>17 DEF Relabel
  <1> QED BY <1>1, <1>2, <1>3, <1>4, <1>5, <1>6, <1>7, <1>8, <1>9, <1>10, <1>11, <1>12,
             <1>13, <1>14, <1>15, <1>16, <1>17 DEF Command, Apply, Start, Stop, Delete

(* The steps of a goroutine keep the types. *)
LEMMA GoroutineTypeOK ==
  ASSUME TypeOK, NEW n \in Namespace, Goroutine(n) \/ WorkFails(n)
  PROVE  TypeOK'
  <1> USE ConstantsAssumption
      DEF TypeOK, data, host, history, Move, Steps, Waiting, Work, StopWork, DeployWork
  <1>1. CASE Load(n) BY <1>1 DEF Load
  <1>2. CASE Test(n) BY <1>2 DEF Test
  <1>3. CASE Down(n) BY <1>3 DEF Down
  <1>4. CASE RmRemote(n) BY <1>4 DEF RmRemote
  <1>5. CASE RmLocal(n) BY <1>5 DEF RmLocal
  <1>6. CASE Gen(n) BY <1>6 DEF Gen, Memory
  <1>7. CASE MkDir(n) BY <1>7 DEF MkDir
  <1>8. CASE Put(n) BY <1>8 DEF Put
  <1>9. CASE Up(n) BY <1>9 DEF Up
  <1>10. CASE WorkFails(n) BY <1>10 DEF WorkFails
  <1> QED BY <1>1, <1>2, <1>3, <1>4, <1>5, <1>6, <1>7, <1>8, <1>9, <1>10
          DEF Goroutine, StopIn, DeployTo

(* Every reachable state has its types, and a goroutine that deploys has a *)
(* manifest to deploy and, when it runs "up", a whole compose file.        *)
THEOREM TypeCorrect == Spec => []TypeOK
  <1>1. TypeOK /\ [Next]_vars => TypeOK'
    <2> SUFFICES ASSUME TypeOK, [Next]_vars PROVE TypeOK'
      OBVIOUS
    <2>1. CASE Begin \/ Command \/ Fail \/ Leave \/ Relabel
      BY <2>1, CommandTypeOK
    <2>2. ASSUME NEW n \in Namespace, Goroutine(n) \/ WorkFails(n)
          PROVE  TypeOK'
      BY <2>2, GoroutineTypeOK
    <2>3. CASE UNCHANGED vars
      BY <2>3 DEF TypeOK, vars
    <2> QED BY <2>1, <2>2, <2>3 DEF Next
  <1> QED BY InitTypeOK, <1>1, PTL DEF Spec

-----------------------------------------------------------------------------
(* Markers.  Which commands take which steps: *)
VerbOK ==
    /\ pc \in {"applyExists", "write"} => req.verb = "apply"
    /\ pc \in {"getOne", "match", "deployed", "removing", "deploy", "deploying"} =>
         req.verb \in {"apply", "start"}
    /\ pc \in {"stopDeployed", "stopping"} => req.verb \in {"stop", "delete"}
    /\ pc \in {"delExists", "confirm", "rmDir"} => req.verb = "delete"
    /\ pc \in {"stopDeployed", "confirm"} /\ req.verb = "delete" => ~req.dry

(* What a goroutine relies on: the marker stands while it deploys, and     *)
(* nothing is left to lead to by the time it removes the marker.           *)
RowOK(n) ==
    /\ worker[n] \in {"mkdir", "put", "up"} => marker[n] # None
    /\ worker[n] \in {"put", "up"} => rdir[n]
    /\ worker[n] = "rmRemote" => running[n] = None
    /\ worker[n] = "rmLocal" => ~On(n) \/ n \in lost
    /\ ~rdir[n] => running[n] = None
    /\ On(n) => marker[n] # None \/ n \in lost

(* Where a stop has been, or what it never saw. *)
Gone(n) == n \in blind \union lost \/ (~On(n) /\ marker[n] = None)

GoneOK(n) ==
    /\ pc = "stopping" /\ worker[n] \in {"none", "done"} => Gone(n)
    /\ pc = "rmDir" => Gone(n)
    /\ pc = "ok" /\ req.verb \in {"stop", "delete"} /\ ~req.dry => Gone(n)

MarkerInv == TypeOK /\ VerbOK /\ \A n \in Namespace : RowOK(n) /\ GoneOK(n)

LEMMA InitMarkerInv == Init => MarkerInv
  BY InitTypeOK DEF Init, MarkerInv, VerbOK, RowOK, On, GoneOK

LEMMA VerbStep ==
  ASSUME TypeOK, VerbOK, [Next]_vars
  PROVE  VerbOK'
  <1> USE DEF VerbOK, data, host, history, Steps, Waiting
  <1>1. CASE Begin
    BY <1>1, ConstantsAssumption DEF Begin, FirstStep, AllRequests, Verb
  <1>2. CASE Apply BY <1>2 DEF Apply, ApplyExists, ApplyWrite
  <1>3. CASE Start
    BY <1>3 DEF Start, GetOne, Match, ReadDeployed, WaitRemoved, StartDeploy, WaitDeployed
  <1>4. CASE Stop BY <1>4 DEF Stop, StopDeployed, WaitStopped, AfterStop
  <1>5. CASE Delete BY <1>5 DEF Delete, DeleteExists, Confirm, RmDir
  <1>6. CASE Fail BY <1>6 DEF Fail
  <1>7. CASE Leave BY <1>7 DEF Leave
  <1>8. CASE Relabel BY <1>8 DEF Relabel
  <1>9. ASSUME NEW n \in Namespace, Goroutine(n) \/ WorkFails(n)
        PROVE  VerbOK'
    <2>1. UNCHANGED <<pc, req>>
      BY <1>9 DEF Goroutine, StopIn, DeployTo, Load, Test, Down, RmRemote, RmLocal,
                  Gen, MkDir, Put, Up, WorkFails
    <2> QED BY <2>1
  <1>10. CASE UNCHANGED vars BY <1>10 DEF vars
  <1> QED BY <1>1, <1>2, <1>3, <1>4, <1>5, <1>6, <1>7, <1>8, <1>9, <1>10 DEF Next, Command

(* The steps of the command outside its goroutines. *)
LEMMA CommandRows ==
  ASSUME MarkerInv, Begin \/ Command \/ Fail \/ Leave \/ Relabel, NEW n \in Namespace
  PROVE  RowOK(n)' /\ GoneOK(n)'
  <1> USE DEF MarkerInv, TypeOK, VerbOK, RowOK, GoneOK, Gone, On, data, host, history,
              Steps, Waiting, Work, StopWork, DeployWork
  <1>1. CASE Begin
    <2>1. pc' \notin {"stopping", "rmDir", "ok"}
      BY <1>1, ConstantsAssumption DEF Begin, FirstStep, AllRequests, Verb
    <2> QED BY <1>1, <2>1 DEF Begin
  <1>2. CASE Apply BY <1>2 DEF Apply, ApplyExists, ApplyWrite
  <1>3. CASE GetOne \/ Match BY <1>3 DEF GetOne, Match
  <1>4. CASE ReadDeployed BY <1>4 DEF ReadDeployed, Spawn
  <1>5. CASE WaitRemoved BY <1>5 DEF WaitRemoved
  <1>6. CASE StartDeploy BY <1>6 DEF StartDeploy, Spawn
  <1>7. CASE WaitDeployed BY <1>7 DEF WaitDeployed
  <1>8. CASE StopDeployed BY <1>8 DEF StopDeployed, Deployed, Spawn, AfterStop
  <1>9. CASE WaitStopped BY <1>9 DEF WaitStopped, Finished, Broken, AfterStop
  <1>10. CASE DeleteExists \/ Confirm BY <1>10 DEF DeleteExists, Confirm
  <1>11. CASE RmDir BY <1>11 DEF RmDir
  <1>12. CASE Fail BY <1>12 DEF Fail
  <1>13. CASE Leave BY <1>13 DEF Leave, Idle
  <1>14. CASE Relabel BY <1>14 DEF Relabel
  <1> QED BY <1>1, <1>2, <1>3, <1>4, <1>5, <1>6, <1>7, <1>8, <1>9, <1>10, <1>11, <1>12,
             <1>13, <1>14 DEF Command, Start, Stop, Delete

(* A goroutine for k disturbs the files of k only. *)
LEMMA GoroutineRows ==
  ASSUME MarkerInv, NEW k \in Namespace, Goroutine(k) \/ WorkFails(k), NEW n \in Namespace
  PROVE  RowOK(n)' /\ GoneOK(n)'
  <1> USE DEF MarkerInv, TypeOK, VerbOK, RowOK, GoneOK, Gone, On, data, host, history,
              Move, Work, StopWork, DeployWork
  <1>1. CASE Load(k) BY <1>1 DEF Load
  <1>2. CASE Test(k) BY <1>2 DEF Test
  <1>3. CASE Down(k) BY <1>3 DEF Down
  <1>4. CASE RmRemote(k) BY <1>4 DEF RmRemote
  <1>5. CASE RmLocal(k) BY <1>5 DEF RmLocal
  <1>6. CASE Gen(k) BY <1>6 DEF Gen
  <1>7. CASE MkDir(k) BY <1>7 DEF MkDir
  <1>8. CASE Put(k) BY <1>8 DEF Put
  <1>9. CASE Up(k) BY <1>9 DEF Up
  <1>10. CASE WorkFails(k) BY <1>10 DEF WorkFails
  <1> QED BY <1>1, <1>2, <1>3, <1>4, <1>5, <1>6, <1>7, <1>8, <1>9, <1>10
          DEF Goroutine, StopIn, DeployTo

LEMMA MarkerStep == MarkerInv /\ TypeOK' /\ [Next]_vars => MarkerInv'
  <1> SUFFICES ASSUME MarkerInv, TypeOK', [Next]_vars
               PROVE  \A n \in Namespace : RowOK(n)' /\ GoneOK(n)'
    BY VerbStep DEF MarkerInv
  <1>1. CASE Begin \/ Command \/ Fail \/ Leave \/ Relabel
    BY <1>1, CommandRows
  <1>2. ASSUME NEW k \in Namespace, Goroutine(k) \/ WorkFails(k)
        PROVE  \A n \in Namespace : RowOK(n)' /\ GoneOK(n)'
    BY <1>2, GoroutineRows
  <1>3. CASE UNCHANGED vars
    BY <1>3 DEF vars, MarkerInv, RowOK, GoneOK, Gone, On
  <1> QED BY <1>1, <1>2, <1>3 DEF Next

LEMMA MarkerInvariant == Spec => []MarkerInv
  BY InitMarkerInv, MarkerStep, TypeCorrect, PTL DEF Spec

(* No deployment loses its marker, but in the three ways lost records.     *)
THEOREM MarkersKept == Spec => []DeploymentsHaveMarker
  <1>1. MarkerInv => DeploymentsHaveMarker
    BY DEF MarkerInv, RowOK, DeploymentsHaveMarker
  <1> QED BY <1>1, MarkerInvariant, PTL

(* A stop or delete that reports success has left nothing where it looked. *)
THEOREM StopsReachAll == Spec => []StopReachesAll
  <1>1. MarkerInv => StopReachesAll
    BY DEF MarkerInv, GoneOK, Gone, StopReachesAll
  <1> QED BY <1>1, MarkerInvariant, PTL

-----------------------------------------------------------------------------
(* Starts.  What the command and its goroutines know at each step: *)
Selecting == {"deployed", "removing", "deploy", "deploying"}
Served(n) == rdir[n] /\ <<marker[n], rcompose[n], running[n]>> = <<manifest, manifest, manifest>>
Cleared(n) == n \in blind \/ marker[n] = None

(* It has read the current manifest, *)
ReadOK ==
    /\ pc \in Selecting \union {"match"} => mem.m = manifest
    /\ pc = "ok" /\ req.verb \in {"apply", "start"} /\ ~req.dry => manifest # None

(* and selected what matches. *)
SelectOK(n) ==
    /\ pc \in Selecting => (n \in mem.names => label[n] = "in")
    /\ pc \in Selecting => (label[n] = "in" => n \in mem.names \union blind)
    /\ pc \notin Selecting \union {"ok", "failed"} => mem.names = {}

(* Namespaces it selected wait for their deployment, and are served after  *)
(* it; the others are cleared by the time the deployments begin.           *)
PhaseOK(n) ==
    /\ pc \notin Waiting \union {"deploy", "rmDir", "ok", "failed"} => worker[n] = "none"
    /\ pc \in {"removing", "deploy"} /\ n \in mem.names => worker[n] = "none"
    /\ pc = "removing" /\ n \notin mem.names /\ worker[n] \in {"none", "done"} => Cleared(n)
    /\ pc \in {"deploy", "deploying"} /\ ~req.dry /\ n \notin mem.names => Cleared(n)
    /\ pc = "deploying" => ~req.dry
    /\ pc = "deploying" => (worker[n] = "none" <=> n \notin mem.names)
    /\ worker[n] \in {"mkdir", "put", "up"} => marker[n] = manifest
    /\ worker[n] = "up" => rcompose[n] = manifest
    /\ pc \in {"deploying", "ok", "failed"} /\ n \in mem.names /\ worker[n] = "done" => Served(n)
    /\ pc \in {"ok", "failed"} /\ n \in mem.names => label[n] = "in"

DoneOK(n) ==
    pc = "ok" /\ req.verb \in {"apply", "start"} /\ ~req.dry =>
        /\ n \in mem.names => Served(n)
        /\ n \notin mem.names => Cleared(n)
        /\ label[n] = "in" => n \in mem.names \union blind

StartInv ==
    /\ MarkerInv /\ ReadOK
    /\ \A n \in Namespace : SelectOK(n) /\ PhaseOK(n) /\ DoneOK(n)

LEMMA InitStartInv == Init => StartInv
  BY InitMarkerInv DEF Init, StartInv, ReadOK, SelectOK, PhaseOK, DoneOK, Selecting, Blank, Waiting

LEMMA ReadStep ==
  ASSUME MarkerInv, ReadOK, [Next]_vars
  PROVE  ReadOK'
  <1> USE DEF MarkerInv, TypeOK, VerbOK, ReadOK, Selecting, data, host, history, Steps, Waiting
  <1>1. CASE Begin
    <2>1. pc' \in {"applyExists", "getOne", "stopDeployed", "delExists"}
      BY <1>1, ConstantsAssumption DEF Begin, FirstStep, AllRequests, Verb
    <2> QED BY <1>1, <2>1 DEF Begin
  <1>2. CASE Apply BY <1>2 DEF Apply, ApplyExists, ApplyWrite
  <1>3. CASE Start
    BY <1>3 DEF Start, GetOne, Match, ReadDeployed, WaitRemoved, StartDeploy, WaitDeployed, Memory
  <1>4. CASE Stop BY <1>4 DEF Stop, StopDeployed, WaitStopped, AfterStop
  <1>5. CASE Delete BY <1>5 DEF Delete, DeleteExists, Confirm, RmDir
  <1>6. CASE Fail BY <1>6 DEF Fail
  <1>7. CASE Leave BY <1>7 DEF Leave
  <1>8. CASE Relabel BY <1>8 DEF Relabel
  <1>9. ASSUME NEW n \in Namespace, Goroutine(n) \/ WorkFails(n)
        PROVE  ReadOK'
    <2>1. UNCHANGED <<pc, req, mem, manifest>>
      BY <1>9 DEF Goroutine, StopIn, DeployTo, Load, Test, Down, RmRemote, RmLocal,
                  Gen, MkDir, Put, Up, WorkFails
    <2> QED BY <2>1
  <1>10. CASE UNCHANGED vars BY <1>10 DEF vars
  <1> QED BY <1>1, <1>2, <1>3, <1>4, <1>5, <1>6, <1>7, <1>8, <1>9, <1>10 DEF Next, Command

(* The steps of the command outside its goroutines. *)
LEMMA CommandStarts ==
  ASSUME StartInv, Begin \/ Command \/ Fail \/ Leave \/ Relabel, NEW n \in Namespace
  PROVE  SelectOK(n)' /\ PhaseOK(n)' /\ DoneOK(n)'
  <1> USE DEF StartInv, MarkerInv, TypeOK, VerbOK, ReadOK, SelectOK, PhaseOK, DoneOK, Selecting,
              Served, Cleared, data, host, history, Steps, Waiting, Work, StopWork, DeployWork
  <1>1. CASE Begin
    <2>1. pc' \in {"applyExists", "getOne", "stopDeployed", "delExists"}
      BY <1>1, ConstantsAssumption DEF Begin, FirstStep, AllRequests, Verb
    <2> QED BY <1>1, <2>1 DEF Begin
  <1>2. CASE Apply BY <1>2 DEF Apply, ApplyExists, ApplyWrite
  <1>3. CASE GetOne BY <1>3 DEF GetOne, Memory
  <1>4. CASE Match BY <1>4 DEF Match, Matching, Memory
  <1>5. CASE ReadDeployed BY <1>5 DEF ReadDeployed, Deployed, Spawn, Memory
  <1>6. CASE WaitRemoved BY <1>6 DEF WaitRemoved, Finished, Broken
  <1>7. CASE StartDeploy BY <1>7 DEF StartDeploy, Spawn
  <1>8. CASE WaitDeployed BY <1>8 DEF WaitDeployed, Finished, Broken
  <1>9. CASE StopDeployed BY <1>9 DEF StopDeployed, Spawn, AfterStop, Memory
  <1>10. CASE WaitStopped BY <1>10 DEF WaitStopped, AfterStop
  <1>11. CASE Delete BY <1>11 DEF Delete, DeleteExists, Confirm, RmDir
  <1>12. CASE Fail BY <1>12 DEF Fail
  <1>13. CASE Leave BY <1>13 DEF Leave, Idle, Blank
  <1>14. CASE Relabel BY <1>14 DEF Relabel
  <1> QED BY <1>1, <1>2, <1>3, <1>4, <1>5, <1>6, <1>7, <1>8, <1>9, <1>10, <1>11, <1>12,
             <1>13, <1>14 DEF Command, Start, Stop

LEMMA GoroutineStarts ==
  ASSUME StartInv, NEW k \in Namespace, Goroutine(k) \/ WorkFails(k), NEW n \in Namespace
  PROVE  SelectOK(n)' /\ PhaseOK(n)' /\ DoneOK(n)'
  <1> USE DEF StartInv, MarkerInv, TypeOK, RowOK, ReadOK, SelectOK, PhaseOK, DoneOK, Selecting,
              Served, Cleared, data, host, history, Move, Waiting, Work, StopWork, DeployWork
  <1>1. CASE Load(k) BY <1>1 DEF Load
  <1>2. CASE Test(k) BY <1>2 DEF Test
  <1>3. CASE Down(k) BY <1>3 DEF Down
  <1>4. CASE RmRemote(k) BY <1>4 DEF RmRemote
  <1>5. CASE RmLocal(k) BY <1>5 DEF RmLocal
  <1>6. CASE Gen(k) BY <1>6 DEF Gen
  <1>7. CASE MkDir(k) BY <1>7 DEF MkDir
  <1>8. CASE Put(k) BY <1>8 DEF Put
  <1>9. CASE Up(k) BY <1>9 DEF Up
  <1>10. CASE WorkFails(k) BY <1>10 DEF WorkFails
  <1> QED BY <1>1, <1>2, <1>3, <1>4, <1>5, <1>6, <1>7, <1>8, <1>9, <1>10
          DEF Goroutine, StopIn, DeployTo

LEMMA StartStep == StartInv /\ MarkerInv' /\ [Next]_vars => StartInv'
  <1> SUFFICES ASSUME StartInv, MarkerInv', [Next]_vars
               PROVE  \A n \in Namespace : SelectOK(n)' /\ PhaseOK(n)' /\ DoneOK(n)'
    BY ReadStep DEF StartInv
  <1>1. CASE Begin \/ Command \/ Fail \/ Leave \/ Relabel
    BY <1>1, CommandStarts
  <1>2. ASSUME NEW k \in Namespace, Goroutine(k) \/ WorkFails(k)
        PROVE  \A n \in Namespace : SelectOK(n)' /\ PhaseOK(n)' /\ DoneOK(n)'
    BY <1>2, GoroutineStarts
  <1>3. CASE UNCHANGED vars
    BY <1>3 DEF vars, StartInv, SelectOK, PhaseOK, DoneOK, Selecting, Served, Cleared
  <1> QED BY <1>1, <1>2, <1>3 DEF Next

LEMMA StartInvariant == Spec => []StartInv
  BY InitStartInv, StartStep, MarkerInvariant, PTL DEF Spec

(* A start that reports success has reconciled every namespace it saw.     *)
THEOREM StartsReconcile == Spec => []StartReconciles
  <1>1. StartInv => StartReconciles
    <2> SUFFICES ASSUME StartInv, pc = "ok", req.verb \in {"apply", "start"}, ~req.dry,
                        NEW n \in Namespace \ blind
                 PROVE  Reconciled(n)
      BY DEF StartReconciles, StartInv, ReadOK
    <2>1. DoneOK(n) /\ PhaseOK(n) /\ RowOK(n)
      BY DEF StartInv, MarkerInv
    <2>2. CASE n \in mem.names
      BY <2>1, <2>2 DEF DoneOK, PhaseOK, Served, Reconciled
    <2>3. CASE n \notin mem.names
      BY <2>1, <2>3 DEF DoneOK, Cleared, RowOK, Reconciled
    <2> QED BY <2>2, <2>3
  <1> QED BY <1>1, StartInvariant, PTL

(* What failed in some namespaces took nothing from the others.            *)
THEOREM OthersServed == Spec => []OthersDeployed
  <1>1. StartInv => OthersDeployed
    <2> SUFFICES ASSUME StartInv PROVE OthersDeployed
      OBVIOUS
    <2>1. pc \in {"ok", "failed"} => Finished
      BY DEF StartInv, MarkerInv, TypeOK, Finished, Work
    <2>2. \A n \in Namespace :
            pc \in {"deploying", "ok", "failed"} /\ n \in mem.names /\ worker[n] = "done"
              /\ label[n] = "in" => Reconciled(n)
      BY DEF StartInv, PhaseOK, Served, Reconciled
    <2>3. mem.names \subseteq Namespace
      BY DEF StartInv, MarkerInv, TypeOK, Memory
    <2> QED BY <2>1, <2>2, <2>3 DEF OthersDeployed
  <1> QED BY <1>1, StartInvariant, PTL
=============================================================================
