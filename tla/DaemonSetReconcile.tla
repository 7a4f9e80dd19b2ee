------------------------- MODULE DaemonSetReconcile -------------------------
(***************************************************************************)
(* One DaemonSet, the namespaces it is deployed to, and the whctl commands *)
(* on it, issued one at a time.                                            *)
(*                                                                         *)
(* start compares the namespaces its selector matches with those it is     *)
(* deployed to, stops it in the ones no longer matched, and deploys it to  *)
(* the others; stop and delete stop it wherever it is deployed.  Each of   *)
(* these phases runs one goroutine per namespace and waits for all of      *)
(* them.  Whether it is deployed to a namespace is told by a local file,   *)
(* daemonsets/<name>/<namespace>/docker-compose.yml: the marker.  One      *)
(* namespace is one host.  A step of a goroutine is one access to the data *)
(* directory or to the host; it may fail, and the process may be killed    *)
(* between any two of them.                                                *)
(***************************************************************************)
EXTENDS FiniteSets

CONSTANTS
    Namespace,  \* names of namespaces, each a host of its own
    Version,    \* contents of the DaemonSet's manifest
    None,       \* an absent file or container
    Torn,       \* a remote file whose upload broke off
    Requests,   \* the commands that are issued, see AllRequests
    Faults      \* TRUE: calls may fail and the process may be killed

Verb == {"apply", "start", "stop", "delete"}
AllRequests == [verb : Verb, version : Version, dry : BOOLEAN, yes : BOOLEAN]

ASSUME ConstantsAssumption ==
    /\ None \notin Version /\ Torn \notin Version /\ None # Torn
    /\ None \notin AllRequests /\ Requests \subseteq AllRequests
    /\ Faults \in BOOLEAN

VARIABLES
    label,     \* label[n]: n matches the selector, or does not, or is gone
    manifest,  \* .daemonset.yaml
    marker,    \* marker[n]: the local docker-compose.yml for n
    rdir,      \* rdir[n]: the DaemonSet's directory exists on the host of n
    rcompose,  \* rcompose[n]: docker-compose.yml in it
    running,   \* running[n]: the version its containers run there, or None
    pc,        \* the step the command takes next
    req,       \* its command line
    mem,       \* what it has read
    worker,    \* worker[n]: the step its goroutine for n takes next
    blind,     \* history: namespaces this command overlooked, see below
    lost       \* history: deployments that lost their marker

data == <<label, manifest>>
host == <<rdir, rcompose, running>>
history == <<blind, lost>>
vars == <<label, manifest, marker, rdir, rcompose, running, pc, req, mem, worker, blind, lost>>

(* m: the manifest; names: the namespaces that match; drop: those to stop in. *)
Memory == [m : Version \union {None}, names : SUBSET Namespace, drop : SUBSET Namespace]
Blank == [m |-> None, names |-> {}, drop |-> {}]

StopWork == {"load", "test", "down", "rmRemote", "rmLocal"}
DeployWork == {"gen", "mkdir", "put", "up"}
Work == StopWork \union DeployWork
Steps == {"applyExists", "write", "getOne", "match", "deployed", "deploy", "delExists",
          "confirm", "stopDeployed", "rmDir"}
Waiting == {"removing", "deploying", "stopping"}

TypeOK ==
    /\ label \in [Namespace -> {"in", "out", "gone"}]
    /\ manifest \in Version \union {None}
    /\ marker \in [Namespace -> Version \union {None}]
    /\ rdir \in [Namespace -> BOOLEAN]
    /\ rcompose \in [Namespace -> Version \union {None, Torn}]
    /\ running \in [Namespace -> Version \union {None}]
    /\ pc \in Steps \union Waiting \union {"idle", "ok", "failed"}
    /\ req \in Requests \union {None}
    /\ mem \in Memory
    /\ worker \in [Namespace -> Work \union {"none", "done", "error"}]
    /\ blind \subseteq Namespace /\ lost \subseteq Namespace
    /\ pc # "idle" => req # None
    /\ pc \in {"match", "deployed", "removing", "deploy", "deploying"} => mem.m # None
    /\ \A n \in Namespace :
         /\ worker[n] \in StopWork => pc \in {"removing", "stopping"}
         /\ worker[n] \in DeployWork => pc = "deploying"
         /\ worker[n] = "up" => rcompose[n] # Torn

Init ==
    /\ label \in [Namespace -> {"in", "out"}]
    /\ manifest = None
    /\ marker = [n \in Namespace |-> None]
    /\ rdir = [n \in Namespace |-> FALSE]
    /\ rcompose = [n \in Namespace |-> None]
    /\ running = [n \in Namespace |-> None]
    /\ pc = "idle" /\ req = None /\ mem = Blank
    /\ worker = [n \in Namespace |-> "none"]
    /\ blind = {} /\ lost = {}

-----------------------------------------------------------------------------
(* The command: everything outside its goroutines. *)

Idle == [n \in Namespace |-> "none"]

FirstStep(r) ==
    CASE r.verb = "apply" -> "applyExists"
      [] r.verb = "start" -> "getOne"
      [] r.verb = "stop" -> "stopDeployed"
      [] r.verb = "delete" -> "delExists"

Begin ==
    /\ pc = "idle"
    /\ \E r \in Requests : req' = r /\ pc' = FirstStep(r)
    /\ UNCHANGED <<data, marker, host, mem, worker, history>>

(* The process ends; its goroutines end with it. *)
Leave ==
    /\ pc # "idle"
    /\ Faults \/ pc \in {"ok", "failed"}
    /\ pc' = "idle" /\ req' = None /\ mem' = Blank /\ worker' = Idle /\ blind' = {}
    /\ UNCHANGED <<data, marker, host, lost>>

Fail ==
    /\ Faults /\ pc \in Steps \ {"confirm", "deploy"}
    /\ pc' = "failed"
    /\ UNCHANGED <<data, marker, host, req, mem, worker, history>>

ApplyExists ==
    /\ pc = "applyExists"
    /\ pc' = IF req.dry THEN "ok" ELSE "write"
    /\ UNCHANGED <<data, marker, host, req, mem, worker, history>>

ApplyWrite ==
    /\ pc = "write"
    /\ manifest' = req.version
    /\ pc' = "getOne"
    /\ UNCHANGED <<label, marker, host, req, mem, worker, history>>

(* Mutant: a DaemonSet without a manifest is not refused. *)
GetOneUnchecked ==
    /\ pc = "getOne"
    /\ pc' = "match"
    /\ mem' = [mem EXCEPT !.m = manifest]
    /\ UNCHANGED <<data, marker, host, req, worker, history>>

GetOne ==
    /\ pc = "getOne"
    /\ pc' = IF manifest = None THEN "failed" ELSE "match"
    /\ mem' = [mem EXCEPT !.m = manifest]
    /\ UNCHANGED <<data, marker, host, req, worker, history>>

Matching == {n \in Namespace : label[n] = "in"}
Deployed == {n \in Namespace : marker[n] # None}

(* A listing skips what it fails to read, without an error. *)
Listed(S, missed) == missed \subseteq S /\ (Faults \/ missed = {})

Match ==
    /\ pc = "match"
    /\ \E missed \in SUBSET Matching :
        /\ Listed(Matching, missed)
        /\ mem' = [mem EXCEPT !.names = Matching \ missed]
        /\ blind' = blind \union missed
    /\ pc' = "deployed"
    /\ UNCHANGED <<data, marker, host, req, worker, lost>>

Spawn(S, step) == worker' = [n \in Namespace |-> IF n \in S THEN step ELSE "none"]

(* The namespaces to remove it from: deployed to and not matched.          *)
ReadDeployed ==
    /\ pc = "deployed"
    /\ \E missed \in SUBSET Deployed :
        LET drop == (Deployed \ missed) \ mem.names IN
        /\ Listed(Deployed, missed)
        /\ blind' = blind \union missed
        /\ mem' = [mem EXCEPT !.drop = drop]
        /\ IF req.dry \/ drop = {}
           THEN pc' = "deploy" /\ UNCHANGED worker
           ELSE pc' = "removing" /\ Spawn(drop, "load")
    /\ UNCHANGED <<data, marker, host, req, lost>>

Finished == \A n \in Namespace : worker[n] \in {"none", "done", "error"}
Broken == \E n \in Namespace : worker[n] = "error"

(* Mutant: the errors of the removals are printed and not returned. *)
WaitRemovedUnchecked ==
    /\ pc = "removing" /\ Finished
    /\ pc' = "deploy"
    /\ UNCHANGED <<data, marker, host, req, mem, worker, history>>

(* WaitGroup.Wait, then the first error, if there is one. *)
WaitRemoved ==
    /\ pc = "removing" /\ Finished
    /\ pc' = IF Broken THEN "failed" ELSE "deploy"
    /\ UNCHANGED <<data, marker, host, req, mem, worker, history>>

StartDeploy ==
    /\ pc = "deploy"
    /\ IF mem.names = {} \/ req.dry
       THEN pc' = "ok" /\ UNCHANGED worker
       ELSE pc' = "deploying" /\ Spawn(mem.names, "gen")
    /\ UNCHANGED <<data, marker, host, req, mem, history>>

(* Mutant: the first error is returned at once. *)
WaitDeployedEager ==
    /\ pc = "deploying" /\ (Finished \/ Broken)
    /\ pc' = IF Broken THEN "failed" ELSE "ok"
    /\ UNCHANGED <<data, marker, host, req, mem, worker, history>>

WaitDeployed ==
    /\ pc = "deploying" /\ Finished
    /\ pc' = IF Broken THEN "failed" ELSE "ok"
    /\ UNCHANGED <<data, marker, host, req, mem, worker, history>>

AfterStop == IF req.verb = "delete" THEN "rmDir" ELSE "ok"

StopDeployed ==
    /\ pc = "stopDeployed"
    /\ \E missed \in SUBSET Deployed :
        LET drop == Deployed \ missed IN
        /\ Listed(Deployed, missed)
        /\ blind' = blind \union missed
        /\ mem' = [mem EXCEPT !.drop = drop]
        /\ IF drop = {} \/ req.dry
           THEN pc' = AfterStop /\ UNCHANGED worker
           ELSE pc' = "stopping" /\ Spawn(drop, "load")
    /\ UNCHANGED <<data, marker, host, req, lost>>

(* Mutant: the errors of the goroutines are printed and not returned. *)
WaitStoppedUnchecked ==
    /\ pc = "stopping" /\ Finished
    /\ pc' = AfterStop
    /\ UNCHANGED <<data, marker, host, req, mem, worker, history>>

WaitStopped ==
    /\ pc = "stopping" /\ Finished
    /\ pc' = IF Broken THEN "failed" ELSE AfterStop
    /\ UNCHANGED <<data, marker, host, req, mem, worker, history>>

DeleteExists ==
    /\ pc = "delExists"
    /\ pc' = IF manifest = None THEN "failed" ELSE IF req.dry THEN "ok" ELSE "confirm"
    /\ UNCHANGED <<data, marker, host, req, mem, worker, history>>

Confirm ==
    /\ pc = "confirm"
    /\ pc' = IF req.yes THEN "stopDeployed" ELSE "failed"
    /\ UNCHANGED <<data, marker, host, req, mem, worker, history>>

On(n) == rdir[n] \/ running[n] # None

(* RemoveAll takes the manifest and every marker away, file by file.       *)
RmDir ==
    /\ pc = "rmDir"
    /\ \/ /\ pc' = "ok" /\ manifest' = None
          /\ marker' = [n \in Namespace |-> None]
       \/ /\ Faults /\ pc' = "failed" /\ manifest' \in {manifest, None}
          /\ \E gone \in SUBSET Namespace :
                marker' = [n \in Namespace |-> IF n \in gone THEN None ELSE marker[n]]
    /\ lost' = lost \union {n \in blind : On(n)}
    /\ UNCHANGED <<label, host, req, mem, worker, blind>>

-----------------------------------------------------------------------------
(* stopInNamespace, the goroutine that removes the DaemonSet from n. *)

Move(n, from, to) == worker[n] = from /\ worker' = [worker EXCEPT ![n] = to]

WorkFails(n) ==
    /\ Faults
    /\ \E step \in {"gen", "mkdir", "rmRemote", "rmLocal"} : Move(n, step, "error")
    /\ UNCHANGED <<data, marker, host, pc, req, mem, history>>

(* A namespace that cannot be loaded is a warning. *)
Load(n) ==
    /\ \/ label[n] # "gone" /\ Move(n, "load", "test") /\ UNCHANGED lost
       \/ /\ label[n] = "gone" \/ Faults
          /\ Move(n, "load", "rmLocal")
          /\ lost' = IF On(n) THEN lost \union {n} ELSE lost
    /\ UNCHANGED <<data, marker, host, pc, req, mem, blind>>

(* An SSH failure of "test -d" reads as "there is no directory". *)
Test(n) ==
    /\ \/ rdir[n] /\ Move(n, "test", "down") /\ UNCHANGED lost
       \/ ~rdir[n] /\ Move(n, "test", "rmLocal") /\ UNCHANGED lost
       \/ Faults /\ rdir[n] /\ Move(n, "test", "rmLocal") /\ lost' = lost \union {n}
    /\ UNCHANGED <<data, marker, host, pc, req, mem, blind>>

(* Mutant: the files are removed also when "down" failed. *)
DownUnchecked(n) ==
    /\ Move(n, "down", "rmRemote")
    /\ \E done \in BOOLEAN :
          running' = IF done THEN [running EXCEPT ![n] = None] ELSE running
    /\ UNCHANGED <<data, marker, rdir, rcompose, pc, req, mem, history>>

(* "docker compose down" fails where there is no readable compose file. *)
Down(n) ==
    /\ \/ /\ rcompose[n] \in Version /\ Move(n, "down", "rmRemote")
          /\ running' = [running EXCEPT ![n] = None]
       \/ rcompose[n] \notin Version /\ Move(n, "down", "error") /\ UNCHANGED running
       \/ /\ Faults /\ Move(n, "down", "error")
          /\ running' \in {running, [running EXCEPT ![n] = None]}
    /\ UNCHANGED <<data, marker, rdir, rcompose, pc, req, mem, history>>

RmRemote(n) ==
    /\ \/ Move(n, "rmRemote", "rmLocal") /\ rdir' = [rdir EXCEPT ![n] = FALSE]
       \/ Faults /\ Move(n, "rmRemote", "error") /\ UNCHANGED rdir
    /\ rcompose' = [rcompose EXCEPT ![n] = None]
    /\ UNCHANGED <<data, marker, running, pc, req, mem, history>>

RmLocal(n) ==
    /\ \/ Move(n, "rmLocal", "done")
       \/ Faults /\ Move(n, "rmLocal", "error")
    /\ marker' = [marker EXCEPT ![n] = None]
    /\ UNCHANGED <<data, host, pc, req, mem, history>>

-----------------------------------------------------------------------------
(* The goroutine that deploys the DaemonSet to n. *)

(* generateDaemonSetCompose writes the marker last. *)
Gen(n) ==
    /\ Move(n, "gen", "mkdir")
    /\ marker' = [marker EXCEPT ![n] = mem.m]
    /\ lost' = lost \ {n}
    /\ UNCHANGED <<data, host, pc, req, mem, blind>>

(* Sync, its two halves: mkdir -p and the upload. *)
MkDir(n) ==
    /\ Move(n, "mkdir", "put")
    /\ rdir' = [rdir EXCEPT ![n] = TRUE]
    /\ UNCHANGED <<data, marker, rcompose, running, pc, req, mem, history>>

Put(n) ==
    /\ \/ Move(n, "put", "up") /\ rcompose' = [rcompose EXCEPT ![n] = marker[n]]
       \/ /\ Faults /\ Move(n, "put", "error")
          /\ \E left \in {rcompose[n], Torn} : rcompose' = [rcompose EXCEPT ![n] = left]
    /\ UNCHANGED <<data, marker, rdir, running, pc, req, mem, history>>

Up(n) ==
    /\ \/ Move(n, "up", "done") /\ running' = [running EXCEPT ![n] = rcompose[n]]
       \/ /\ Faults /\ Move(n, "up", "error")
          /\ running' \in {running, [running EXCEPT ![n] = rcompose[n]]}
    /\ UNCHANGED <<data, marker, rdir, rcompose, pc, req, mem, history>>

-----------------------------------------------------------------------------
(* Commands on namespaces: labels are edited, a namespace is deleted or     *)
(* created again.                                                           *)
Relabel ==
    /\ pc = "idle"
    /\ \E n \in Namespace, l \in {"in", "out", "gone"} :
          l # label[n] /\ label' = [label EXCEPT ![n] = l]
    /\ UNCHANGED <<manifest, marker, host, pc, req, mem, worker, history>>

Apply == ApplyExists \/ ApplyWrite
Start == GetOne \/ Match \/ ReadDeployed \/ WaitRemoved \/ StartDeploy \/ WaitDeployed
Stop == StopDeployed \/ WaitStopped
Delete == DeleteExists \/ Confirm \/ RmDir
Command == Apply \/ Start \/ Stop \/ Delete
StopIn(n) == Load(n) \/ Test(n) \/ Down(n) \/ RmRemote(n) \/ RmLocal(n)
DeployTo(n) == Gen(n) \/ MkDir(n) \/ Put(n) \/ Up(n)
Goroutine(n) == StopIn(n) \/ DeployTo(n)

Next ==
    \/ Begin \/ Command \/ Fail \/ Leave \/ Relabel
    \/ \E n \in Namespace : Goroutine(n) \/ WorkFails(n)

Spec == Init /\ [][Next]_vars

-----------------------------------------------------------------------------
(* Wherever the DaemonSet has files or containers, the marker that leads a *)
(* later start, stop or delete there exists, however often commands broke  *)
(* off: the marker is written before the first access to the host and      *)
(* removed after the last one.  The marker is lost in three ways only      *)
(* (history lost): the namespace could not be loaded, a failing "test -d"  *)
(* read as "not there", or delete overlooked the marker.                   *)
DeploymentsHaveMarker == \A n \in Namespace : On(n) => marker[n] # None \/ n \in lost

(* A start or apply that reports success has reconciled every namespace it *)
(* did not overlook: those that match run the current version, and nothing *)
(* is left on the others, except what had lost its marker.                 *)
Reconciled(n) ==
    IF label[n] = "in"
    THEN rdir[n] /\ <<marker[n], rcompose[n], running[n]>> = <<manifest, manifest, manifest>>
    ELSE marker[n] = None /\ (On(n) => n \in lost)

StartReconciles ==
    pc = "ok" /\ req.verb \in {"apply", "start"} /\ ~req.dry =>
        manifest # None /\ \A n \in Namespace \ blind : Reconciled(n)

(* A stop or delete that reports success has left nothing anywhere, except *)
(* where it overlooked the marker or the marker was lost.                  *)
StopReachesAll ==
    pc = "ok" /\ req.verb \in {"stop", "delete"} /\ ~req.dry =>
        \A n \in Namespace \ (blind \union lost) : ~On(n) /\ marker[n] = None

(* One namespace that fails does not keep the others from being deployed:  *)
(* when a command returns because deployments failed, every goroutine has  *)
(* ended, and each that ended without an error has deployed its namespace. *)
OthersDeployed ==
    /\ pc \in {"ok", "failed"} => Finished
    /\ pc \in {"deploying", "ok", "failed"} =>
         \A n \in mem.names : worker[n] = "done" /\ label[n] = "in" => Reconciled(n)

(* "matchingNamespaces returns all namespace manifests whose labels match  *)
(* the given selector" (daemonset_handler.go), and start "deploys to all   *)
(* matching namespaces" (usage.md).                                        *)
StartCoversMatching ==
    pc = "ok" /\ req.verb \in {"apply", "start"} /\ ~req.dry =>
        \A n \in Matching : running[n] = manifest

=============================================================================
