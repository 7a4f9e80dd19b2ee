---------------------------- MODULE AppLifecycle ----------------------------
(***************************************************************************)
(* One App of one namespace, and the whctl invocations that work on it.    *)
(*                                                                         *)
(* whctl is not a daemon.  Every command is a process of its own that      *)
(* reads and writes the data directory and drives one remote host over     *)
(* SSH and SFTP, with no lock between commands.  The data directory holds  *)
(* the namespace manifest, the App manifest, the secret the App reads and  *)
(* the files generated for the App (docker-compose.yml and the mounts      *)
(* directory); a host holds the App's remote directory and its containers. *)
(* A step below is one access to one of these.  Between two steps another  *)
(* command may run, the process may be killed, or the call may fail.       *)
(***************************************************************************)
EXTENDS Naturals, FiniteSets

CONSTANTS
    Proc,        \* whctl processes
    Host,        \* hosts (with a base directory) a namespace can point to
    Service,     \* names of compose services
    Secret,      \* contents of the secret that envFrom and mounts refer to
    None,        \* an absent file, manifest or container
    Empty,       \* a remote file that an upload has truncated
    Torn,        \* a part of an upload, or a mix of two
    Requests,    \* the App commands that are issued, see AllRequests
    Others,      \* the other commands that are issued, see AllOthers
    Exclusive,   \* TRUE: commands are issued one at a time
    Faults       \* TRUE: calls may fail and processes may be killed

(***************************************************************************)
(* What an App manifest says is which services it defines; a generated     *)
(* compose file holds these and the secret injected into their             *)
(* environment.  The secret is also what the mounted files contain.        *)
(***************************************************************************)
Manifest == [svcs : SUBSET Service]
Compose == [svcs : (SUBSET Service) \ {{}}, env : Secret]

Verb == {"apply", "import", "start", "pause", "stop", "delete"}
Consent == {"yes", "answeredY", "answeredN", "noTTY"}
AllRequests == [verb : Verb, svcs : SUBSET Service, dry : BOOLEAN, consent : Consent]
AllOthers == {"apply secret", "apply namespace", "delete namespace"}

Entries == {"compose", "mount"}
LocalFiles == Entries \union {"manifest"}
NamespaceFiles == LocalFiles \union {"ns", "secret"}

ASSUME ConstantsAssumption ==
    /\ None \notin Secret /\ None \notin Host /\ None \notin Manifest
    /\ None \notin Compose /\ None \notin AllRequests
    /\ {Empty, Torn} \intersect (Secret \union Compose \union {None}) = {} /\ Empty # Torn
    /\ Requests \subseteq AllRequests /\ Others \subseteq AllOthers
    /\ \A r \in Requests : r.verb = "apply" => r.svcs # {}
    /\ Exclusive \in BOOLEAN /\ Faults \in BOOLEAN

VARIABLES
    ns,         \* .namespace.yaml: the host it names, or None
    manifest,   \* .app.yaml
    secret,     \* .secret.yaml
    compose,    \* the local docker-compose.yml
    mount,      \* the local mounts directory
    rdir,       \* rdir[h]: the App's directory exists on h
    rcompose,   \* rcompose[h]: docker-compose.yml in it
    rmount,     \* rmount[h]: mounts in it
    running,    \* running[h][s]: the secret container s runs with, or None
    pc,         \* pc[p]: the step p takes next
    req,        \* req[p]: the command line of p
    mem,        \* mem[p]: what p has read so far
    stray,      \* history: <<h, s>> that lost their handle, see below
    abandoned   \* history: hosts left behind with App files on them

local == <<manifest, compose, mount>>
cluster == <<ns, secret>>
remote == <<rdir, rcompose, rmount>>
proc == <<pc, req, mem>>
history == <<stray, abandoned>>
vars == <<ns, manifest, secret, compose, mount, rdir, rcompose, rmount,
          running, pc, req, mem, stray, abandoned>>

(* list is what is left to upload; file is what the current file of the    *)
(* upload was read as, until it is written or loses its directory entry.   *)
Blank == [m |-> None, host |-> None, env |-> None, list |-> {}, file |-> None]
Memory == [m : Manifest \union {None}, host : Host \union {None},
           env : Secret \union {None}, list : SUBSET Entries,
           file : Compose \union Secret \union {None}]

UploadSteps == {"mkdir", "read", "create", "write"}
StartSteps == {"getOne", "loadNs", "genEnv", "genMount", "genCompose",
               "syncDir", "mkdir", "read", "create", "write", "up"}
PauseSteps == {"pauseNs", "testDir", "testFile", "down"}
StopSteps == {"stopNs", "rmRemote"}
DeleteSteps == {"delExists", "confirm", "rmLocal"}
WriteSteps == {"applyExists", "applyWrite", "impExists", "impWrite"}
Steps == StartSteps \union PauseSteps \union StopSteps
           \union DeleteSteps \union WriteSteps
Labels == Steps \union {"idle", "ok", "failed"}

(* The steps at which a process has read the App manifest, and those at     *)
(* which it has read the namespace manifest.                                *)
KnowsManifest == {"loadNs", "genEnv", "genMount", "genCompose",
                  "syncDir", "mkdir", "read", "create", "write", "up"}
KnowsHost == (KnowsManifest \ {"loadNs"})
               \union {"testDir", "testFile", "down", "stopNs", "rmRemote", "rmLocal"}

(* The first entry of a listing: docker-compose.yml sorts before mounts.   *)
Entry(list) == IF "compose" \in list THEN "compose" ELSE "mount"
Content(e) == IF e = "compose" THEN Compose ELSE Secret

(* What a process has read by the time it needs it. *)
MemOK(p) ==
    /\ pc[p] # "idle" => req[p] # None
    /\ pc[p] \in KnowsManifest => mem[p].m # None
    /\ pc[p] \in KnowsHost => mem[p].host # None
    /\ pc[p] \in {"genMount", "genCompose"} => mem[p].m.svcs # {} /\ mem[p].env # None
    /\ pc[p] \in {"create", "write"} => mem[p].file \in Content(Entry(mem[p].list)) \union {None}

StoreOK ==
    /\ ns \in Host \union {None}
    /\ manifest \in Manifest \union {None}
    /\ secret \in Secret \union {None}
    /\ compose \in Compose \union {None}
    /\ mount \in Secret \union {None}

HostOK ==
    /\ rdir \in [Host -> BOOLEAN]
    /\ rcompose \in [Host -> Compose \union {None, Empty, Torn}]
    /\ rmount \in [Host -> Secret \union {None, Empty, Torn}]
    /\ running \in [Host -> [Service -> Secret \union {None}]]
    /\ stray \subseteq Host \X Service
    /\ abandoned \subseteq Host

ProcOK ==
    /\ pc \in [Proc -> Labels]
    /\ req \in [Proc -> Requests \union {None}]
    /\ mem \in [Proc -> Memory]
    /\ \A p \in Proc : MemOK(p)

TypeOK == StoreOK /\ HostOK /\ ProcOK

(* A data directory with a namespace and nothing deployed yet. *)
Init ==
    /\ ns \in Host
    /\ secret \in Secret
    /\ manifest = None /\ compose = None /\ mount = None
    /\ rdir = [h \in Host |-> FALSE]
    /\ rcompose = [h \in Host |-> None]
    /\ rmount = [h \in Host |-> None]
    /\ running = [h \in Host |-> [s \in Service |-> None]]
    /\ pc = [p \in Proc |-> "idle"]
    /\ req = [p \in Proc |-> None]
    /\ mem = [p \in Proc |-> Blank]
    /\ stray = {} /\ abandoned = {}

-----------------------------------------------------------------------------
(* Steps of a process. *)

At(p, l) == pc[p] = l
Goto(p, l) == pc' = [pc EXCEPT ![p] = l]
Quiet == \A q \in Proc : pc[q] = "idle"

(* Mutant: stop removes the remote files without the pause before it. *)
FirstStepUnpaused(r) ==
    CASE r.verb = "apply" -> "applyExists"
      [] r.verb = "import" -> "impExists"
      [] r.verb = "start" -> "getOne"
      [] r.verb = "pause" -> "pauseNs"
      [] r.verb = "stop" -> "stopNs"
      [] r.verb = "delete" -> "delExists"

FirstStep(r) ==
    CASE r.verb = "apply" -> "applyExists"
      [] r.verb = "import" -> "impExists"
      [] r.verb = "start" -> "getOne"
      [] r.verb \in {"pause", "stop"} -> "pauseNs"
      [] r.verb = "delete" -> "delExists"

Begin(p) ==
    /\ At(p, "idle")
    /\ Exclusive => Quiet
    /\ \E r \in Requests :
        /\ req' = [req EXCEPT ![p] = r]
        /\ Goto(p, FirstStep(r))
    /\ UNCHANGED <<mem, local, cluster, remote, running, history>>

(* The process ends: it returned, or it was killed between two steps. *)
Leave(p) ==
    /\ pc[p] # "idle"
    /\ Faults \/ pc[p] \in {"ok", "failed"}
    /\ Goto(p, "idle")
    /\ req' = [req EXCEPT ![p] = None]
    /\ mem' = [mem EXCEPT ![p] = Blank]
    /\ UNCHANGED <<local, cluster, remote, running, history>>

(* A call returns an error without having had an effect.  The two probes   *)
(* are left out: the code takes their error for an answer.                 *)
Fail(p) ==
    /\ Faults
    /\ pc[p] \in Steps \ {"testDir", "testFile", "confirm"}
    /\ Goto(p, "failed")
    /\ UNCHANGED <<req, mem, local, cluster, remote, running, history>>

-----------------------------------------------------------------------------
(* apply and import *)

ApplyExists(p) ==
    /\ At(p, "applyExists")
    /\ Goto(p, IF req[p].dry THEN "ok" ELSE "applyWrite")
    /\ UNCHANGED <<req, mem, local, cluster, remote, running, history>>

ApplyWrite(p) ==
    /\ At(p, "applyWrite")
    /\ manifest' = [svcs |-> req[p].svcs]
    /\ Goto(p, "getOne")
    /\ UNCHANGED <<req, mem, compose, mount, cluster, remote, running, history>>

ImportExists(p) ==
    /\ At(p, "impExists")
    /\ Goto(p, IF req[p].dry THEN "ok" ELSE "impWrite")
    /\ UNCHANGED <<req, mem, local, cluster, remote, running, history>>

ImportWrite(p) ==
    /\ At(p, "impWrite")
    /\ manifest' = [svcs |-> req[p].svcs]
    /\ Goto(p, "ok")
    /\ UNCHANGED <<req, mem, compose, mount, cluster, remote, running, history>>

-----------------------------------------------------------------------------
(* start: read the manifests, generate, upload, docker compose up *)

GetOne(p) ==
    /\ At(p, "getOne")
    /\ Goto(p, IF manifest = None THEN "failed" ELSE "loadNs")
    /\ mem' = [mem EXCEPT ![p].m = manifest]
    /\ UNCHANGED <<req, local, cluster, remote, running, history>>

LoadNs(p) ==
    /\ At(p, "loadNs")
    /\ Goto(p, IF ns = None THEN "failed" ELSE "genEnv")
    /\ mem' = [mem EXCEPT ![p].host = ns]
    /\ UNCHANGED <<req, local, cluster, remote, running, history>>

(* Mutant: a manifest without services is not refused. *)
GenEnvUnchecked(p) ==
    /\ At(p, "genEnv")
    /\ Goto(p, IF secret = None THEN "failed" ELSE "genMount")
    /\ mem' = [mem EXCEPT ![p].env = secret]
    /\ UNCHANGED <<req, local, cluster, remote, running, history>>

GenEnv(p) ==
    /\ At(p, "genEnv")
    /\ Goto(p, IF mem[p].m.svcs = {} \/ secret = None THEN "failed" ELSE "genMount")
    /\ mem' = [mem EXCEPT ![p].env = secret]
    /\ UNCHANGED <<req, local, cluster, remote, running, history>>

(* Mutant: a mounts directory that is there is not written again. *)
GenMountOnce(p) ==
    /\ At(p, "genMount")
    /\ secret # None /\ Goto(p, "genCompose")
    /\ mount' = IF mount = None THEN secret ELSE mount
    /\ UNCHANGED <<req, mem, manifest, compose, cluster, remote, running, history>>

GenMount(p) ==
    /\ At(p, "genMount")
    /\ \/ secret = None /\ Goto(p, "failed") /\ UNCHANGED mount
       \/ secret # None /\ Goto(p, "genCompose") /\ mount' = secret
    /\ UNCHANGED <<req, mem, manifest, compose, cluster, remote, running, history>>

(* Mutant: start has no dry run. *)
GenComposeInEarnest(p) ==
    /\ At(p, "genCompose")
    /\ compose' = [svcs |-> mem[p].m.svcs, env |-> mem[p].env]
    /\ Goto(p, "syncDir")
    /\ UNCHANGED <<req, mem, manifest, mount, cluster, remote, running, history>>

GenCompose(p) ==
    /\ At(p, "genCompose")
    /\ compose' = [svcs |-> mem[p].m.svcs, env |-> mem[p].env]
    /\ Goto(p, IF req[p].dry THEN "ok" ELSE "syncDir")
    /\ UNCHANGED <<req, mem, manifest, mount, cluster, remote, running, history>>

Present == {e \in Entries : IF e = "compose" THEN compose # None ELSE mount # None}

AfterEntry(list) ==
    CASE list = {} -> "up" [] "compose" \in list -> "read" [] OTHER -> "mkdir"

(* Sync makes the remote directory and lists the local one.  If that is    *)
(* gone, LocalFS.ReadDir fails and S3FS.ReadDir lists nothing.             *)
SyncDir(p) ==
    LET h == mem[p].host IN
    /\ At(p, "syncDir")
    /\ rdir' = [rdir EXCEPT ![h] = TRUE]
    /\ \/ Goto(p, AfterEntry(Present)) /\ mem' = [mem EXCEPT ![p].list = Present]
       \/ Present = {} /\ manifest = None /\ Goto(p, "failed") /\ UNCHANGED mem
    /\ UNCHANGED <<req, local, cluster, rcompose, rmount, running, history>>

(* For an entry that is a directory, upload makes the remote one, with its *)
(* parents, and goes down into it.                                         *)
MakeMounts(p) ==
    LET h == mem[p].host IN
    /\ At(p, "mkdir")
    /\ \/ mount = None /\ Goto(p, "failed") /\ UNCHANGED rdir
       \/ mount # None /\ Goto(p, "read") /\ rdir' = [rdir EXCEPT ![h] = TRUE]
    /\ UNCHANGED <<req, mem, local, cluster, rcompose, rmount, running, history>>

(* A file is read whole, then the remote one is opened, which truncates    *)
(* it, then it is written.  A directory that a bucket no longer has lists  *)
(* nothing and so has nothing to upload.                                   *)
ReadEntry(p) ==
    LET e == Entry(mem[p].list)  x == IF e = "compose" THEN compose ELSE mount IN
    /\ At(p, "read")
    /\ \/ x = None /\ Goto(p, "failed") /\ UNCHANGED mem
       \/ x = None /\ e = "mount" /\ Goto(p, "up") /\ mem' = [mem EXCEPT ![p].list = {}]
       \/ x # None /\ Goto(p, "create") /\ mem' = [mem EXCEPT ![p].file = x]
    /\ UNCHANGED <<req, local, cluster, remote, running, history>>

Put(h, e, x) ==
    /\ rcompose' = IF e = "compose" THEN [rcompose EXCEPT ![h] = x] ELSE rcompose
    /\ rmount' = IF e = "mount" THEN [rmount EXCEPT ![h] = x] ELSE rmount

(* Mutant: a remote file that cannot be created is tried again. *)
CreateEntryRetrying(p) ==
    LET h == mem[p].host IN
    /\ At(p, "create")
    /\ \/ ~rdir[h] /\ Goto(p, "read") /\ UNCHANGED <<rcompose, rmount>>
       \/ rdir[h] /\ Goto(p, "write") /\ Put(h, Entry(mem[p].list), Empty)
    /\ UNCHANGED <<req, mem, local, cluster, rdir, running, history>>

CreateEntry(p) ==
    LET h == mem[p].host IN
    /\ At(p, "create")
    /\ \/ ~rdir[h] /\ Goto(p, "failed") /\ UNCHANGED <<rcompose, rmount>>
       \/ rdir[h] /\ Goto(p, "write") /\ Put(h, Entry(mem[p].list), Empty)
    /\ UNCHANGED <<req, mem, local, cluster, rdir, running, history>>

(* Services that run on h and that compose file c does not list: neither   *)
(* "docker compose down" nor "stop" will reach them through c.             *)
Dropped(h, c) == {<<h, s>> : s \in {t \in Service : running[h][t] # None /\ t \notin c.svcs}}

(* Writing x from the start of a file that holds old: if another process   *)
(* has written since it was truncated, and more than x, its end stays.     *)
Written(old, x) == IF old \in {Empty, x} THEN {x} ELSE {x, Torn}

(* A file that was removed while it was open takes the write with it.      *)
WriteEntry(p) ==
    LET h == mem[p].host  e == Entry(mem[p].list)  x == mem[p].file
        old == IF e = "compose" THEN rcompose[h] ELSE rmount[h]
        rest == mem[p].list \ {e} IN
    /\ At(p, "write")
    /\ \/ /\ Goto(p, AfterEntry(rest))
          /\ mem' = [mem EXCEPT ![p].list = rest, ![p].file = None]
          /\ \E y \in (IF x = None THEN {old} ELSE Written(old, x)) :
                /\ Put(h, e, y)
                /\ stray' = IF e = "compose" /\ y \in Compose
                            THEN stray \union Dropped(h, y) ELSE stray
       \/ /\ Faults /\ x # None
          /\ Put(h, e, Torn)
          /\ Goto(p, "failed") /\ UNCHANGED <<mem, stray>>
    /\ UNCHANGED <<req, local, cluster, rdir, running, abandoned>>

Deployment(c) == [s \in Service |-> IF s \in c.svcs THEN c.env ELSE None]
Reachable(h) == rdir[h] /\ rcompose[h] \in Compose

(* Mutant: "up" with the compose file as this command generated it. *)
UpFromMemory(p) ==
    LET h == mem[p].host  c == [svcs |-> mem[p].m.svcs, env |-> mem[p].env] IN
    /\ At(p, "up")
    /\ Goto(p, "ok")
    /\ running' = [running EXCEPT ![h] = Deployment(c)]
    /\ stray' = stray \ ({h} \X Service)
    /\ UNCHANGED <<req, mem, local, cluster, remote, abandoned>>

(* "docker compose up -d --remove-orphans"; a failing one may have changed *)
(* any of the containers.                                                  *)
Up(p) ==
    LET h == mem[p].host  c == rcompose[h] IN
    /\ At(p, "up")
    /\ \/ ~Reachable(h) /\ Goto(p, "failed") /\ UNCHANGED <<running, stray>>
       \/ /\ Reachable(h) /\ Goto(p, "ok")
          /\ running' = [running EXCEPT ![h] = Deployment(c)]
          /\ stray' = stray \ ({h} \X Service)
       \/ /\ Faults /\ Reachable(h) /\ Goto(p, "failed")
          /\ \E done \in SUBSET Service :
                running' = [running EXCEPT ![h] = [s \in Service |->
                    IF s \in done THEN Deployment(c)[s] ELSE running[h][s]]]
          /\ UNCHANGED stray
    /\ UNCHANGED <<req, mem, local, cluster, remote, abandoned>>

-----------------------------------------------------------------------------
(* pause, and the pause that stop and delete begin with *)

PauseNs(p) ==
    /\ At(p, "pauseNs")
    /\ Goto(p, IF ns = None THEN "failed" ELSE IF req[p].dry THEN "ok" ELSE "testDir")
    /\ mem' = [mem EXCEPT ![p].host = ns]
    /\ UNCHANGED <<req, local, cluster, remote, running, history>>

AfterPause(p) == IF req[p].verb = "pause" THEN "ok" ELSE "stopNs"

(* An SSH failure of a probe reads as "the file is not there".             *)
Probe(p, there, next) ==
    LET h == mem[p].host IN
    \/ there /\ Goto(p, next) /\ UNCHANGED stray
    \/ ~there /\ Goto(p, AfterPause(p)) /\ UNCHANGED stray
    \/ /\ Faults /\ there /\ Goto(p, AfterPause(p))
       /\ stray' = stray \union {<<h, s>> : s \in {t \in Service : running[h][t] # None}}

TestDir(p) ==
    /\ At(p, "testDir")
    /\ Probe(p, rdir[mem[p].host], "testFile")
    /\ UNCHANGED <<req, mem, local, cluster, remote, running, abandoned>>

(* Mutant: it looks for a compose file under another name. *)
TestFileMisnamed(p) ==
    /\ At(p, "testFile")
    /\ Probe(p, FALSE, "down")
    /\ UNCHANGED <<req, mem, local, cluster, remote, running, abandoned>>

TestFile(p) ==
    /\ At(p, "testFile")
    /\ Probe(p, rdir[mem[p].host] /\ rcompose[mem[p].host] # None, "down")
    /\ UNCHANGED <<req, mem, local, cluster, remote, running, abandoned>>

(* Mutant: the error of "down" is not returned. *)
DownUnchecked(p) ==
    LET h == mem[p].host  c == rcompose[h] IN
    /\ At(p, "down")
    /\ Goto(p, AfterPause(p))
    /\ \/ ~Reachable(h) /\ UNCHANGED running
       \/ Reachable(h) /\ \E S \in SUBSET c.svcs :
             running' = [running EXCEPT ![h] = [s \in Service |->
                            IF s \in S THEN None ELSE running[h][s]]]
    /\ UNCHANGED <<req, mem, local, cluster, remote, history>>

(* "docker compose down" removes the containers of the services that the   *)
(* compose file on the host lists, and no others.                          *)
Down(p) ==
    LET h == mem[p].host  c == rcompose[h]
        Without(S) == [running EXCEPT ![h] = [s \in Service |->
                          IF s \in S THEN None ELSE running[h][s]]] IN
    /\ At(p, "down")
    /\ \/ ~Reachable(h) /\ Goto(p, "failed") /\ UNCHANGED running
       \/ Reachable(h) /\ Goto(p, AfterPause(p)) /\ running' = Without(c.svcs)
       \/ /\ Faults /\ Reachable(h) /\ Goto(p, "failed")
          /\ \E S \in SUBSET c.svcs : running' = Without(S)
    /\ UNCHANGED <<req, mem, local, cluster, remote, history>>

-----------------------------------------------------------------------------
(* stop and delete *)

StopNs(p) ==
    /\ At(p, "stopNs")
    /\ Goto(p, IF ns = None THEN "failed" ELSE "rmRemote")
    /\ mem' = [mem EXCEPT ![p].host = ns]
    /\ UNCHANGED <<req, local, cluster, remote, running, history>>

(* Mutant: delete goes on when the remote files could not be removed. *)
RmRemoteUnchecked(p) ==
    LET h == mem[p].host IN
    /\ At(p, "rmRemote")
    /\ \E done \in BOOLEAN : rdir' = [rdir EXCEPT ![h] = ~done]
    /\ rcompose' = [rcompose EXCEPT ![h] = None]
    /\ rmount' = [rmount EXCEPT ![h] = None]
    /\ Goto(p, IF req[p].verb = "delete" THEN "rmLocal" ELSE "ok")
    /\ UNCHANGED <<req, mem, local, cluster, running, history>>

(* The entries that are removed, and the uploads that have them open.      *)
Unlink(h, gone) ==
    /\ rcompose' = [rcompose EXCEPT ![h] = IF "compose" \in gone THEN None ELSE @]
    /\ rmount' = [rmount EXCEPT ![h] = IF "mount" \in gone THEN None ELSE @]
    /\ mem' = [q \in Proc |->
                 IF pc[q] = "write" /\ mem[q].host = h /\ Entry(mem[q].list) \in gone
                 THEN [mem[q] EXCEPT !.file = None] ELSE mem[q]]

RmRemote(p) ==
    LET h == mem[p].host IN
    /\ At(p, "rmRemote")
    /\ \/ /\ rdir' = [rdir EXCEPT ![h] = FALSE] /\ Unlink(h, Entries)
          /\ Goto(p, IF req[p].verb = "delete" THEN "rmLocal" ELSE "ok")
       \/ /\ Faults /\ Goto(p, "failed") /\ UNCHANGED rdir
          /\ \E gone \in SUBSET Entries : Unlink(h, gone)
    /\ UNCHANGED <<req, local, cluster, running, history>>

DeleteExists(p) ==
    /\ At(p, "delExists")
    /\ Goto(p, IF manifest = None THEN "failed" ELSE IF req[p].dry THEN "ok" ELSE "confirm")
    /\ UNCHANGED <<req, mem, local, cluster, remote, running, history>>

Confirm(p) ==
    /\ At(p, "confirm")
    /\ Goto(p, IF req[p].consent \in {"yes", "answeredY"} THEN "pauseNs" ELSE "failed")
    /\ UNCHANGED <<req, mem, local, cluster, remote, running, history>>

Drop(gone) ==
    /\ manifest' = IF "manifest" \in gone THEN None ELSE manifest
    /\ compose' = IF "compose" \in gone THEN None ELSE compose
    /\ mount' = IF "mount" \in gone THEN None ELSE mount

(* RemoveAll removes file by file: a failing one leaves any of them.       *)
RmLocal(p) ==
    /\ At(p, "rmLocal")
    /\ \/ Drop(LocalFiles) /\ Goto(p, "ok")
       \/ Faults /\ Goto(p, "failed") /\ \E gone \in SUBSET LocalFiles : Drop(gone)
    /\ UNCHANGED <<req, mem, cluster, remote, running, history>>

-----------------------------------------------------------------------------
(* Commands on the secret and the namespace of the App.  Each writes or    *)
(* removes local files only, and is one step here.                         *)

Other(command) ==
    /\ command \in Others
    /\ Exclusive => Quiet
    /\ UNCHANGED <<remote, running, proc, stray>>

(* "apply secret" and "delete secret" *)
WriteSecret ==
    /\ Other("apply secret")
    /\ secret' \in (Secret \union {None}) \ {secret}
    /\ UNCHANGED <<ns, local, abandoned>>

(* Hosts that hold files of the App and that its namespace points to. *)
Deployed == {h \in Host : rdir[h] /\ ns = h}

ApplyNamespace ==
    /\ Other("apply namespace")
    /\ ns' \in Host \ {ns}
    /\ abandoned' = abandoned \union Deployed
    /\ UNCHANGED <<secret, local>>

DeleteNamespace ==
    /\ Other("delete namespace")
    /\ ns # None
    /\ \E gone \in (IF Faults THEN SUBSET NamespaceFiles ELSE {NamespaceFiles}) :
        /\ ns' = IF "ns" \in gone THEN None ELSE ns
        /\ secret' = IF "secret" \in gone THEN None ELSE secret
        /\ abandoned' = IF gone \intersect {"ns", "manifest"} = {}
                        THEN abandoned ELSE abandoned \union Deployed
        /\ Drop(gone)

-----------------------------------------------------------------------------
Upload(p) == MakeMounts(p) \/ ReadEntry(p) \/ CreateEntry(p) \/ WriteEntry(p)
Start(p) == \/ GetOne(p) \/ LoadNs(p) \/ GenEnv(p) \/ GenMount(p) \/ GenCompose(p)
            \/ SyncDir(p) \/ Upload(p) \/ Up(p)
Pause(p) == PauseNs(p) \/ TestDir(p) \/ TestFile(p) \/ Down(p)
Stop(p) == StopNs(p) \/ RmRemote(p)
Delete(p) == DeleteExists(p) \/ Confirm(p) \/ RmLocal(p)
Write(p) == ApplyExists(p) \/ ApplyWrite(p) \/ ImportExists(p) \/ ImportWrite(p)

Work(p) == Start(p) \/ Pause(p) \/ Stop(p) \/ Delete(p) \/ Write(p)

Next ==
    \/ \E p \in Proc : Begin(p) \/ Work(p) \/ Fail(p) \/ Leave(p)
    \/ WriteSecret \/ ApplyNamespace \/ DeleteNamespace

Spec == Init /\ [][Next]_vars

(* Every step ends and the process then exits: SSH connects with a 5 second *)
(* timeout, and the commands run on the host are taken to return.           *)
Fairness == \A p \in Proc : WF_vars(Work(p)) /\ WF_vars(Leave(p))
FairSpec == Spec /\ Fairness

-----------------------------------------------------------------------------
(* Properties of commands that are issued one at a time (Exclusive), each  *)
(* of which may fail or be killed at any step.                             *)

(* No App files are left on a host that nothing in the data directory      *)
(* points to: as long as the remote directory exists, the namespace and    *)
(* the App manifest that lead a later stop or delete to it exist, however  *)
(* often start, stop and delete broke off.  Only moving or deleting the    *)
(* namespace itself leaves files behind.                                   *)
FilesAccounted ==
    \A h \in Host : rdir[h] => h \in abandoned \/ (ns = h /\ manifest # None)

(* A container can be stopped by a later "docker compose down" through the *)
(* compose file on its host (after a new upload, if that broke off).       *)
(* It loses this handle in two ways only, recorded in stray: a pause took  *)
(* a failing probe for "not deployed", or an upload without a successful   *)
(* "up" replaced the compose file by one without its service.              *)
Handle(h, s) ==
    rdir[h] /\ (\/ rcompose[h] \in {Empty, Torn}
                \/ rcompose[h] \in Compose /\ s \in rcompose[h].svcs)

ContainersHaveHandle ==
    \A h \in Host, s \in Service :
        running[h][s] # None => <<h, s>> \in stray \/ Handle(h, s)

(* A start or apply that reports success has converged, whatever earlier   *)
(* commands left behind: the host has the compose file and the mounts made *)
(* from the current manifest and secret, and runs exactly its services.    *)
StartConverges ==
    \A p \in Proc :
        pc[p] = "ok" /\ req[p].verb \in {"apply", "start"} /\ ~req[p].dry =>
            /\ req[p].verb = "apply" => manifest.svcs = req[p].svcs
            /\ ns # None /\ rdir[ns]
            /\ rcompose[ns] = [svcs |-> manifest.svcs, env |-> secret]
            /\ rmount[ns] = secret
            /\ running[ns] = Deployment(rcompose[ns])

(* After a pause, stop or delete that reports success only containers that *)
(* had lost their handle still run, and stop has removed the remote        *)
(* directory, and delete the local one.                                    *)
StopLeavesOnlyStrays ==
    \A p \in Proc :
        pc[p] = "ok" /\ req[p].verb \in {"pause", "stop", "delete"} /\ ~req[p].dry =>
            /\ ns # None
            /\ \A s \in Service : running[ns][s] # None => <<ns, s>> \in stray
            /\ req[p].verb # "pause" => ~rdir[ns]
            /\ req[p].verb = "delete" => <<manifest, compose, mount>> = <<None, None, None>>

(* What the two invariants above rest on: at most one command is under way *)
(* and what it has read still holds when it acts on it.                    *)
Solo == \A p, q \in Proc : pc[p] # "idle" /\ pc[q] # "idle" => p = q

Paused == {"stopNs", "rmRemote", "rmLocal"}

Current(p) ==
    /\ pc[p] \in KnowsManifest => manifest # None /\ mem[p].m = manifest
    /\ pc[p] \in KnowsHost => ns # None /\ mem[p].host = ns
    /\ pc[p] \in UploadSteps \union {"up"} => rdir[ns]
    /\ pc[p] \in Paused => \A s \in Service : running[ns][s] # None => <<ns, s>> \in stray
    /\ pc[p] = "rmLocal" => ~rdir[ns]

ReadsAreCurrent == \A p \in Proc : Current(p)

(* Properties of commands that interleave. *)

(* A dry run, and a delete whose prompt was not answered with yes, change  *)
(* neither a manifest nor anything on a host, at none of their steps.      *)
Harmless(r) == r.dry \/ (r.verb = "delete" /\ r.consent \in {"answeredN", "noTTY"})

HarmlessCommands ==
    [][\A p \in Proc :
        req[p] # None /\ Harmless(req[p]) /\ pc'[p] # pc[p] =>
            UNCHANGED <<manifest, cluster, remote, running>>]_vars

(* p has truncated the compose file of h, or gone past it, and its "up" is *)
(* still to come.                                                          *)
Replacing(p, h) ==
    /\ mem[p].host = h
    /\ \/ pc[p] \in {"write", "mkdir", "up"}
       \/ pc[p] \in {"read", "create"} /\ "compose" \notin mem[p].list

(* Commands that overlap, where no call fails, however the reads,           *)
(* truncations and writes of the one compose file interleave: when the last *)
(* start is done with it, the host runs exactly what the file says (never   *)
(* one command's file and another's containers); or that start reports     *)
(* failure, because the file is gone or a mix that nothing can read, or     *)
(* because a delete has taken away what was to be uploaded.                 *)
OverlappingStartsSettle ==
    [][\A h \in Host :
        (\E p \in Proc : Replacing(p, h)) /\ (\A p \in Proc : ~Replacing(p, h)') =>
            \/ rcompose'[h] \in Compose /\ running'[h] = Deployment(rcompose'[h])
            \/ /\ rcompose'[h] \notin Compose \/ mount = None
               /\ \E p \in Proc : Replacing(p, h) /\ pc'[p] = "failed"]_vars

(* Every command returns, whatever the others do to its files.             *)
EveryCommandReturns == \A p \in Proc : pc[p] # "idle" ~> pc[p] = "idle"

(* What the documents say. *)

(* "Delete app ... (stops containers and removes remote files)?"           *)
(* (app_delete.go): after a successful delete, nothing of the App runs.    *)
DeleteStopsContainers ==
    \A p \in Proc :
        pc[p] = "ok" /\ req[p].verb = "delete" /\ ~req[p].dry =>
            \A s \in Service : running[ns][s] = None

=============================================================================
