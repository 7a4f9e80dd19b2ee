# A verification development for walheim-go

`whctl` keeps Docker Compose apps on a handful of machines. It is not a daemon:
each command is a process that reads and writes a *data directory* (local, or
an S3 bucket), drives remote hosts over SSH and SFTP, and exits. No lock is
taken anywhere; what the next command finds is whatever the last one left,
finished or not. The TLA+ modules here model that: every access to the data
directory or to a host is a step, and between two steps another command may
run, the call may fail, or the process may be killed.

## Inventory

`R` is `src/internal/resources/walheim/v1alpha1`.

| component | state it keeps | operations | what is hard | what makes it correct | module |
|---|---|---|---|---|---|
| **App lifecycle** `R/app_deploy.go`, `app_apply.go`, `app_import.go`, `app_delete.go` | `.app.yaml`, generated `docker-compose.yml` and `mounts/`; on the host the App's directory and its containers | apply, import, start, pause, stop, delete, pull, logs, exec | half-done deployments, failing probes, torn uploads, overlapping commands | nothing on a host is lost track of; a success means converged | `AppLifecycle` |
| **Compose generation** `R/app_compose.go`, `job_compose.go`, `daemonset_compose.go` | none (reads secrets and config maps) | generateCompose and its two variants, injectComposeMounts | three layers write to one environment; sources change between two reads; one goroutine per namespace | one order of precedence; labels that tell the truth; mounts that are there | `ComposeEnv`, `AppLifecycle` |
| **Doctor** `src/internal/doctor`, `R/*_doctor.go` | none | doctor | reads what others write | it foresees what cannot be generated | `ComposeEnv` |
| **DaemonSets** `R/daemonset_*.go` | `.daemonset.yaml`, one generated compose file per namespace (the *marker* of a deployment), directories and containers on each host | apply, start, stop, delete | one goroutine per namespace, partial failure, changing labels, namespaces that vanish | every deployment keeps its marker; start reconciles | `DaemonSetReconcile` |
| **Namespaces** `R/namespace_*.go` | `.namespace.yaml` (host, base directory, labels) and everything below it | create, apply, delete, describe, doctor | a namespace moves or goes while Apps are deployed | no files lose their owner | `Manifests`, `AppLifecycle` |
| **Secrets, ConfigMaps, Jobs** `R/secret.go`, `configmap.go`, `job_*.go` | their manifests | apply, get, delete, doctor; run of a Job | change between two reads of a start | | `Manifests`, `ComposeEnv` |
| **Manifest files and dispatch** `src/internal/manifest`, `cmd/whctl/main.go` | none | apply, delete, start with `-f` | order of documents, abort half-way | a complete set applies, in whatever order it is written; running it again completes it | `Manifests` |
| **Labels and edit** `src/internal/labels`, `cmd/whctl/label.go`, `edit.go` | manifests | label, edit | read, change, write back without a lock | a command does what it was asked at some instant | `Manifests`, `ResourceStore` |
| **Contexts** `src/internal/config`, `cmd/whctl/context.go` | `~/.walheim/config` | new, use, delete, list, current, export | overlapping writers; a file that fails to be read is replaced | no context is lost; the file is sound | `Contexts`; export in `Manifests` |
| **Status** `R/app_status.go`, `job_handler.go`, `daemonset_describe.go`, `namespace_describe.go` | none | get, describe | one goroutine per host, one shared map, several reads of a tree that changes | what is shown was so | `HostStatus` |
| **Upload** `src/internal/rsync` | remote files | Sync | not atomic: truncate, then write; remote-only files stay | | `AppLifecycle`, `DaemonSetReconcile` |
| **SSH client** `src/internal/ssh` | none | Run, RunOutput, Exec | an error may mean "no" or "no connection"; no timeout but for connecting | | all that reach hosts |
| **Data directory** `src/internal/fs` | files or S3 objects | ReadFile, WriteFile, RemoveAll, Exists, IsDir, ReadDir | RemoveAll is not atomic; S3 has no directories and deletes key by key | both backends look alike to their callers | `Manifests` |
| Registry, output, version | none | tables, JSON and YAML | | | |

The parts interact through files only. A start reads the namespace manifest,
the App manifest and the secrets, writes the generated files, hands the App's
directory to the upload and runs `docker compose up` over SSH. `apply` is a
manifest write followed by a start; `stop` is a pause followed by `rm -rf`;
`delete` is a stop followed by the removal of the local directory.

## Modules

| module | what it is |
|---|---|
| `AppLifecycle` | one App of one namespace, any number of overlapping commands |
| `AppLifecycle_proofs` | type correctness; harmless commands; overlapping starts settle |
| `AppSerial_proofs` | commands one at a time: files, handles, current reads |
| `AppOutcome_proofs` | commands one at a time: what a reported success means |
| `DaemonSetReconcile` | one DaemonSet, its namespaces, one goroutine per namespace |
| `DaemonSetReconcile_proofs` | types, markers, stops, starts |
| `Contexts` | the configuration file and the commands that read and write it |
| `Contexts_proofs` | types, a sound file, contexts and selection kept |
| `ResourceStore` | abstract: what a command on manifests promises, whatever it does underneath |
| `Manifests` | the commands on the tree of manifests, in a directory or a bucket |
| `Manifests_proofs` | types; `Manifests` implements `ResourceStore`; what apply, delete and export achieve |
| `HostStatus` | the commands that show what runs |
| `HostStatus_proofs` | types; what is shown was so |
| `ComposeEnv` | generation of a compose file, goroutine by goroutine, and doctor |
| `ComposeEnv_proofs` | types, precedence, audit labels, mounts, namespaces apart, doctor |
| `MC...` | for each of the six detailed modules, the instance TLC checks |

`AppLifecycle` and `DaemonSetReconcile` have the access to hosts in detail,
`Manifests` the tree of manifests (starting and stopping an App is one step
there), `ComposeEnv` what goes into the compose file, which in `AppLifecycle`
is one value.

### AppLifecycle

State: `ns` (the host the namespace manifest names), `manifest`, `secret`,
`compose` and `mount` are the files of the data directory; `rdir`, `rcompose`,
`rmount` the App's directory on each host, `running` its containers with the
secret they were started with. A process has a program counter `pc`, its
command line `req` and what it has read, `mem`. A manifest is the set of
services it defines; a compose file is that set and the secret in its
environment; names, images and texts are left out.

Each action is one access, named after the code around it:

* `GetOne`, `LoadNs`, `GenEnv`, `GenMount`, `GenCompose`, `SyncDir`,
  `MakeMounts`, `ReadEntry`, `CreateEntry`, `WriteEntry`, `Up` are runStart. The
  secret is read twice (`GenEnv` for the environment, `GenMount` for the mounted
  files), and a dry run ends after `GenCompose`, where the code ends it. `Up`
  uses the compose file it finds on the host.
* The upload of a file is three accesses (`rsync.go:105`): the local file is
  read, the remote one opened, which truncates it (`Empty`), then written. Other
  processes come in between: a write over what another has written since may
  leave a mix of the two (`Torn`, as does an upload that breaks off), and a file
  that is removed while it is open takes the write with it (`Unlink`).
* `PauseNs`, `TestDir`, `TestFile`, `Down` are runPause. A probe that fails for
  any reason takes the branch "not there", as in the code. `Down` reaches the
  services the compose file *on the host* lists (there is no
  `--remove-orphans`) and fails without a readable one.
* `StopNs`, `RmRemote` complete runStop; `DeleteExists`, `Confirm`, `RmLocal`
  surround it in runDelete; `ApplyExists`/`ApplyWrite` and
  `ImportExists`/`ImportWrite` are runApply (which goes on with runStart) and
  runImport.
* `Fail` is a call that returned an error without an effect; a failing upload,
  `up`, `down`, `rm -rf` or RemoveAll may have had any part of its effect.
  `Leave` is the end of the process: after it returned or, with `Faults`, at
  any step.
* `WriteSecret`, `ApplyNamespace`, `DeleteNamespace` are commands on the
  objects the App refers to.

`stray` and `abandoned` are history variables. They record the only ways in
which a container may lose the compose file that can stop it, and a host its
namespace; the invariants say that there is no other way.

Constants: `Exclusive` issues commands one at a time; `Faults` switches failing
calls and kills on.

### DaemonSetReconcile

State: `label[n]` (whether namespace `n` matches the selector, or is gone),
`manifest`, `marker[n]` (the local `docker-compose.yml` for `n`, which is what
deployedNamespaces looks for), the directory, compose file and containers on
each host, the command (`pc`, `req`, `mem`) and one goroutine per namespace
(`worker[n]`). `Match`, `ReadDeployed`, `WaitRemoved`, `StartDeploy`,
`WaitDeployed` are runStart, `StopDeployed`, `WaitStopped` runStop,
`DeleteExists`, `Confirm`, `RmDir` runDelete. `Load`, `Test`, `Down`,
`RmRemote`, `RmLocal` are stopInNamespace, and `Gen`, `MkDir`, `Put`, `Up` the
goroutine of a deployment. The history variables `blind` (namespaces this
command overlooked because a listing skipped them) and `lost` (deployments that
lost their marker) name the exceptions the code makes.

### Contexts

State: `file` (absent, torn or written, with a sequence of contexts and the
current one), `nsDir` (of the `namespaces` directory of each local context: absent,
there, or "passed", that is, `context new` went on without it, because a file has
that name or `os.Stat` failed otherwise than with "does not exist",
`context.go:185`);
per process the step, the command line and what it has `seen` of the file,
which is the configuration it changes in memory. `Prepare`, `Load`,
`LoadFails`, `Truncate`, `WriteSkeleton`, `Ping`, `Save` are `context new` in
the order of `context.go:154`; `use` and `delete` are `Load` and `Save`;
`Resolve` is every other command. `Truncate` and `WriteSkeleton` are
`config.Init`, an `os.WriteFile` in place, which loadOrInitConfig runs when
loading fails *for whatever reason*, though its comment says "if missing"
(`context.go:375`). `Save` renames a temporary file. `HandEdit` is the user.

History: `made` (contexts added and not deleted), `selected` (the context
activated last), `edited`, and `excused`: one of four things has happened after
which contexts may be lost, namely a process overwrote a file it had not read,
the name added was the empty string, a readable file failed to be read (and was
replaced by a skeleton), or the user left an unknown current context. The
invariants say that there is no fifth.

### Manifests and ResourceStore

State: `backend`, `manifest[o]` of every object (a version and whether it
carries the label), the objects with `generated` files, the Apps `running`; per
process the step, the command, the documents `left` and `cur`rent, the `keys` a
removal has listed, the value `seen` by label or edit, what export still has
`toread` and has `shown`. `NextDocument` takes the documents of a file in the
order `Sorted` gives, the stable sort of `main.go:434` including what a document
of unknown kind does to it. `ApplyExists`, `WriteManifest`, `StartApp` are apply, create and start; `DeleteExists`, `Confirm`, `StopApp`, `ListKeys`,
`RemoveFile`, `RemoveDone` delete (`StopApp` reads the namespace, not the App, and
a failing probe of it reads as "not deployed": the history `overlooked` records
the Apps that run on); `ReadLabels`/`SaveLabels` label;
`OpenEditor`/`CloseEditor` edit, which goes on as an apply; `ListNamespaces`,
`ListOne`, `ReadOne`, `ListedAll` export. A bucket is listed once and deleted
key by key, and `SkipKey` is a key that DeleteObjects refused, which the code
does not see (`s3.go:184`); a directory is walked until it is empty.

`ResourceStore` is the promise: a command is a set of operations (put, update,
relabel, remove); it changes one object at a time, as one of its operations
says on a value the object had since the command began; it reports success
only if each operation was done. `Manifests` maps to it by its documents
(`Batch`), with the history variable `witnessed`, every value an object had
since a command began. A lost update is allowed by this promise, and it is what
the code does: label and edit write back a value that may be gone. A removal
that skipped a key (`skipped`) is mapped to a failure, which is the one place
where the code reports more than it did.

### HostStatus

State: the world (`home`, the host of each namespace; `local`, the objects;
`state` of each container; hosts that are `up`), which `Elsewhere` changes
beside the command; the command, the namespaces `asked` about, the manifests
still `toload`, one goroutine in `tasks` per host (of Apps and Jobs) or
namespace (of a DaemonSet), the namespaces `answered`, the `results` map, the
names being listed, the `rows` shown. `LoadNext`, `Loaded`, `Fetch`, `Merge`,
`Fetched` are prefetchStatus and prefetchJobStatus: one goroutine for the first
namespace on each host, merging under a lock. `ListOne`, `Listed` are
listNamespace; `Match`, `Answer`, `Answered` describe of a DaemonSet;
`Connect`, `LocalApps`, `LocalDaemonSets`, `Collect` describe of a namespace.
`Summary`, `RunStatus`, `AppState` are the three ways the code sums up the
states of containers. The history variable `was` holds what was so at some
instant since the command began, and apart from that what the command failed to
read (`unread`, `unloaded`); the properties compare what is shown to it.

### ComposeEnv

State: the `backend`, the `manifest`, what each source holds (`store`; only a
Secret has stringData), mounted `files` and `dirs` (in a bucket MkdirAll does
nothing, and a directory is there when a file in it is), the `compose` file of
each namespace; one goroutine per namespace in
`task`, its copy of the services in `copies`; what doctor found. `EnvFrom`,
`Env`, `Mount`, `WriteMountFile`, `AddVolume`, `WriteCompose` follow
generateCompose and injectComposeMounts entry by entry, each with its own read
of a source, and `Elsewhere` changes sources in between. A service that is not
in the manifest has no map to write to: the program panics, with every
goroutine. `Doctor` looks at one kind at a time. The history variables `read`, `held` and `ever` say what each entry read and
what the sources held, since the command began and at any time: files of keys
that a source no longer has are not removed, so they can be of any earlier run.

## Runs

| run | instance | distinct states | what it checks |
|---|---|---|---|
| `AppSerial` | 1 host, 2 services, 2 secrets, one command at a time, faults | 11.4 million | `TypeOK`; `ContainersHaveHandle`; `StartConverges`; `StopLeavesOnlyStrays` |
| `AppMoves` | 2 hosts, 1 service, one command at a time, faults | 7.4 million | `FilesAccounted`; `ReadsAreCurrent` |
| `AppOverlap` | 2 processes that apply, stop or delete, 2 services, dry runs and refused deletes among them | 0.9 million | `HarmlessCommands` (every step); `OverlappingStartsSettle` (every step); `EveryCommandReturns` (liveness) |
| `DsReconcile` | 2 namespaces, 2 versions, faults | 5.5 million | `TypeOK`; `DeploymentsHaveMarker`; `StartReconciles`; `StopReachesAll`; `OthersDeployed` |
| `Contexts` | 2 processes, 2 names and the empty one, both backends, faults, edits by hand | 6.7 million | `TypeOK`; `FileSound`; `NothingLost`; `SelectionKept`; `ContextsPrepared` |
| `Manifests` | 2 namespaces, 2 versions, 2 processes, a directory and a bucket, faults | 1.1 million | `TypeOK`; `CompleteSetsApply`; `AppliedAll`; `DeletedIsStopped`; `ExportIsTrue` (every step); `StoreSpec` (refinement) |
| `HostStatus` | 2 namespaces on one host or two, 7 containers, 2 changes beside the command, faults | 0.7 million | `TypeOK`; `StatusWasTrue`; `UnknownExplained`; `ListingWasTrue`; `OrphansWereOrphans`; `EveryStatusReturns` (liveness) |
| `ComposeEnv` | 9 manifests, 2 stores, a directory and a bucket, 2 namespaces, 2 services, 2 keys, 2 runs, 1 change, faults | 3.6 million | `TypeOK`; `Precedence`; `AuditExplains`; `MountsServed`; `NamespacesApart`; `DoctorForesees` |
| `AppDeleteDoc`, `DsMatchDoc`, `AppStatusDoc`, `EnvDoc` | small | violated | what a document or comment says and the code does not do, see below |

What they show. Run one at a time, commands may break off anywhere, in any
number: a later start converges, a later stop or delete finds the files, and a
container loses its handle in two ways only (a failing probe; a redeploy without
a dropped service that never came to `up`). Starts that overlap, with each
other, with stops and with deletes, settle where no call fails: when the last
start is done with the compose file of a host, the containers match it, because
`up` reads the file on the host and not what its own process generated; or that
start reports failure, because the file is a mix of two writes or gone, or what
was to be uploaded is. Dry runs and refused deletes never touch a manifest or a
host, whatever runs beside them.

The configuration file stays sound, and a context is lost in the four recorded
ways only. However documents are ordered in a file, a complete set applies, and
running it again completes what broke off; a delete that reports success never
leaves an App running because its namespace went first, only because a failing
probe overlooked it. What a status command shows was so, although it is put
together from many reads: of a Job and of an App under describe at one instant,
of a listing object by object; "Unknown" and "orphan" have a reason, though for
each there is one that the comments exclude (below). Environment variables
follow one order of precedence in every interleaving, though not the documented
one (`EnvDoc`), and the audit labels name the layer of each key. A compose file
just written mounts the files of one instant of each source, beside those of
removed keys.

Bounds. Two services are needed for a dropped service beside a kept one, two
secrets for a change between the two reads, two hosts for a move, two processes
for an overlap; one namespace and one App, because Apps share nothing but the
namespace manifest, its secrets and the host. Two namespaces are enough for a
DaemonSet: goroutines do not interact except through the WaitGroup, so a second
one is "the others" to the first. The runs that expect a violation switch off
what they do not need, failures and changes by others first. TLC's symmetry is
used for services, secrets, hosts and namespaces in runs without liveness
properties only. No counter is unbounded, hence no other bound there.
`MCAppLifecycle` lists the command lines: every verb, with `--yes`; dry runs and
refused prompts in the runs about them.

Two processes are an overlap for `Contexts` and `Manifests`, where every
process does the same to one file or object. In `Manifests` a single process
takes every file (all six orders of a namespace, a secret and an App, repeated
documents, an unknown kind, `-n`, `--dry-run`), and two processes take single
documents, because an overlap needs one object only; `Offers` holds the two
sets. In `HostStatus` a namespace that shares a host and one that does not, a
Job with runs on two hosts and two changes (`Changes`) are enough for a namespace
to move and a container to change in one command. A behaviour is one command, as
a command only reads. In `ComposeEnv` the nine manifests hold each entry in
each position that matters: before and after another, for one service and for
all, for a service that is not there. `Changes` is 1, since each entry is read
once and a second change would have to be between the same two reads; `Runs` is
2, so that a run finds the files of another.

Fairness. `EveryCommandReturns` assumes that each process is scheduled and
exits when it is done, hence `WF` on its steps and on `Leave`. SSH connections
have a timeout of 5 seconds (`ssh/client.go`); the commands run on a host have
none, so that they end is an assumption. Nothing is assumed about other
commands being issued. `EveryStatusReturns` assumes `WF` on the steps of the
command's own goroutines (`Work`), for the same reasons: a host that is down
fails the connection after 5 seconds, one that is up answers.

## Disagreements the runs show

* `AppDeleteDoc`. `delete app` promises to stop the containers
  (`app_delete.go:34`) and a failing hook is to fail the command
  (`design_constraints.md:132`). A failing `test -d` is taken for "not
  deployed" (`app_deploy.go:72`): delete removes both directories, reports
  success, and the containers run.
* `DsMatchDoc`. `matchingNamespaces` skips a namespace it cannot read
  (`daemonset_handler.go:71`); start reports success without it, and removes
  the DaemonSet there if it was deployed.
* `EnvDoc`. An existing value of `environment` is "never overwritten"
  (`design_constraints.md:74`); `spec.env` overwrites it (`app_compose.go:128`).
  `Precedence` states what the code does.
* `AppStatusDoc`. Status is to live in the labels of containers
  (`design_constraints.md:61`); `get app` filters by `walheim.app`
  (`app_status.go:60`), and generateCompose writes `walheim.kind` and
  `walheim.owner` (`app_compose.go:54`). No container is ever found: every App
  of a host that answers shows "NotFound". Nor is reachability recorded "for
  every namespace on this host" (`app_status.go:64`), but for the one the
  goroutine was started with (`:66`): a namespace that shares its host with an
  earlier one shows "Unknown" with `get` of all. The run ends in a state with
  both: two namespaces on one host, "NotFound" in the first and "Unknown" in the
  second, while the containers of both run. `UnknownExplained` has the second as
  its one exception.

Seen while modelling, without a run of their own:

* `start --dry-run` writes the mounts and the compose file (`app_deploy.go:27`)
  before it looks at the flag (`:31`); `main.go:147` says "without making any
  changes".
* Stopping a DaemonSet runs `docker compose down` (`daemonset_handler.go:167`)
  where an App's pause first looks for the compose file (`app_deploy.go:78`):
  after a deploy that broke off between mkdir and upload, every stop and delete
  fails there.
* An object of a bucket that DeleteObjects refuses to delete is not noticed
  (`s3.go:184`).
* `context new` creates `namespaces/` "if missing" (`design_constraints.md:91`).
  It does when `os.Stat` says "does not exist" (`context.go:185`) and looks no
  further: with a file of that name, or after any other error, the context is
  saved without the directory. `ContextsPrepared` allows for it ("passed").
* When `localAppNames` cannot list the Apps of a namespace it returns none
  (`namespace_handler.go:72`), and describe calls every container an orphan.
  `OrphansWereOrphans` has this as its one exception (`unread`).
* The file of a key that was removed from a Secret or ConfigMap stays in the
  mount directory, locally and on the host (`app_compose.go:207`); `MountsServed`
  allows for it (`LeftOver`).
* In a bucket, a mount of an empty source gets no directory (`s3.go:147`), and the
  compose file mounts one that is not there (`NothingToHold`).
* describe of a DaemonSet filters by `walheim.daemonset`
  (`daemonset_describe.go:56`), which nothing writes: always "NotFound".
* A Job is run with `--rm`: when it has finished its container is gone and it
  shows "Never".
* doctor does not look at mounts (an exception in `DoctorForesees`), and with
  `-o json` exits with 0 whatever it found.
* Deleting the last context leaves a file that fails to load, and the next
  `context new` replaces it by a skeleton; nothing is lost with it.
* `stop` in a script without `--yes` goes ahead although
  `design_constraints.md:122` lists it as destructive.

## Proofs

All proofs are for arbitrary (also infinite) sets of processes, hosts,
services, secrets, namespaces, contexts, versions and containers, from the
constant assumptions of the modules (of containers one: any of them have a
latest). Manifests, documents and lists of entries have any length. The theorems
named Serial* also assume `Exclusive`; `StartsSettle` assumes `OnlyStarts`. The
others hold for overlapping commands, with and without `Faults` and `HandEdits`.

* `TypeCorrect` of an App's lifecycle: `TypeOK` is inductive as it stands;
  `MemOK` is the part that is more than types (what a process has read by the
  step that needs it).
* `HarmlessCorrect`: with any overlap, a dry run or refused delete changes no
  manifest and nothing on a host. Inductive invariant `HarmlessInv`: a process
  with such a request is never at a step behind the guard it stops at.
* `StartsSettle` (`OverlappingStartsSettle`): for any number of processes, if no
  call fails, the namespace is not deleted and every command puts (apply,
  import, start) or is harmless, which is `OnlyStarts`, for every set of
  processes, hosts, services and secrets; the last start then fails only for a
  mixed compose file. The run `AppOverlap` checks the property beside stops and
  deletes, which the theorem leaves out. The property is of steps, those that
  leave nobody at work on the compose file of a host. `SettleInv` says, per
  host, that the file is empty or a mix, that the containers match it, or that
  some process that has truncated it has its `up` still to come (`Settling`,
  `Replacing`). That an `up` succeeds needs that what the start made for itself
  is still there (`Loaded`), and that needs that nobody is at a step that takes
  something down (`Upward`).
* `SerialFiles`, `SerialHandles`, `SerialReads`: `SerialInv` joins `Solo` (at
  most one command is under way), `Current` (what it has read still holds) and
  the two invariants themselves. Neither is inductive alone: `rm -rf` keeps
  `FilesAccounted` only because the host it goes to is still the namespace's,
  and keeps `ContainersHaveHandle` only because everything but strays was
  stopped by the time the command is there.
* `SerialConverges`, `SerialStops`: `OutcomeInv` adds `Prepared`, what the
  files and the host look like at each step of a start, and ties each
  outcome to the verb.
* For a DaemonSet, `TypeCorrect`, `MarkersKept` (`DeploymentsHaveMarker`),
  `StopsReachAll`, `StartsReconcile` and `OthersServed` (`OthersDeployed`).
  `MarkerInv` says per namespace what a goroutine relies on: the marker stands
  at every step of a deployment, containers are down before `rm -rf`, and
  nothing is left to lead to by the time the marker is removed (`RowOK`); and
  what a stop has achieved where it has been (`GoneOK`). `StartInv` adds what
  a start has read (`ReadOK`), selected (`SelectOK`) and done in each namespace
  by each phase (`PhaseOK`).
* For the configuration, `FileStaysSound`, `ContextsKept`, `SelectionStays` and
  `LocalContextsPrepared`. `SoundInv` says that every configuration a process
  holds in memory is sound, too, since it replaces the file by a change of it.
  `Kept` joins what is kept with what excludes the exceptions, so that a sound
  file that cannot be read is one that lists nothing (`UnreadableIsEmpty`), and
  its truncation loses nothing.
* `Manifests`' `Refines` (`Spec => StoreSpec`): under the refinement mapping
  every step is a step of `ResourceStore` or a stutter. The invariant
  `WitnessInv` says what of its work a command has done: each document it has
  handled is done (`Doneness`), what label and edit have read was there
  (`Seeing`), and of what a removal of keys goes through, each object is still
  to be deleted or was once absent (`Removing`).
* `CompleteSetsAreApplied`, `SuccessIsApplied`, `SuccessIsStopped` and
  `ExportsAreTrue`: what an apply, a delete or an export has achieved when it
  ends. `OrderInv` says that the documents taken were accepted and come before
  those still to be taken, and `AloneInv` that a process which is said to be
  undisturbed is. From the order follows what `AppliedInv` needs: of two
  documents about one object the later is written later, and a namespace and a
  secret before the App that needs them (`SameKindInOrder`,
  `KnownInRankOrder`); so what `apply` has been through is stored, in its last
  version, and its Apps run. `DeletedInv` says the same of a delete: what it
  has been through does not run, or was overlooked. `ExportInv` rests on `WitnessInv` and not on
  being alone: what is shown was stored, and what is passed over was absent, or
  its namespace was, at some instant since the command began.
* For the generation of compose files, `TypeCorrect`, `PrecedenceHolds`,
  `AuditExplained`, `MountsAreServed`, `NamespacesStayApart` and
  `DoctorHasForeseen`. The inductive invariant has one part per fact about a
  goroutine at its place in the three lists, each of them a statement about one
  namespace that a step of another cannot disturb. `ChosenInv`: each variable
  comes from the layer that the precedence gives it *of the entries done so
  far*, which is `Precedence` once all are done. `AuditInv` and `SourcedInv`
  relate the labels and the values to what sources held, of which `HeldInv`
  says that it contains what they hold now. `OpenedInv` and `ServesInv` follow
  the mounted files: those of the entries done are the ones of one instant of
  their source, and the entry being written is on the way to that; `WrittenInv`
  says that every other file is left over from what its source once held, and
  `EverInv` that the history has it; `SavedInv` says of a compose file on disk,
  which may be of an earlier run, what survives a new run that breaks off: the
  directories it mounts are there, or in a bucket were never to be filled. `RefusedInv`, `ExtraInv` and `PanicInv` are the
  reasons for which a goroutine is refused or panics, `ReportInv` what doctor
  has seen since the last change.
* For the status commands, `StatusTrue`, `UnknownHasReason`, `ListingTrue` and
  `OrphansTrue`. `Inv` joins `NowSeen` (the history holds the present),
  `TaskSound` (a goroutine's host was that of its namespace, its answer was
  so), `ListedSound` (each name is still to be looked at, listed, was gone or failed to
  be read),
  `Covered` (a namespace asked about is still to be read or asked, answered, or
  has a reason not to be) and `ResultsSound` (what was kept of a Job is the
  latest run of one answer). At the end all goroutines are gone, and what
  remains of `Covered` is the reason.

Every invariant and action property that a passing run checks is stated by a
theorem. Only model-checked are `EveryCommandReturns` and `EveryStatusReturns`:
liveness under fairness is out of the prover's reach. The four runs that expect a violation have a counterexample and nothing to prove.

## What is left out

* The command on a host is taken to end when its client is killed; sshd may in
  fact let it run on.
* `SyncDir` is two accesses (mkdir and listing) in one step. A compose file that
  is empty, cut short or a mix of two is taken to be refused by docker compose.
  An App's mounts are one file, and uploads that overlap may leave a mix in it,
  too, of which `OverlappingStartsSettle` says nothing. A mount that a manifest no longer has stays on the host, and is
  harmless since the compose file no longer refers to it; the model has one
  manifest's mounts.
* Commands on a DaemonSet are issued one at a time, so an upload is one step there, a listing is one step, and
  the host of a namespace does not change; a namespace is taken to be one host
  (`README.md:23` of the repository).
* In `Manifests` starting and stopping an App is one step (`AppLifecycle` has
  them), an object of each kind per namespace stands for all of that kind, and
  DaemonSets, which belong to no namespace, are in
  `DaemonSetReconcile` only. Parsing is abstracted to the documents it yields.
* In `Contexts` the fields of a store, apiVersion and kind are left out.
* In `HostStatus` ready counts, image names, docker's version and disk usage
  are left out; in `ComposeEnv` a text is a literal or one variable.
* The temporary file that a killed `LocalFS.WriteFile` leaves (`.tmp-*`) is left
  out. In a mounts directory it would be uploaded with the rest.
* `pull`, `logs`, `exec`, the foreground of a Job's run: they change nothing
  that the modelled commands read.
* Not modelled: authentication, `ssh_config` and fetching a manifest from a URL
  (I/O on the client), the registry, tables, JSON and YAML output, exit codes
  and `version` (no state).

## What could come next

An abstract specification of an App (desired and actual state) that
`AppLifecycle` with `Exclusive` implements; overlapping commands on one
DaemonSet, and on one DaemonSet and a namespace.
