----------------------------- MODULE ComposeEnv -----------------------------
(***************************************************************************)
(* The docker-compose.yml that start (of an App or a DaemonSet) and run (of *)
(* a Job) generate, and doctor, which looks at what they need.  One         *)
(* goroutine per namespace reads Secrets and ConfigMaps, one entry of the   *)
(* manifest after the other, injects their keys, writes mounted files and   *)
(* then the compose file, while others change the sources.                  *)
(*                                                                          *)
(* A text is a literal or one variable: of a value with both, what becomes  *)
(* of the variable is what matters.  An App and a Job have one namespace.   *)
(***************************************************************************)
EXTENDS Naturals, Sequences, FiniteSets

CONSTANTS
    Namespace,  \* namespaces
    Service,    \* names of services
    Key,        \* names of environment variables, keys and mounted files
    Value,      \* literal values
    Ref,        \* references to sources: records of kind and name
    None,       \* no reference, no source, no map, no file
    Broken,     \* a source that does not parse, or holds invalid base64
    Manifests,  \* the manifests that behaviours start with
    Store,      \* what behaviours start with in the place of each source
    Later,      \* what a source is changed to by others
    Changes,    \* bound on the changes of sources
    Runs,       \* bound on the runs of the command
    Faults      \* TRUE: writing may fail, and the command may be killed

Text == [lit : Value \union {None}, var : Key \union {None}]
Lit(v) == [lit |-> v, var |-> None]
Var(k) == [lit |-> None, var |-> k]

(* f, and g where f says nothing. *)
Over(f, g) == [x \in DOMAIN f \union DOMAIN g |-> IF x \in DOMAIN f THEN f[x] ELSE g[x]]

PartialFn(D, R) == UNION {[S -> R] : S \in SUBSET D}
Map(R) == PartialFn(Key, R)
Source == [data : Map(Value), stringData : Map(Value)]
(* Only a Secret has stringData. *)
HeldBy(ref, source) ==
    ref.kind = "ConfigMap" /\ source \notin {None, Broken} => source.stringData = <<>>

(* The manifest: services, entries of envFrom and of mounts, and env.        *)
Services == PartialFn(Service, Map(Text))
Entry == [ref : Ref \union {None}, services : SUBSET Service]
Setting == [name : Key, value : Text, services : SUBSET Service]

(* A copy of the manifest, as changed so far, and the goroutine at work on it. *)
Copy == [label : Namespace, services : PartialFn(Service, Map(Text) \union {None}),
         volumes : [Service -> Seq(Ref)], audit : SUBSET (Service \X (Ref \union {None}) \X Key)]
Task == [step : {"idle", "from", "env", "mount", "file", "done", "refused", "failed", "panic", "killed"},
         at : Nat \ {0}, kv : Map(Text), left : SUBSET Key]

ASSUME ComposeEnvAssumption ==
    /\ Ref \subseteq [kind : {"Secret", "ConfigMap"}, name : STRING]
    /\ None \notin Namespace /\ None \notin Key /\ None \notin Value /\ None \notin Ref
    /\ None \notin Text /\ None \notin Map(Text) /\ None # Broken
    /\ \A m \in Manifests :
         /\ m.kind \in {"App", "Job", "DaemonSet"}
         /\ m.services \in Services \union {None}
         /\ m.envFrom \in Seq(Entry) /\ m.env \in Seq(Setting) /\ m.mounts \in Seq(Entry)
         /\ m.namespaces \in (SUBSET Namespace) \ {{}}
         /\ m.kind # "DaemonSet" => Cardinality(m.namespaces) = 1
         /\ m.kind = "Job" => m.services # None /\ Cardinality(DOMAIN m.services) = 1
    /\ Store \subseteq [Namespace \X Ref -> Source \union {None, Broken}]
    /\ \A st \in Store : \A x \in Namespace \X Ref : HeldBy(x[2], st[x])
    /\ Later \subseteq Source \union {None, Broken}
    /\ Changes \in Nat /\ Runs \in Nat /\ Faults \in BOOLEAN

VARIABLES
    manifest,        \* the manifest
    backend,         \* where the context keeps its data: "local" or "s3"
    store,           \* store[<<ns, ref>>]: the source
    files, dirs,     \* mounted files, and the directories they are in
    compose,         \* compose[ns]: the compose file, or None
    task,            \* task[ns]: a goroutine: step, at, kv and left
    copies,          \* copies[ns]: the manifest's services, as changed so far
    report, checked, \* what doctor found, and the kinds it looked at
    changes, runs,   \* how often sources changed, and the command ran
    read,            \* history: read[ns][i], what entry i of envFrom read
    held, ever       \* history: what sources held since the command began; ever

rest == <<report, checked, changes, runs>>
disk == <<backend, files, dirs, compose>>
history == <<read, held, ever>>
vars == <<manifest, store, disk, task, copies, report, checked, changes, runs, history>>

Tasks == manifest.namespaces
Idle == [step |-> "idle", at |-> 1, kv |-> <<>>, left |-> {}]
Working(ns) == task[ns].step \in {"from", "env", "mount", "file"}
Busy == \E ns \in Namespace : Working(ns)

-----------------------------------------------------------------------------
(* What the sources hold, and what is made of the manifest. *)

Readable(ns, ref) == store[<<ns, ref>>] \notin {None, Broken}

(* A key of stringData comes before that of data. *)
Loaded(source) == LET kv == Over(source.stringData, source.data) IN [k \in DOMAIN kv |-> Lit(kv[k])]

(* A Job has one service, and takes no notice of service names. *)
TargetServices(services, names) ==
    IF manifest.kind = "Job" \/ names = {} THEN DOMAIN services ELSE names

(* A service that is not in the manifest has no map to write to: the program *)
(* panics when it does.                                                      *)
NoMap(services, s) == s \in DOMAIN services => services[s] = None

(* Mutant: what a source holds overwrites what is there. *)
InjectedOver(services, kv, targets) ==
    [s \in DOMAIN services \union targets |->
        IF s \notin targets THEN services[s]
        ELSE IF NoMap(services, s) THEN None ELSE Over(kv, services[s])]

Injected(services, kv, targets) ==
    [s \in DOMAIN services \union targets |->
        IF s \notin targets THEN services[s]
        ELSE IF NoMap(services, s) THEN None ELSE Over(services[s], kv)]

(* Mutant: every key of a source counts as injected. *)
NewKeysAll(services, kv, s) == DOMAIN kv

NewKeys(services, kv, s) == DOMAIN kv \ (IF NoMap(services, s) THEN {} ELSE DOMAIN services[s])

SubstituteVars(text, env) ==
    IF text.var # None /\ text.var \in DOMAIN env THEN env[text.var] ELSE text

Set(services, setting) ==
    [s \in DOMAIN services |->
        IF s \notin TargetServices(services, setting.services) THEN services[s]
        ELSE Over([k \in {setting.name} |-> SubstituteVars(setting.value, services[s])], services[s])]

WithVolume(volumes, ref, targets) ==
    [s \in Service |-> IF s \in targets THEN Append(volumes[s], ref) ELSE volumes[s]]

(* Only an App's services say where their variables come from. *)
Audit(s, ref, keys) == IF manifest.kind = "App" THEN {<<s, ref, k>> : k \in keys} ELSE {}

Finding == [check : {"no-services", "missing", "unknown-service", "no-ref", "invalid", "empty"},
            severity : {"error", "warning"}]

TypeOK ==
    /\ manifest \in Manifests /\ backend \in {"local", "s3"}
    /\ store \in [Namespace \X Ref -> Source \union {None, Broken}]
    /\ files \in [Namespace \X Ref \X Key -> Text \union {None}]
    /\ dirs \subseteq Namespace \X Ref
    /\ compose \in [Namespace -> Copy \union {None}]
    /\ copies \in [Namespace -> Copy \union {None}]
    /\ task \in [Namespace -> Task]
    /\ \A ns \in Namespace :
         /\ task[ns].step = "from" => task[ns].at <= Len(manifest.envFrom) + 1
         /\ task[ns].step = "env" => task[ns].at <= Len(manifest.env) + 1
         /\ task[ns].step \in {"mount", "file"} => task[ns].at <= Len(manifest.mounts) + 1
         /\ task[ns].left \subseteq DOMAIN task[ns].kv
    /\ report \subseteq Finding /\ checked \subseteq {"manifest", "Secret", "ConfigMap"}
    /\ changes \in 0..Changes /\ runs \in 0..Runs

(* What each source of a namespace holds now. *)
Now(ns) == {<<ref, store[<<ns, ref>>]>> : ref \in Ref}

Init ==
    /\ manifest \in Manifests /\ store \in Store /\ backend \in {"local", "s3"}
    /\ files = [f \in Namespace \X Ref \X Key |-> None] /\ dirs = {}
    /\ compose = [ns \in Namespace |-> None]
    /\ task = [ns \in Namespace |-> Idle] /\ copies = [ns \in Namespace |-> None]
    /\ report = {} /\ checked = {} /\ changes = 0 /\ runs = 0
    /\ read = [ns \in Namespace |-> <<>>] /\ held = [ns \in Namespace |-> {}]
    /\ ever = [ns \in Namespace |-> Now(ns)]

-----------------------------------------------------------------------------
(* Beside the command: others change the sources, with apply, edit, delete.  *)

Elsewhere ==
    /\ changes < Changes /\ changes' = changes + 1
    /\ \E ns \in Tasks, ref \in Ref, source \in Later :
         /\ source # store[<<ns, ref>>] /\ HeldBy(ref, source)
         /\ store' = [store EXCEPT ![<<ns, ref>>] = source]
         /\ held' = [held EXCEPT ![ns] = @ \union {<<ref, source>>}]
         /\ ever' = [ever EXCEPT ![ns] = @ \union {<<ref, source>>}]
    /\ report' = {} /\ checked' = {}
    /\ UNCHANGED <<manifest, disk, task, copies, runs, read>>

-----------------------------------------------------------------------------
(* doctor: of the manifest, and of the Secrets and ConfigMaps of its         *)
(* namespaces.  Only that of an App looks at what it refers to.              *)

Found(check, severity, there) ==
    IF there THEN {[check |-> check, severity |-> severity]} ELSE {}

Unknown(services) == ~(services \subseteq DOMAIN manifest.services)

(* Mutant: the entries of spec.env are not looked at. *)
UnknownServiceEnvFrom ==
    \E i \in DOMAIN manifest.envFrom :
        manifest.envFrom[i].ref # None /\ Unknown(manifest.envFrom[i].services)

UnknownService ==
    \/ \E i \in DOMAIN manifest.envFrom :
         manifest.envFrom[i].ref # None /\ Unknown(manifest.envFrom[i].services)
    \/ \E i \in DOMAIN manifest.env : Unknown(manifest.env[i].services)

OfManifest ==
    Found("no-services", "error", manifest.services \in {None, <<>>})
      \union (IF manifest.kind # "App" \/ manifest.services = None THEN {} ELSE
        Found("missing", "error", \E i \in DOMAIN manifest.envFrom, ns \in Tasks :
                  /\ manifest.envFrom[i].ref # None /\ store[<<ns, manifest.envFrom[i].ref>>] = None)
          \union Found("no-ref", "warning", \E i \in DOMAIN manifest.envFrom : manifest.envFrom[i].ref = None)
          \union Found("unknown-service", "warning", UnknownService))

OfSources(kind) ==
    LET sources == {store[<<ns, ref>>] : ns \in Tasks, ref \in {r \in Ref : r.kind = kind}} \ {None} IN
    Found("invalid", "error", Broken \in sources)
      \union Found("empty", "warning", \E s \in sources \ {Broken} : DOMAIN Loaded(s) = {})

Doctor ==
    /\ ~Busy
    /\ \E kind \in {"manifest", "Secret", "ConfigMap"} \ checked :
         /\ checked' = checked \union {kind}
         /\ report' = report \union (IF kind = "manifest" THEN OfManifest ELSE OfSources(kind))
    /\ UNCHANGED <<manifest, store, disk, task, copies, changes, runs, history>>

-----------------------------------------------------------------------------
(* generateCompose, generateDaemonSetCompose, generateJobCompose *)

(* Mutant: the goroutines share one manifest. *)
CopyOfShared(ns) == CHOOSE n \in Tasks : TRUE

(* Each goroutine changes a manifest of its own. *)
CopyOf(ns) == ns

Labelled(ns) == [label |-> ns, services |-> manifest.services,
                 volumes |-> [s \in Service |-> <<>>], audit |-> {}]

Begin ==
    /\ ~Busy /\ runs < Runs /\ runs' = runs + 1
    /\ task' = [ns \in Namespace |->
                   IF ns \notin Tasks THEN Idle
                   ELSE [Idle EXCEPT !.step = IF manifest.services = None THEN "refused" ELSE "from"]]
    /\ copies' = [ns \in Namespace |->
                     IF ns \in Tasks /\ manifest.services # None THEN Labelled(ns) ELSE None]
    /\ read' = [ns \in Namespace |-> <<>>]
    /\ held' = [ns \in Namespace |-> Now(ns)]
    /\ UNCHANGED <<manifest, store, disk, report, checked, changes, ever>>

Ends(ns, step) == task' = [task EXCEPT ![ns].step = step]
(* A panic, or a signal, ends the process with every goroutine. *)
EndsAll(step) ==
    task' = [n \in Namespace |-> IF Working(n) THEN [task[n] EXCEPT !.step = step] ELSE task[n]]

(* The next entry of a list, and the outcomes that envFrom and mounts share: *)
(* one without a reference is passed over, one without a source refuses.     *)
At(ns, step, entries) == task[ns].step = step /\ task[ns].at \in DOMAIN entries
PassOver(ns, entry) ==
    /\ entry.ref = None /\ task' = [task EXCEPT ![ns].at = @ + 1]
    /\ UNCHANGED <<manifest, store, disk, copies, rest, history>>
Refuse(ns, entry) ==
    /\ entry.ref # None /\ ~Readable(ns, entry.ref) /\ Ends(ns, "refused")
    /\ UNCHANGED <<manifest, store, disk, copies, rest, history>>

EnvFrom(ns) ==
    /\ At(ns, "from", manifest.envFrom)
    /\ LET entry == manifest.envFrom[task[ns].at]
            c == copies[CopyOf(ns)]
            targets == TargetServices(c.services, entry.services)
            kv == Loaded(store[<<ns, entry.ref>>])
       IN  \/ PassOver(ns, entry)
           \/ Refuse(ns, entry)
           \/ /\ entry.ref # None /\ Readable(ns, entry.ref)
              /\ read' = [read EXCEPT ![ns] = Over([i \in {task[ns].at} |-> kv], @)]
              /\ \/ /\ DOMAIN kv # {} /\ \E s \in targets : NoMap(c.services, s)
                    /\ EndsAll("panic") /\ UNCHANGED copies
                 \/ /\ DOMAIN kv = {} \/ \A s \in targets : ~NoMap(c.services, s)
                    /\ task' = [task EXCEPT ![ns].at = @ + 1]
                    /\ copies' = [copies EXCEPT ![CopyOf(ns)] =
                         [c EXCEPT !.services = Injected(@, kv, targets),
                                   !.audit = @ \union
                                     UNION {Audit(s, entry.ref, NewKeys(c.services, kv, s)) : s \in targets}]]
              /\ UNCHANGED <<manifest, store, disk, rest, held, ever>>

Env(ns) ==
    /\ At(ns, "env", manifest.env)
    /\ LET setting == manifest.env[task[ns].at]
            c == copies[CopyOf(ns)]
            targets == TargetServices(c.services, setting.services)
       IN  \/ /\ \E s \in targets : NoMap(c.services, s)
              /\ EndsAll("panic") /\ UNCHANGED copies
           \/ /\ \A s \in targets : ~NoMap(c.services, s)
              /\ task' = [task EXCEPT ![ns].at = @ + 1]
              /\ copies' = [copies EXCEPT ![CopyOf(ns)] =
                   [c EXCEPT !.services = Set(@, setting),
                             !.audit = @ \union UNION {Audit(s, None, {setting.name}) : s \in targets}]]
    /\ UNCHANGED <<manifest, store, disk, rest, history>>

(* Mutant: the index is not set back for the next list. *)
NextListKeepsIndex(ns) ==
    /\ \/ task[ns].step = "from" /\ task[ns].at = Len(manifest.envFrom) + 1 /\ Ends(ns, "env")
       \/ task[ns].step = "env" /\ task[ns].at = Len(manifest.env) + 1 /\ Ends(ns, "mount")
    /\ UNCHANGED <<manifest, store, disk, copies, rest, history>>

(* After envFrom comes env, and after env mounts. *)
NextList(ns) ==
    /\ \/ /\ task[ns].step = "from" /\ task[ns].at = Len(manifest.envFrom) + 1
          /\ task' = [task EXCEPT ![ns].step = "env", ![ns].at = 1]
       \/ /\ task[ns].step = "env" /\ task[ns].at = Len(manifest.env) + 1
          /\ task' = [task EXCEPT ![ns].step = "mount", ![ns].at = 1]
    /\ UNCHANGED <<manifest, store, disk, copies, rest, history>>

(* A bucket has no directories: to make one there does nothing. *)
Mount(ns) ==
    /\ At(ns, "mount", manifest.mounts)
    /\ LET entry == manifest.mounts[task[ns].at]
            kv == Loaded(store[<<ns, entry.ref>>])
       IN  \/ PassOver(ns, entry)
           \/ Refuse(ns, entry)
           \/ /\ entry.ref # None /\ Readable(ns, entry.ref)
              /\ dirs' = IF backend = "local" THEN dirs \union {<<ns, entry.ref>>} ELSE dirs
              /\ task' = [task EXCEPT ![ns].step = "file", ![ns].kv = kv, ![ns].left = DOMAIN kv]
              /\ UNCHANGED <<manifest, store, backend, files, compose, copies, rest, history>>

(* A file that the source has no key for any more stays where it is. *)
WriteMountFile(ns) ==
    /\ task[ns].step = "file"
    /\ \E k \in task[ns].left :
         /\ files' = [files EXCEPT ![<<ns, manifest.mounts[task[ns].at].ref, k>>] = task[ns].kv[k]]
         /\ task' = [task EXCEPT ![ns].left = @ \ {k}]
    /\ UNCHANGED <<manifest, store, backend, dirs, compose, copies, rest, history>>

(* Mutant: the volume is added before the files are written. *)
AddVolumeEarly(ns) ==
    /\ task[ns].step = "file"
    /\ task' = [task EXCEPT ![ns].step = "mount", ![ns].at = @ + 1, ![ns].kv = <<>>, ![ns].left = {}]
    /\ LET entry == manifest.mounts[task[ns].at]
            c == copies[CopyOf(ns)]
            targets == TargetServices(c.services, entry.services)
       IN  copies' = [copies EXCEPT ![CopyOf(ns)] =
             [c EXCEPT !.services = Injected(@, <<>>, targets),
                       !.volumes = WithVolume(@, entry.ref, targets)]]
    /\ UNCHANGED <<manifest, store, disk, rest, history>>

(* A volume for a service that is not in the manifest makes a service of it. *)
AddVolume(ns) ==
    /\ task[ns].step = "file" /\ task[ns].left = {}
    /\ task' = [task EXCEPT ![ns].step = "mount", ![ns].at = @ + 1, ![ns].kv = <<>>]
    /\ LET entry == manifest.mounts[task[ns].at]
            c == copies[CopyOf(ns)]
            targets == TargetServices(c.services, entry.services)
       IN  copies' = [copies EXCEPT ![CopyOf(ns)] =
             [c EXCEPT !.services = Injected(@, <<>>, targets),
                       !.volumes = WithVolume(@, entry.ref, targets)]]
    /\ UNCHANGED <<manifest, store, disk, rest, history>>

WriteCompose(ns) ==
    /\ task[ns].step = "mount" /\ task[ns].at = Len(manifest.mounts) + 1
    /\ compose' = [compose EXCEPT ![ns] = copies[CopyOf(ns)]]
    /\ Ends(ns, "done")
    /\ UNCHANGED <<manifest, store, backend, files, dirs, copies, rest, history>>

(* Reading or writing fails; the command is killed. *)
Fail(ns) == Faults /\ Working(ns) /\ Ends(ns, "failed")
Kill == Faults /\ Busy /\ EndsAll("killed")

Next ==
    \/ Elsewhere \/ Doctor \/ Begin
    \/ \E ns \in Namespace :
         EnvFrom(ns) \/ Env(ns) \/ NextList(ns) \/ Mount(ns)
         \/ WriteMountFile(ns) \/ AddVolume(ns) \/ WriteCompose(ns)
    \/ /\ \/ \E ns \in Namespace : Fail(ns)
          \/ Kill
       /\ UNCHANGED <<manifest, store, disk, copies, rest, history>>

Spec == Init /\ [][Next]_vars

-----------------------------------------------------------------------------
(* Properties *)

Done(ns) == task[ns].step = "done"
Own == manifest.services
(* What a source says of a key: stringData is as it is, and comes first.     *)
Says(source, k, text) ==
    /\ source \notin {None, Broken}
    /\ IF k \in DOMAIN source.stringData THEN text = Lit(source.stringData[k])
       ELSE k \in DOMAIN source.data /\ text = Lit(source.data[k])
Targeted(entry, s) == manifest.kind = "Job" \/ entry.services = {} \/ s \in entry.services

(* A variable of a service that the manifest gives in environment keeps the  *)
(* value it has there.                                                       *)
ExistingEnvKept ==
    \A ns \in Tasks : Done(ns) => \A s \in DOMAIN Own, k \in Key :
        k \in DOMAIN Own[s] => compose[ns].services[s][k] = Own[s][k]

(* What the code does of each variable: the last entry of spec.env that names *)
(* it sets it, even over a value in environment (see ExistingEnvKept).  With *)
(* no such entry it is the service's own; else it is that of the first       *)
(* source, in the order of spec.envFrom, that had the key when it was read.  *)
(* No other is set.  A variable that an entry of spec.env refers to is its   *)
(* value, if it is not set later; else it stays as it is written.            *)
Precedence ==
    \A ns \in Tasks : Done(ns) => \A s \in DOMAIN Own, k \in Key :
        LET out == compose[ns].services[s]
            setting == {i \in DOMAIN manifest.env : manifest.env[i].name = k /\ Targeted(manifest.env[i], s)}
            giving == {i \in DOMAIN read[ns] : Targeted(manifest.envFrom[i], s) /\ k \in DOMAIN read[ns][i]}
            Last == CHOOSE i \in setting : \A n \in setting : n <= i
            First == CHOOSE i \in giving : \A n \in giving : i <= n
            value == manifest.env[Last].value
            setLater == \E i \in DOMAIN manifest.env :
                i >= Last /\ manifest.env[i].name = value.var /\ Targeted(manifest.env[i], s)
        IN  /\ k \in DOMAIN out <=> k \in DOMAIN Own[s] \/ setting # {} \/ giving # {}
            /\ setting = {} /\ k \in DOMAIN out =>
                 out[k] = IF k \in DOMAIN Own[s] THEN Own[s][k] ELSE read[ns][First][k]
            /\ setting # {} =>
                 IF value.var \in DOMAIN out THEN setLater \/ out[k] = out[value.var]
                 ELSE out[k] = value

(* Of each variable of an App the labels name the source it came from, one   *)
(* only, or spec.env; of one they do not name, the service's own value is    *)
(* there.                                                                    *)
AuditExplains ==
    \A ns \in Tasks : Done(ns) /\ manifest.kind = "App" => \A s \in DOMAIN Own :
        \A k \in DOMAIN compose[ns].services[s] :
            LET by == {a[2] : a \in {x \in compose[ns].audit : x[1] = s /\ x[3] = k}}
                value == compose[ns].services[s][k]
            IN  /\ Cardinality(by \ {None}) <= 1
                /\ by = {} => k \in DOMAIN Own[s] /\ value = Own[s][k]
                /\ None \notin by => \A ref \in by :
                     /\ k \notin DOMAIN Own[s]
                     /\ \E h \in held[ns] : h[1] = ref /\ Says(h[2], k, value)

(* A directory is there when it was made, or when there is a file in it. *)
There(ns, ref) == <<ns, ref>> \in dirs \/ \E k \in Key : files[<<ns, ref, k>>] # None

(* It may not be there, in a bucket, when the source was empty at one time.   *)
NothingToHold(ns, ref) ==
    backend = "s3" /\ \E e \in ever[ns] :
        e[1] = ref /\ e[2] \notin {None, Broken} /\ DOMAIN Loaded(e[2]) = {}

(* A file is left over from what the source held earlier. *)
LeftOver(ns, ref, k) == \E e \in ever[ns] : e[1] = ref /\ Says(e[2], k, files[<<ns, ref, k>>])

(* The files of a directory are those of one source, but for files left over *)
(* of keys that this source does not have.                                   *)
Mirrors(ns, ref, source) ==
    /\ source \notin {None, Broken}
    /\ \A k \in Key :
         IF k \in DOMAIN source.data \union DOMAIN source.stringData
         THEN Says(source, k, files[<<ns, ref, k>>])
         ELSE files[<<ns, ref, k>>] # None => LeftOver(ns, ref, k)

(* Whatever fails, and whenever the command is killed, the directories that  *)
(* a compose file mounts are there, but those of sources that were empty at  *)
(* one time, in a bucket.  When the compose file has just been written, the  *)
(* files in each directory are those that the source had at one instant      *)
(* since the command began, one and all; and a file of a key that the source *)
(* did not have then can be there, as an earlier run left it.                *)
MountsServed ==
    \A ns \in Namespace : compose[ns] # None => \A s \in Service :
        \A i \in DOMAIN compose[ns].volumes[s] :
            LET ref == compose[ns].volumes[s][i] IN
            /\ There(ns, ref) \/ NothingToHold(ns, ref)
            /\ Done(ns) => \E h \in held[ns] : h[1] = ref /\ Mirrors(ns, ref, h[2])

(* Whatever the order of the goroutines of a DaemonSet, the compose file of  *)
(* a namespace is labelled with it and holds nothing but the manifest's text *)
(* and what that namespace's own sources held; nothing is mounted twice.     *)
NamespacesApart ==
    \A ns \in Tasks : Done(ns) =>
        /\ compose[ns].label = ns
        /\ \A s \in DOMAIN compose[ns].services : compose[ns].services[s] # None =>
             \A k \in DOMAIN compose[ns].services[s] :
                LET value == compose[ns].services[s][k] IN
                \/ s \in DOMAIN Own /\ \E j \in DOMAIN Own[s] : value = Own[s][j]
                \/ \E i \in DOMAIN manifest.env : value = manifest.env[i].value
                \/ \E h \in held[ns], j \in Key : Says(h[2], j, value)
        /\ \A s \in Service : Len(compose[ns].volumes[s]) <= Len(manifest.mounts)

(* Of an App whose compose file cannot be generated, for its manifest or its *)
(* sources, doctor says so, if it looks at the manifest and at all sources,  *)
(* and none changes in between: an error, or a service that is not there.    *)
(* But doctor does not look at mounts.                                       *)
DoctorForesees ==
    manifest.kind = "App" /\ checked = {"manifest", "Secret", "ConfigMap"} =>
        \A ns \in Tasks :
          /\ task[ns].step \in {"refused", "panic"}
          /\ \A g, h \in held[ns] : g[1] = h[1] => g = h
          =>
            \/ \E f \in report : f.severity = "error" \/ f.check = "unknown-service"
            \/ \E i \in DOMAIN manifest.mounts :
                 manifest.mounts[i].ref # None /\ store[<<ns, manifest.mounts[i].ref>>] = None
=============================================================================
