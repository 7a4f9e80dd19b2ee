-------------------------- MODULE ComposeEnv_proofs --------------------------
(* Proofs about ComposeEnv: that its types are kept, and its invariants hold *)
(* for all manifests, sources and numbers of namespaces.                     *)
EXTENDS ComposeEnv, FiniteSetTheorems, TLAPS

-----------------------------------------------------------------------------
(* Partial functions.                                                        *)

LEMMA PartialFnIs ==
    ASSUME NEW D, NEW R, NEW f
    PROVE  f \in PartialFn(D, R) <=> DOMAIN f \subseteq D /\ f \in [DOMAIN f -> R]
<1>1. ASSUME f \in PartialFn(D, R) PROVE DOMAIN f \subseteq D /\ f \in [DOMAIN f -> R]
  <2>1. PICK S \in SUBSET D : f \in [S -> R]
    BY <1>1 DEF PartialFn
  <2> QED BY <2>1
<1>2. ASSUME DOMAIN f \subseteq D, f \in [DOMAIN f -> R] PROVE f \in PartialFn(D, R)
  BY <1>2 DEF PartialFn
<1> QED BY <1>1, <1>2

LEMMA EmptyFn == DOMAIN <<>> = {} /\ \A D, R : <<>> \in PartialFn(D, R)
<1>1. DOMAIN <<>> = {} /\ \A R : <<>> \in [{} -> R]
  OBVIOUS
<1> QED BY <1>1, PartialFnIs

LEMMA OverIs ==
    ASSUME NEW D, NEW R, NEW f \in PartialFn(D, R), NEW g \in PartialFn(D, R)
    PROVE  Over(f, g) \in PartialFn(D, R)
<1>1. /\ DOMAIN f \subseteq D /\ f \in [DOMAIN f -> R]
      /\ DOMAIN g \subseteq D /\ g \in [DOMAIN g -> R]
  BY PartialFnIs
<1>2. DOMAIN Over(f, g) = DOMAIN f \union DOMAIN g
  BY DEF Over
<1>3. Over(f, g) \in [DOMAIN f \union DOMAIN g -> R]
  BY <1>1 DEF Over
<1> QED BY <1>1, <1>2, <1>3, PartialFnIs

LEMMA OverEmpty ==
    ASSUME NEW D, NEW R, NEW f \in PartialFn(D, R)
    PROVE  Over(f, <<>>) = f
<1>1. f \in [DOMAIN f -> R]
  BY PartialFnIs
<1> QED BY <1>1, EmptyFn DEF Over

LEMMA OneKey ==
    ASSUME NEW D, NEW R, NEW x \in D, NEW y \in R
    PROVE  [k \in {x} |-> y] \in PartialFn(D, R)
<1>1. DOMAIN [k \in {x} |-> y] = {x} /\ [k \in {x} |-> y] \in [{x} -> R]
  OBVIOUS
<1> QED BY <1>1, PartialFnIs

-----------------------------------------------------------------------------
(* What the operators of the model return.                                   *)

LEMMA TextType == \A v \in Value : Lit(v) \in Text
BY DEF Lit, Text

LEMMA LoadedIs ==
    ASSUME NEW x \in Source, x \notin {None, Broken}
    PROVE  /\ Loaded(x) \in Map(Text)
           /\ DOMAIN Loaded(x) = DOMAIN x.data \union DOMAIN x.stringData
           /\ \A k \in DOMAIN Loaded(x) : Says(x, k, Loaded(x)[k])
<1> DEFINE kv == Over(x.stringData, x.data)
<1>1. kv \in PartialFn(Key, Value)
  BY OverIs DEF Source, Map
<1>2. DOMAIN kv \subseteq Key /\ kv \in [DOMAIN kv -> Value]
  BY <1>1, PartialFnIs
<1>3. DOMAIN kv = DOMAIN x.data \union DOMAIN x.stringData
  BY DEF Over
<1>4. Loaded(x) = [k \in DOMAIN kv |-> Lit(kv[k])]
  BY DEF Loaded
<1>5. \A k \in DOMAIN kv : kv[k] = IF k \in DOMAIN x.stringData THEN x.stringData[k] ELSE x.data[k]
  BY DEF Over
<1> HIDE DEF kv
<1>6. Loaded(x) \in [DOMAIN kv -> Text]
  BY <1>2, <1>4, TextType
<1>7. Loaded(x) \in Map(Text)
  BY <1>2, <1>6, <1>4, PartialFnIs DEF Map
<1> QED BY <1>3, <1>4, <1>5, <1>7 DEF Says

LEMMA InjectedIs ==
    ASSUME NEW c \in PartialFn(Service, Map(Text) \union {None}), NEW kv \in Map(Text), NEW targets \in SUBSET Service
    PROVE  /\ Injected(c, kv, targets) \in PartialFn(Service, Map(Text) \union {None})
           /\ DOMAIN Injected(c, kv, targets) = DOMAIN c \union targets
           /\ \A s \in DOMAIN c : s \notin targets => Injected(c, kv, targets)[s] = c[s]
           /\ \A s \in targets : NoMap(c, s) => Injected(c, kv, targets)[s] = None
           /\ \A s \in DOMAIN c : s \in targets /\ c[s] # None => Injected(c, kv, targets)[s] = Over(c[s], kv)
<1> DEFINE f == Injected(c, kv, targets)
<1>1. DOMAIN c \subseteq Service /\ c \in [DOMAIN c -> Map(Text) \union {None}]
  BY PartialFnIs
<1>2. DOMAIN f = DOMAIN c \union targets
  BY DEF Injected
<1>3. \A s \in DOMAIN c : s \notin targets => f[s] = c[s]
  BY DEF Injected
<1>4. \A s \in targets : NoMap(c, s) => f[s] = None
  BY DEF Injected
<1>5. \A s \in DOMAIN c : s \in targets /\ c[s] # None => f[s] = Over(c[s], kv)
  BY DEF Injected, NoMap
<1>6. \A s \in DOMAIN f : f[s] \in Map(Text) \union {None}
  <2> SUFFICES ASSUME NEW s \in DOMAIN f PROVE f[s] \in Map(Text) \union {None}
    OBVIOUS
  <2>1. CASE s \in DOMAIN c /\ c[s] # None /\ s \in targets
    BY <1>1, <1>5, <2>1, OverIs DEF Map
  <2> QED BY <1>1, <1>2, <1>3, <1>4, <2>1 DEF NoMap
<1>7. f = [s \in DOMAIN f |-> f[s]]
  BY DEF Injected
<1>8. f \in [DOMAIN f -> Map(Text) \union {None}]
  BY <1>6, <1>7
<1>9. DOMAIN f \subseteq Service
  BY <1>1, <1>2
<1> QED BY <1>2, <1>3, <1>4, <1>5, <1>8, <1>9, PartialFnIs

LEMMA SetIs ==
    ASSUME NEW c \in PartialFn(Service, Map(Text) \union {None}), NEW setting \in Setting,
           \A s \in TargetServices(c, setting.services) : ~NoMap(c, s)
    PROVE  /\ Set(c, setting) \in PartialFn(Service, Map(Text) \union {None})
           /\ DOMAIN Set(c, setting) = DOMAIN c
           /\ \A s \in DOMAIN c : s \notin TargetServices(c, setting.services) => Set(c, setting)[s] = c[s]
           /\ \A s \in DOMAIN c : s \in TargetServices(c, setting.services) =>
                Set(c, setting)[s] = Over([k \in {setting.name} |-> SubstituteVars(setting.value, c[s])], c[s])
<1> DEFINE f == Set(c, setting)
           targets == TargetServices(c, setting.services)
           New(s) == Over([k \in {setting.name} |-> SubstituteVars(setting.value, c[s])], c[s])
<1>1. DOMAIN c \subseteq Service /\ c \in [DOMAIN c -> Map(Text) \union {None}]
  BY PartialFnIs
<1>2. f = [s \in DOMAIN c |-> IF s \notin targets THEN c[s] ELSE New(s)]
  BY DEF Set
<1>3. ASSUME NEW s \in DOMAIN c, s \in targets PROVE New(s) \in Map(Text)
  <2>1. c[s] \in Map(Text)
    BY <1>1, <1>3 DEF NoMap
  <2>2. DOMAIN c[s] \subseteq Key /\ c[s] \in [DOMAIN c[s] -> Text]
    BY <2>1, PartialFnIs DEF Map
  <2>3. SubstituteVars(setting.value, c[s]) \in Text
    BY <2>2 DEF SubstituteVars, Setting
  <2>4. [k \in {setting.name} |-> SubstituteVars(setting.value, c[s])] \in PartialFn(Key, Text)
    BY <2>3, OneKey DEF Setting
  <2> QED BY <2>1, <2>4, OverIs DEF Map
<1>4. \A s \in DOMAIN c : f[s] \in Map(Text) \union {None}
  BY <1>1, <1>2, <1>3
<1>5. DOMAIN f = DOMAIN c /\ f \in [DOMAIN c -> Map(Text) \union {None}]
  BY <1>2, <1>4
<1> QED BY <1>1, <1>2, <1>5, PartialFnIs

LEMMA WithVolumeIs ==
    ASSUME NEW v \in [Service -> Seq(Ref)], NEW ref \in Ref, NEW targets \in SUBSET Service
    PROVE  /\ WithVolume(v, ref, targets) \in [Service -> Seq(Ref)]
           /\ \A s \in Service : WithVolume(v, ref, targets)[s] = IF s \in targets THEN Append(v[s], ref) ELSE v[s]
BY DEF WithVolume

LEMMA TargetType ==
    ASSUME NEW c \in PartialFn(Service, Map(Text) \union {None}), NEW names \in SUBSET Service
    PROVE  TargetServices(c, names) \in SUBSET Service
BY PartialFnIs DEF TargetServices

-----------------------------------------------------------------------------
(* Types, and what a goroutine at work has to work with: a copy of a         *)
(* manifest with services, and in a mount an entry with a source.            *)

AtWork == {"from", "env", "mount", "file", "done"}
Kinds == {"manifest", "Secret", "ConfigMap"}

(* One goroutine t with a copy c of the manifest m.                          *)
Fits(m, ns, t, c) ==
    /\ t \in Task /\ c \in Copy \union {None}
    /\ t.step = "from" => t.at <= Len(m.envFrom) + 1
    /\ t.step = "env" => t.at <= Len(m.env) + 1
    /\ t.step \in {"mount", "file"} => t.at <= Len(m.mounts) + 1
    /\ t.left \subseteq DOMAIN t.kv
    /\ t.step \in AtWork => ns \in m.namespaces /\ c \in Copy /\ m.services \in Services
    /\ t.step = "file" => t.at \in DOMAIN m.mounts /\ m.mounts[t.at].ref \in Ref

TypeInv ==
    /\ manifest \in Manifests /\ store \in [Namespace \X Ref -> Source \union {None, Broken}]
    /\ backend \in {"local", "s3"} /\ ever = [ns \in Namespace |-> ever[ns]]
    /\ files \in [Namespace \X Ref \X Key -> Text \union {None}] /\ dirs \subseteq Namespace \X Ref
    /\ compose \in [Namespace -> Copy \union {None}] /\ copies \in [Namespace -> Copy \union {None}]
    /\ task \in [Namespace -> Task]
    /\ read = [ns \in Namespace |-> read[ns]] /\ held = [ns \in Namespace |-> held[ns]]
    /\ report \subseteq Finding /\ checked \subseteq Kinds /\ changes \in 0..Changes /\ runs \in 0..Runs
    /\ \A ns \in Namespace : Fits(manifest, ns, task[ns], copies[ns])

LEMMA TypeInvOK == TypeInv => TypeOK
BY DEF TypeInv, TypeOK, Fits, Kinds

(* What the assumption says of the manifest of a behaviour.                  *)
LEMMA ManifestIs ==
    ASSUME NEW m \in Manifests
    PROVE  /\ m.kind \in {"App", "Job", "DaemonSet"}
           /\ m.services \in Services \union {None}
           /\ m.envFrom \in Seq(Entry) /\ m.env \in Seq(Setting) /\ m.mounts \in Seq(Entry)
           /\ m.namespaces \subseteq Namespace /\ m.namespaces # {}
BY ComposeEnvAssumption

LEMMA ManifestType ==
    TypeInv => /\ manifest.kind \in {"App", "Job", "DaemonSet"}
               /\ manifest.services \in Services \union {None}
               /\ manifest.envFrom \in Seq(Entry) /\ manifest.env \in Seq(Setting) /\ manifest.mounts \in Seq(Entry)
               /\ manifest.namespaces \subseteq Namespace
BY ManifestIs DEF TypeInv

LEMMA TypeInit == Init => TypeInv
<1> SUFFICES ASSUME Init PROVE TypeInv
  OBVIOUS
<1>1. Idle \in Task /\ Idle.left \subseteq DOMAIN Idle.kv
  BY EmptyFn DEF Idle, Task, Map
<1>2. store \in [Namespace \X Ref -> Source \union {None, Broken}]
  BY ComposeEnvAssumption DEF Init
<1>3. task \in [Namespace -> Task] /\ \A ns \in Namespace : task[ns] = Idle
  BY <1>1 DEF Init
<1>4. \A ns \in Namespace : task[ns].step = "idle"
  BY <1>3 DEF Idle
<1>5. 0 \in 0..Changes /\ 0 \in 0..Runs
  BY ComposeEnvAssumption
<1>6. \A ns \in Namespace : Fits(manifest, ns, task[ns], copies[ns])
  BY <1>1, <1>3, <1>4 DEF Init, Fits, AtWork
<1> QED BY <1>2, <1>3, <1>5, <1>6 DEF Init, TypeInv

LEMMA TypeElsewhere == TypeInv /\ Elsewhere => TypeInv'
<1> SUFFICES ASSUME TypeInv, Elsewhere PROVE TypeInv'
  OBVIOUS
<1>1. manifest.namespaces \subseteq Namespace
  BY ManifestType
<1>2. PICK ns \in Tasks, ref \in Ref, source \in Later : store' = [store EXCEPT ![<<ns, ref>>] = source]
  BY DEF Elsewhere
<1>3. store' \in [Namespace \X Ref -> Source \union {None, Broken}]
  BY <1>1, <1>2, ComposeEnvAssumption DEF Tasks, TypeInv
<1>4. changes' \in 0..Changes
  BY ComposeEnvAssumption DEF Elsewhere, TypeInv
<1>5. UNCHANGED <<manifest, disk, task, copies, runs, read>> /\ report' = {} /\ checked' = {}
  BY DEF Elsewhere
<1>6. held' = [n \in Namespace |-> held'[n]] /\ ever' = [n \in Namespace |-> ever'[n]]
  BY DEF Elsewhere, TypeInv
<1> QED BY <1>3, <1>4, <1>5, <1>6 DEF disk, TypeInv

LEMMA FoundType ==
    \A there : \A check \in {"no-services", "missing", "unknown-service", "no-ref", "invalid", "empty"} :
        \A severity \in {"error", "warning"} : Found(check, severity, there) \subseteq Finding
BY DEF Found, Finding

LEMMA TypeDoctor == TypeInv /\ Doctor => TypeInv'
<1> SUFFICES ASSUME TypeInv, Doctor PROVE TypeInv'
  OBVIOUS
<1>1. OfManifest \subseteq Finding
  BY FoundType DEF OfManifest
<1>2. \A kind : OfSources(kind) \subseteq Finding
  <2> SUFFICES ASSUME NEW kind PROVE OfSources(kind) \subseteq Finding
    OBVIOUS
  <2> DEFINE sources == {store[<<ns, ref>>] : ns \in Tasks, ref \in {r \in Ref : r.kind = kind}} \ {None}
  <2>1. OfSources(kind) = Found("invalid", "error", Broken \in sources)
                            \union Found("empty", "warning", \E s \in sources \ {Broken} : DOMAIN Loaded(s) = {})
    BY DEF OfSources
  <2> HIDE DEF sources
  <2> QED BY <2>1, FoundType
<1>3. report' \subseteq Finding /\ checked' \subseteq Kinds
  BY <1>1, <1>2 DEF Doctor, Kinds, TypeInv
<1>4. UNCHANGED <<manifest, store, disk, task, copies, changes, runs, history>>
  BY DEF Doctor
<1> QED BY <1>3, <1>4 DEF disk, history, TypeInv

LEMMA LabelledType ==
    ASSUME NEW ns \in Namespace, manifest.services \in Services
    PROVE  Labelled(ns) \in Copy
<1>1. manifest.services \in PartialFn(Service, Map(Text) \union {None})
  BY PartialFnIs DEF Services
<1> QED BY <1>1 DEF Labelled, Copy

LEMMA TypeBegin == TypeInv /\ Begin => TypeInv'
<1> SUFFICES ASSUME TypeInv, Begin PROVE TypeInv'
  OBVIOUS
<1> DEFINE first(ns) == [Idle EXCEPT !.step = IF manifest.services = None THEN "refused" ELSE "from"]
<1>1. Idle \in Task /\ Idle.left = {} /\ \A ns : first(ns) \in Task /\ first(ns).left = {}
  BY EmptyFn DEF Idle, Task, Map
<1>2. manifest.services # None => manifest.services \in Services
  BY ManifestType
<1>3. \A ns \in Namespace : ns \in Tasks /\ manifest.services # None => Labelled(ns) \in Copy
  BY <1>2, LabelledType
<1>4. Idle.step = "idle" /\ \A ns : /\ first(ns).at = 1
                                    /\ first(ns).step = IF manifest.services = None THEN "refused" ELSE "from"
  BY DEF Idle
<1>5. task' = [ns \in Namespace |-> IF ns \notin Tasks THEN Idle ELSE first(ns)]
  BY DEF Begin
<1>6. copies' = [ns \in Namespace |-> IF ns \in Tasks /\ manifest.services # None THEN Labelled(ns) ELSE None]
  BY DEF Begin
<1>7. UNCHANGED <<manifest, store, disk, report, checked, changes, ever>>
  BY DEF Begin
<1>8. runs' \in 0..Runs
  BY ComposeEnvAssumption DEF Begin, TypeInv
<1> HIDE DEF first
<1>13. read' = [n \in Namespace |-> read'[n]] /\ held' = [n \in Namespace |-> held'[n]]
  BY DEF Begin
<1>9. task' \in [Namespace -> Task]
  BY <1>1, <1>5
<1>10. copies' \in [Namespace -> Copy \union {None}]
  BY <1>3, <1>6
<1>11. Len(manifest.envFrom) \in Nat
  BY ManifestType
<1>12. ASSUME NEW ns \in Namespace PROVE Fits(manifest, ns, task'[ns], copies'[ns])
  <2>1. CASE ns \notin Tasks
    <3>1. task'[ns] = Idle /\ copies'[ns] = None
      BY <1>5, <1>6, <2>1
    <3> QED BY <1>1, <1>4, <3>1 DEF Fits, AtWork
  <2>2. CASE ns \in Tasks /\ manifest.services = None
    <3>1. task'[ns] = first(ns) /\ copies'[ns] = None
      BY <1>5, <1>6, <2>2
    <3> QED BY <1>1, <1>4, <3>1, <2>2 DEF Fits, AtWork
  <2>3. CASE ns \in Tasks /\ manifest.services # None
    <3>1. task'[ns] = first(ns) /\ copies'[ns] = Labelled(ns)
      BY <1>5, <1>6, <2>3
    <3>2. first(ns).step = "from" /\ first(ns).at = 1
      BY <1>4, <2>3
    <3> QED BY <1>1, <1>2, <1>3, <1>11, <3>1, <3>2, <2>3 DEF Fits, AtWork, Tasks
  <2> QED BY <2>1, <2>2, <2>3
<1> QED BY <1>7, <1>8, <1>9, <1>10, <1>12, <1>13 DEF disk, TypeInv

-----------------------------------------------------------------------------
(* What a step is for the goroutine of one namespace.                        *)

Unread(ns) == compose'[ns] = compose[ns] /\ read'[ns] = read[ns]
Still == UNCHANGED <<manifest, store, files, dirs, held>>

(* A step of another, or beside the command.                                 *)
Frame(ns) ==
    /\ task'[ns] = task[ns] /\ copies'[ns] = copies[ns] /\ Unread(ns)
    /\ manifest' = manifest /\ held[ns] \subseteq held'[ns] /\ dirs \subseteq dirs'
    /\ \A r \in Ref, k \in Key : files'[<<ns, r, k>>] = files[<<ns, r, k>>]

(* Its end, and what brings about a panic or a refusal.                      *)
Panics(n) ==
    LET Writes(names) == \E s \in TargetServices(copies[n].services, names) : NoMap(copies[n].services, s)
    IN  \/ /\ task[n].step = "from" /\ task[n].at \in DOMAIN manifest.envFrom
           /\ manifest.envFrom[task[n].at].ref # None /\ Writes(manifest.envFrom[task[n].at].services)
        \/ /\ task[n].step = "env" /\ task[n].at \in DOMAIN manifest.env
           /\ Writes(manifest.env[task[n].at].services)
Unreadable(ns, entry) == entry.ref # None /\ ~Readable(ns, entry.ref)
Refused(ns) ==
    \/ task[ns].at \in DOMAIN manifest.envFrom /\ Unreadable(ns, manifest.envFrom[task[ns].at])
    \/ task[ns].at \in DOMAIN manifest.mounts /\ Unreadable(ns, manifest.mounts[task[ns].at])
Ended(ns) ==
    /\ Working(ns) /\ copies'[ns] = copies[ns] /\ compose'[ns] = compose[ns] /\ Still
    /\ \E e \in {"refused", "panic", "failed", "killed"} :
         /\ task'[ns] = [task[ns] EXCEPT !.step = e]
         /\ e = "refused" => Refused(ns)
         /\ e = "panic" => \E n \in Namespace : Panics(n)

Skipped(ns) ==
    /\ \/ /\ task[ns].step = "from" /\ task[ns].at \in DOMAIN manifest.envFrom
          /\ manifest.envFrom[task[ns].at].ref = None
       \/ task[ns].step = "mount" /\ task[ns].at \in DOMAIN manifest.mounts
    /\ task'[ns] = [task[ns] EXCEPT !.at = @ + 1]
    /\ copies'[ns] = copies[ns] /\ Unread(ns) /\ Still

Injects(ns) ==
    LET entry == manifest.envFrom[task[ns].at]
        targets == TargetServices(copies[ns].services, entry.services)
        kv == Loaded(store[<<ns, entry.ref>>])
    IN  /\ task[ns].step = "from" /\ task[ns].at \in DOMAIN manifest.envFrom
        /\ entry.ref # None /\ Readable(ns, entry.ref)
        /\ DOMAIN kv = {} \/ \A s \in targets : ~NoMap(copies[ns].services, s)
        /\ task'[ns] = [task[ns] EXCEPT !.at = @ + 1]
        /\ copies'[ns] = [copies[ns] EXCEPT
             !.services = Injected(@, kv, targets),
             !.audit = @ \union
                UNION {Audit(s, entry.ref, NewKeys(copies[ns].services, kv, s)) : s \in targets}]
        /\ read'[ns] = Over([i \in {task[ns].at} |-> kv], read[ns])
        /\ compose'[ns] = compose[ns] /\ Still

Sets(ns) ==
    LET setting == manifest.env[task[ns].at]
        targets == TargetServices(copies[ns].services, setting.services)
    IN  /\ task[ns].step = "env" /\ task[ns].at \in DOMAIN manifest.env
        /\ \A s \in targets : ~NoMap(copies[ns].services, s)
        /\ task'[ns] = [task[ns] EXCEPT !.at = @ + 1]
        /\ copies'[ns] = [copies[ns] EXCEPT
             !.services = Set(@, setting),
             !.audit = @ \union UNION {Audit(s, None, {setting.name}) : s \in targets}]
        /\ Unread(ns) /\ Still

Turns(ns) ==
    /\ \/ task[ns].step = "from" /\ task[ns].at = Len(manifest.envFrom) + 1
          /\ task'[ns] = [task[ns] EXCEPT !.step = "env", !.at = 1]
       \/ task[ns].step = "env" /\ task[ns].at = Len(manifest.env) + 1
          /\ task'[ns] = [task[ns] EXCEPT !.step = "mount", !.at = 1]
    /\ copies'[ns] = copies[ns] /\ Unread(ns) /\ Still

Opens(ns) ==
    LET entry == manifest.mounts[task[ns].at]
        kv == Loaded(store[<<ns, entry.ref>>])
    IN  /\ task[ns].step = "mount" /\ task[ns].at \in DOMAIN manifest.mounts
        /\ entry.ref # None /\ Readable(ns, entry.ref)
        /\ task'[ns] = [task[ns] EXCEPT !.step = "file", !.kv = kv, !.left = DOMAIN kv]
        /\ dirs' = IF backend = "local" THEN dirs \union {<<ns, entry.ref>>} ELSE dirs
        /\ copies'[ns] = copies[ns] /\ Unread(ns) /\ UNCHANGED <<manifest, store, files, held>>

Writes(ns) ==
    /\ task[ns].step = "file"
    /\ \E key \in task[ns].left :
         /\ task'[ns] = [task[ns] EXCEPT !.left = @ \ {key}]
         /\ \A r \in Ref, k \in Key : files'[<<ns, r, k>>] =
              IF r = manifest.mounts[task[ns].at].ref /\ k = key THEN task[ns].kv[key] ELSE files[<<ns, r, k>>]
    /\ copies'[ns] = copies[ns] /\ Unread(ns) /\ UNCHANGED <<manifest, store, dirs, held>>

Adds(ns) ==
    LET entry == manifest.mounts[task[ns].at]
        targets == TargetServices(copies[ns].services, entry.services)
    IN  /\ task[ns].step = "file" /\ task[ns].left = {}
        /\ task'[ns] = [task[ns] EXCEPT !.step = "mount", !.at = @ + 1, !.kv = <<>>]
        /\ copies'[ns] = [copies[ns] EXCEPT !.services = Injected(@, <<>>, targets),
                                            !.volumes = WithVolume(@, entry.ref, targets)]
        /\ Unread(ns) /\ Still

Saves(ns) ==
    /\ task[ns].step = "mount" /\ task[ns].at = Len(manifest.mounts) + 1
    /\ task'[ns] = [task[ns] EXCEPT !.step = "done"]
    /\ compose'[ns] = copies[ns]
    /\ copies'[ns] = copies[ns] /\ read'[ns] = read[ns] /\ Still

View(ns) ==
    \/ Frame(ns) \/ Ended(ns) \/ Skipped(ns) \/ Injects(ns) \/ Sets(ns) \/ Turns(ns)
    \/ Opens(ns) \/ Writes(ns) \/ Adds(ns) \/ Saves(ns)


LEMMA ViewEnds ==
    ASSUME TypeInv, NEW ns \in Namespace, NEW e \in {"refused", "failed"}, Ends(ns, e), Working(ns),
           e = "refused" => Refused(ns),
           UNCHANGED <<manifest, store, disk, copies, rest, history>>, NEW n \in Namespace
    PROVE  View(n)
<1>1. task' = [task EXCEPT ![ns] = [task[ns] EXCEPT !.step = e]]
  BY DEF TypeInv, Ends
<1>2. CASE n = ns
  <2>1. task'[n] = [task[n] EXCEPT !.step = e]
    BY <1>1, <1>2 DEF TypeInv
  <2>2. Ended(n)
    BY <2>1, <1>2 DEF Ended, Still, disk, history
  <2> QED BY <2>2 DEF View
<1>3. CASE n # ns
  <2>1. Frame(n)
    BY <1>1, <1>3 DEF Frame, Unread, disk, history, TypeInv
  <2> QED BY <2>1 DEF View
<1> QED BY <1>2, <1>3

LEMMA ViewEndsAll ==
    ASSUME TypeInv, NEW e \in {"panic", "killed"}, EndsAll(e), e = "panic" => \E n \in Namespace : Panics(n),
           UNCHANGED <<manifest, store, files, dirs, compose, copies, held>>, NEW n \in Namespace,
           ~Working(n) => read'[n] = read[n]
    PROVE  View(n)
<1>1. task'[n] = IF Working(n) THEN [task[n] EXCEPT !.step = e] ELSE task[n]
  BY DEF TypeInv, EndsAll
<1>2. CASE Working(n)
  <2>1. Ended(n)
    BY <1>1, <1>2 DEF Ended, Still
  <2> QED BY <2>1 DEF View
<1>3. CASE ~Working(n)
  <2>1. Frame(n)
    BY <1>1, <1>3 DEF Frame, Unread
  <2> QED BY <2>1 DEF View
<1> QED BY <1>2, <1>3

(* A step of ns alone is no more than a frame to another.                    *)
LEMMA ViewOther ==
    ASSUME TypeInv, NEW ns \in Namespace, NEW n \in Namespace, n # ns,
           NEW t, NEW c, NEW d, NEW r,
           task' = [task EXCEPT ![ns] = t], copies' = [copies EXCEPT ![ns] = c],
           compose' = [compose EXCEPT ![ns] = d], read' = [read EXCEPT ![ns] = r],
           UNCHANGED <<manifest, held>>, dirs \subseteq dirs',
           \A x \in Ref, k \in Key : files'[<<n, x, k>>] = files[<<n, x, k>>]
    PROVE  View(n)
<1>1. task'[n] = task[n] /\ copies'[n] = copies[n] /\ compose'[n] = compose[n] /\ read'[n] = read[n]
  BY DEF TypeInv
<1>2. Frame(n)
  BY <1>1 DEF Frame, Unread
<1> QED BY <1>2 DEF View

LEMMA Unaltered ==
    ASSUME TypeInv, NEW ns \in Namespace
    PROVE  /\ task = [task EXCEPT ![ns] = task[ns]] /\ copies = [copies EXCEPT ![ns] = copies[ns]]
           /\ compose = [compose EXCEPT ![ns] = compose[ns]] /\ read = [read EXCEPT ![ns] = read[ns]]
BY DEF TypeInv

LEMMA ViewSkip ==
    ASSUME TypeInv, NEW ns \in Namespace, NEW entry, PassOver(ns, entry), NEW n \in Namespace,
           \/ At(ns, "from", manifest.envFrom) /\ entry = manifest.envFrom[task[ns].at]
           \/ At(ns, "mount", manifest.mounts) /\ entry = manifest.mounts[task[ns].at]
    PROVE  View(n)
<1> DEFINE t == [task[ns] EXCEPT !.at = @ + 1]
<1>1. task' = [task EXCEPT ![ns] = t]
  BY DEF TypeInv, PassOver
<1>2. UNCHANGED <<manifest, store, files, dirs, compose, copies, read, held>>
  BY DEF PassOver, disk, history
<1>3. CASE n = ns
  <2>1. task'[n] = t
    BY <1>1, <1>3 DEF TypeInv
  <2>2. Skipped(n)
    BY <2>1, <1>2, <1>3 DEF Skipped, At, Unread, Still, PassOver
  <2> QED BY <2>2 DEF View
<1>4. CASE n # ns
  <2> HIDE DEF t
  <2>1. /\ copies' = [copies EXCEPT ![ns] = copies[ns]] /\ compose' = [compose EXCEPT ![ns] = compose[ns]]
        /\ read' = [read EXCEPT ![ns] = read[ns]] /\ dirs \subseteq dirs' /\ UNCHANGED <<manifest, held>>
        /\ \A x \in Ref, k \in Key : files'[<<n, x, k>>] = files[<<n, x, k>>]
    BY <1>2, Unaltered
  <2> QED BY <1>1, <1>4, <2>1, ViewOther
<1> QED BY <1>3, <1>4

LEMMA ViewRefuse ==
    ASSUME TypeInv, NEW ns \in Namespace, NEW entry, Refuse(ns, entry), NEW n \in Namespace,
           \/ At(ns, "from", manifest.envFrom) /\ entry = manifest.envFrom[task[ns].at]
           \/ At(ns, "mount", manifest.mounts) /\ entry = manifest.mounts[task[ns].at]
    PROVE  View(n)
<1>1. Ends(ns, "refused") /\ UNCHANGED <<manifest, store, disk, copies, rest, history>>
  BY DEF Refuse
<1>2. Refused(ns) /\ Working(ns)
  BY DEF Refuse, Refused, Unreadable, At, Working
<1> QED BY <1>1, <1>2, ViewEnds

LEMMA ViewEnvFrom ==
    ASSUME TypeInv, NEW ns \in Namespace, EnvFrom(ns), NEW n \in Namespace
    PROVE  View(n)
<1> DEFINE entry == manifest.envFrom[task[ns].at]
           c == copies[ns]
           targets == TargetServices(c.services, entry.services)
           kv == Loaded(store[<<ns, entry.ref>>])
           audit == UNION {Audit(s, entry.ref, NewKeys(c.services, kv, s)) : s \in targets}
           r == Over([i \in {task[ns].at} |-> kv], read[ns])
           t == [task[ns] EXCEPT !.at = @ + 1]
           d == [c EXCEPT !.services = Injected(@, kv, targets), !.audit = @ \union audit]
<1>1. At(ns, "from", manifest.envFrom)
  BY DEF EnvFrom
<1>2. CASE PassOver(ns, entry)
  BY <1>1, <1>2, ViewSkip
<1>3. CASE Refuse(ns, entry)
  BY <1>1, <1>3, ViewRefuse
<1>4. ASSUME entry.ref # None, Readable(ns, entry.ref), read' = [read EXCEPT ![ns] = r],
             DOMAIN kv # {}, \E s \in targets : NoMap(c.services, s),
             EndsAll("panic"), UNCHANGED copies, UNCHANGED <<manifest, store, disk, rest, held>>
      PROVE  View(n)
  <2>1. Panics(ns)
    BY <1>1, <1>4 DEF Panics, At
  <2>2. ~Working(n) => read'[n] = read[n]
    BY <1>1, <1>4 DEF At, Working, TypeInv
  <2> QED BY <1>4, <2>1, <2>2, ViewEndsAll DEF disk
<1>5. ASSUME entry.ref # None, Readable(ns, entry.ref), read' = [read EXCEPT ![ns] = r],
             DOMAIN kv = {} \/ \A s \in targets : ~NoMap(c.services, s),
             task' = [task EXCEPT ![ns].at = @ + 1], copies' = [copies EXCEPT ![ns] = d],
             UNCHANGED <<manifest, store, disk, rest, held>>
      PROVE  View(n)
  <2>1. task' = [task EXCEPT ![ns] = t]
    BY <1>5 DEF TypeInv
  <2>2. CASE n = ns
    <3>1. task'[n] = t /\ copies'[n] = d /\ read'[n] = r
      BY <1>5, <2>1, <2>2 DEF TypeInv
    <3>2. compose'[n] = compose[n] /\ Still
      BY <1>5 DEF disk, Still
    <3>3. Injects(ns)
      BY Zenon, <1>1, <1>5, <2>2, <3>1, <3>2 DEF Injects, At
    <3> QED BY <2>2, <3>3 DEF View
  <2>3. CASE n # ns
    <3> HIDE DEF t, d, r
    <3>1. compose' = [compose EXCEPT ![ns] = compose[ns]] /\ UNCHANGED <<manifest, held, files, dirs>>
      BY <1>5, Unaltered DEF disk
    <3> QED BY <1>5, <2>1, <2>3, <3>1, ViewOther
  <2> QED BY <2>2, <2>3
<1>7. \/ PassOver(ns, entry) \/ Refuse(ns, entry)
      \/ /\ entry.ref # None /\ Readable(ns, entry.ref) /\ read' = [read EXCEPT ![ns] = r]
         /\ \/ /\ DOMAIN kv # {} /\ \E s \in targets : NoMap(c.services, s)
               /\ EndsAll("panic") /\ UNCHANGED copies
            \/ /\ DOMAIN kv = {} \/ \A s \in targets : ~NoMap(c.services, s)
               /\ task' = [task EXCEPT ![ns].at = @ + 1] /\ copies' = [copies EXCEPT ![ns] = d]
         /\ UNCHANGED <<manifest, store, disk, rest, held>>
  BY Zenon DEF EnvFrom, CopyOf
<1> HIDE DEF entry, c, targets, kv, audit, r, t, d
<1> QED BY <1>2, <1>3, <1>4, <1>5, <1>7

LEMMA ViewEnv ==
    ASSUME TypeInv, NEW ns \in Namespace, Env(ns), NEW n \in Namespace
    PROVE  View(n)
<1> DEFINE setting == manifest.env[task[ns].at]
           c == copies[ns]
           targets == TargetServices(c.services, setting.services)
           audit == UNION {Audit(s, None, {setting.name}) : s \in targets}
           t == [task[ns] EXCEPT !.at = @ + 1]
           d == [c EXCEPT !.services = Set(@, setting), !.audit = @ \union audit]
<1>1. At(ns, "env", manifest.env) /\ UNCHANGED <<manifest, store, disk, rest, history>>
  BY DEF Env
<1>2. UNCHANGED <<manifest, store, files, dirs, compose, read, held>>
  BY <1>1 DEF disk, history
<1>3. ASSUME \E s \in targets : NoMap(c.services, s), EndsAll("panic"), UNCHANGED copies
      PROVE  View(n)
  <2>1. Panics(ns)
    BY <1>1, <1>3 DEF Panics, At
  <2> QED BY <1>2, <1>3, <2>1, ViewEndsAll
<1>4. ASSUME \A s \in targets : ~NoMap(c.services, s),
             task' = [task EXCEPT ![ns].at = @ + 1], copies' = [copies EXCEPT ![ns] = d]
      PROVE  View(n)
  <2>1. task' = [task EXCEPT ![ns] = t]
    BY <1>4 DEF TypeInv
  <2>2. CASE n = ns
    <3>1. task'[ns] = t /\ copies'[ns] = d
      BY <1>4, <2>1 DEF TypeInv
    <3>2. Unread(ns) /\ Still
      BY <1>2 DEF Unread, Still
    <3>3. Sets(ns)
      BY Zenon, <1>1, <1>4, <3>1, <3>2 DEF Sets, At
    <3> QED BY <2>2, <3>3 DEF View
  <2>3. CASE n # ns
    <3> HIDE DEF t, d
    <3>1. /\ compose' = [compose EXCEPT ![ns] = compose[ns]] /\ read' = [read EXCEPT ![ns] = read[ns]]
          /\ dirs \subseteq dirs' /\ UNCHANGED <<manifest, held>>
          /\ \A x \in Ref, k \in Key : files'[<<n, x, k>>] = files[<<n, x, k>>]
      BY <1>2, Unaltered
    <3> QED BY <1>4, <2>1, <2>3, <3>1, ViewOther
  <2> QED BY <2>2, <2>3
<1>5. \/ (\E s \in targets : NoMap(c.services, s)) /\ EndsAll("panic") /\ UNCHANGED copies
      \/ /\ \A s \in targets : ~NoMap(c.services, s)
         /\ task' = [task EXCEPT ![ns].at = @ + 1] /\ copies' = [copies EXCEPT ![ns] = d]
  BY Zenon DEF Env, CopyOf
<1> HIDE DEF setting, c, targets, audit, t, d
<1> QED BY <1>3, <1>4, <1>5

LEMMA ViewNextList ==
    ASSUME TypeInv, NEW ns \in Namespace, NextList(ns), NEW n \in Namespace
    PROVE  View(n)
<1>1. UNCHANGED <<manifest, store, files, dirs, compose, copies, read, held>>
  BY DEF NextList, disk, history
<1>2. PICK t : /\ task' = [task EXCEPT ![ns] = t]
               /\ \/ task[ns].step = "from" /\ task[ns].at = Len(manifest.envFrom) + 1
                     /\ t = [task[ns] EXCEPT !.step = "env", !.at = 1]
                  \/ task[ns].step = "env" /\ task[ns].at = Len(manifest.env) + 1
                     /\ t = [task[ns] EXCEPT !.step = "mount", !.at = 1]
  <2>1. CASE /\ task[ns].step = "from" /\ task[ns].at = Len(manifest.envFrom) + 1
             /\ task' = [task EXCEPT ![ns].step = "env", ![ns].at = 1]
    <3>1. task' = [task EXCEPT ![ns] = [task[ns] EXCEPT !.step = "env", !.at = 1]]
      BY <2>1 DEF TypeInv
    <3> QED BY <2>1, <3>1
  <2>2. CASE /\ task[ns].step = "env" /\ task[ns].at = Len(manifest.env) + 1
             /\ task' = [task EXCEPT ![ns].step = "mount", ![ns].at = 1]
    <3>1. task' = [task EXCEPT ![ns] = [task[ns] EXCEPT !.step = "mount", !.at = 1]]
      BY <2>2 DEF TypeInv
    <3> QED BY <2>2, <3>1
  <2> QED BY <2>1, <2>2 DEF NextList
<1>3. CASE n = ns
  <2>1. task'[ns] = t
    BY <1>2 DEF TypeInv
  <2>2. Turns(ns)
    BY <1>1, <1>2, <2>1 DEF Turns, Unread, Still
  <2> QED BY <1>3, <2>2 DEF View
<1>4. CASE n # ns
  <2>1. /\ copies' = [copies EXCEPT ![ns] = copies[ns]] /\ compose' = [compose EXCEPT ![ns] = compose[ns]]
        /\ read' = [read EXCEPT ![ns] = read[ns]] /\ dirs \subseteq dirs' /\ UNCHANGED <<manifest, held>>
        /\ \A x \in Ref, k \in Key : files'[<<n, x, k>>] = files[<<n, x, k>>]
    BY <1>1, Unaltered
  <2> QED BY <1>2, <1>4, <2>1, ViewOther
<1> QED BY <1>3, <1>4

LEMMA ViewMount ==
    ASSUME TypeInv, NEW ns \in Namespace, Mount(ns), NEW n \in Namespace
    PROVE  View(n)
<1> DEFINE entry == manifest.mounts[task[ns].at]
           kv == Loaded(store[<<ns, entry.ref>>])
           t == [task[ns] EXCEPT !.step = "file", !.kv = kv, !.left = DOMAIN kv]
<1>1. At(ns, "mount", manifest.mounts)
  BY DEF Mount
<1>2. CASE PassOver(ns, entry)
  BY <1>1, <1>2, ViewSkip
<1>3. CASE Refuse(ns, entry)
  BY <1>1, <1>3, ViewRefuse
<1>4. ASSUME entry.ref # None, Readable(ns, entry.ref),
             dirs' = IF backend = "local" THEN dirs \union {<<ns, entry.ref>>} ELSE dirs,
             task' = [task EXCEPT ![ns].step = "file", ![ns].kv = kv, ![ns].left = DOMAIN kv],
             UNCHANGED <<manifest, store, backend, files, compose, copies, rest, history>>
      PROVE  View(n)
  <2> HIDE DEF entry, kv
  <2>1. task' = [task EXCEPT ![ns] = t]
    BY <1>4 DEF TypeInv
  <2>2. UNCHANGED <<manifest, store, files, compose, copies, read, held>>
    BY <1>4 DEF history
  <2>3. CASE n = ns
    <3>1. task'[ns] = t
      BY <2>1 DEF TypeInv
    <3>2. Unread(ns) /\ copies'[ns] = copies[ns] /\ UNCHANGED <<manifest, store, files, held>>
      BY <2>2 DEF Unread
    <3>3. Opens(ns)
      BY Zenon, <1>1, <1>4, <3>1, <3>2 DEF Opens, At, entry, kv
    <3> QED BY <2>3, <3>3 DEF View
  <2>4. CASE n # ns
    <3> HIDE DEF t
    <3>1. /\ copies' = [copies EXCEPT ![ns] = copies[ns]] /\ compose' = [compose EXCEPT ![ns] = compose[ns]]
          /\ read' = [read EXCEPT ![ns] = read[ns]] /\ dirs \subseteq dirs' /\ UNCHANGED <<manifest, held>>
          /\ \A x \in Ref, k \in Key : files'[<<n, x, k>>] = files[<<n, x, k>>]
      BY <1>4, <2>2, Unaltered
    <3> QED BY <2>1, <2>4, <3>1, ViewOther
  <2> QED BY <2>3, <2>4
<1>5. \/ PassOver(ns, entry) \/ Refuse(ns, entry)
      \/ /\ entry.ref # None /\ Readable(ns, entry.ref)
         /\ dirs' = IF backend = "local" THEN dirs \union {<<ns, entry.ref>>} ELSE dirs
         /\ task' = [task EXCEPT ![ns].step = "file", ![ns].kv = kv, ![ns].left = DOMAIN kv]
         /\ UNCHANGED <<manifest, store, backend, files, compose, copies, rest, history>>
  BY Zenon DEF Mount
<1> HIDE DEF entry, kv, t
<1> QED BY <1>2, <1>3, <1>4, <1>5

LEMMA ViewWriteMountFile ==
    ASSUME TypeInv, NEW ns \in Namespace, WriteMountFile(ns), NEW n \in Namespace
    PROVE  View(n)
<1> DEFINE ref == manifest.mounts[task[ns].at].ref
<1>1. PICK key \in task[ns].left :
        /\ files' = [files EXCEPT ![<<ns, ref, key>>] = task[ns].kv[key]]
        /\ task' = [task EXCEPT ![ns].left = @ \ {key}]
  BY DEF WriteMountFile
<1> DEFINE t == [task[ns] EXCEPT !.left = @ \ {key}]
<1>2. task' = [task EXCEPT ![ns] = t]
  BY <1>1 DEF TypeInv
<1>3. UNCHANGED <<manifest, store, dirs, compose, copies, read, held>> /\ task[ns].step = "file"
  BY DEF WriteMountFile, history
<1>4. \A f \in Namespace \X Ref \X Key : files'[f] = IF f = <<ns, ref, key>> THEN task[ns].kv[key] ELSE files[f]
  BY <1>1 DEF TypeInv
<1>5. \A m \in Namespace, r \in Ref, k \in Key : files'[<<m, r, k>>] =
        IF m = ns /\ r = ref /\ k = key THEN task[ns].kv[key] ELSE files[<<m, r, k>>]
  BY <1>4
<1>6. CASE n = ns
  <2>1. task'[ns] = t
    BY <1>2 DEF TypeInv
  <2>2. Writes(ns)
    <3> HIDE DEF ref, t
    <3>1. \A r \in Ref, k \in Key : files'[<<ns, r, k>>] =
            IF r = ref /\ k = key THEN task[ns].kv[key] ELSE files[<<ns, r, k>>]
      BY <1>5
    <3>2. Unread(ns) /\ copies'[ns] = copies[ns] /\ UNCHANGED <<manifest, store, dirs, held>>
      BY <1>3 DEF Unread
    <3> QED BY Zenon, <1>1, <1>3, <2>1, <3>1, <3>2 DEF Writes, t, ref
  <2> QED BY <1>6, <2>2 DEF View
<1>7. CASE n # ns
  <2> HIDE DEF t
  <2>1. /\ copies' = [copies EXCEPT ![ns] = copies[ns]] /\ compose' = [compose EXCEPT ![ns] = compose[ns]]
        /\ read' = [read EXCEPT ![ns] = read[ns]] /\ dirs \subseteq dirs' /\ UNCHANGED <<manifest, held>>
        /\ \A x \in Ref, k \in Key : files'[<<n, x, k>>] = files[<<n, x, k>>]
    BY <1>3, <1>5, <1>7, Unaltered
  <2> QED BY <1>2, <1>7, <2>1, ViewOther
<1> QED BY <1>6, <1>7

LEMMA ViewAddVolume ==
    ASSUME TypeInv, NEW ns \in Namespace, AddVolume(ns), NEW n \in Namespace
    PROVE  View(n)
<1> DEFINE entry == manifest.mounts[task[ns].at]
           c == copies[ns]
           targets == TargetServices(c.services, entry.services)
           t == [task[ns] EXCEPT !.step = "mount", !.at = @ + 1, !.kv = <<>>]
           d == [c EXCEPT !.services = Injected(@, <<>>, targets), !.volumes = WithVolume(@, entry.ref, targets)]
<1>1. task' = [task EXCEPT ![ns] = t]
  BY DEF AddVolume, TypeInv
<1>2. copies' = [copies EXCEPT ![ns] = d] /\ task[ns].step = "file" /\ task[ns].left = {}
  BY Zenon DEF AddVolume, CopyOf
<1>3. UNCHANGED <<manifest, store, files, dirs, compose, read, held>>
  BY DEF AddVolume, disk, history
<1>4. CASE n = ns
  <2>1. task'[ns] = t /\ copies'[ns] = d
    BY <1>1, <1>2 DEF TypeInv
  <2>2. Unread(ns) /\ Still
    BY <1>3 DEF Unread, Still
  <2>3. Adds(ns)
    BY Zenon, <1>2, <2>1, <2>2 DEF Adds
  <2> QED BY <1>4, <2>3 DEF View
<1>5. CASE n # ns
  <2> HIDE DEF t, d
  <2>1. /\ compose' = [compose EXCEPT ![ns] = compose[ns]] /\ read' = [read EXCEPT ![ns] = read[ns]]
        /\ dirs \subseteq dirs' /\ UNCHANGED <<manifest, held>>
        /\ \A x \in Ref, k \in Key : files'[<<n, x, k>>] = files[<<n, x, k>>]
    BY <1>3, Unaltered
  <2> QED BY <1>1, <1>2, <1>5, <2>1, ViewOther
<1> QED BY <1>4, <1>5

LEMMA ViewWriteCompose ==
    ASSUME TypeInv, NEW ns \in Namespace, WriteCompose(ns), NEW n \in Namespace
    PROVE  View(n)
<1> DEFINE t == [task[ns] EXCEPT !.step = "done"]
<1>1. task' = [task EXCEPT ![ns] = t] /\ compose' = [compose EXCEPT ![ns] = copies[ns]]
  BY DEF WriteCompose, Ends, CopyOf, TypeInv
<1>2. /\ UNCHANGED <<manifest, store, files, dirs, copies, read, held>>
      /\ task[ns].step = "mount" /\ task[ns].at = Len(manifest.mounts) + 1
  BY DEF WriteCompose, history
<1>3. CASE n = ns
  <2>1. task'[ns] = t /\ compose'[ns] = copies[ns]
    BY <1>1 DEF TypeInv
  <2>2. Saves(ns)
    BY <1>2, <2>1 DEF Saves, Still
  <2> QED BY <1>3, <2>2 DEF View
<1>4. CASE n # ns
  <2> HIDE DEF t
  <2>1. /\ copies' = [copies EXCEPT ![ns] = copies[ns]]
        /\ read' = [read EXCEPT ![ns] = read[ns]] /\ dirs \subseteq dirs' /\ UNCHANGED <<manifest, held>>
        /\ \A x \in Ref, k \in Key : files'[<<n, x, k>>] = files[<<n, x, k>>]
    BY <1>2, Unaltered
  <2> QED BY <1>1, <1>4, <2>1, ViewOther
<1> QED BY <1>3, <1>4

(* Every step but Begin is, for each goroutine, one of those above.          *)
Goes ==
    \/ \E ns \in Namespace : EnvFrom(ns) \/ Env(ns) \/ NextList(ns) \/ Mount(ns)
                             \/ WriteMountFile(ns) \/ AddVolume(ns) \/ WriteCompose(ns)
    \/ /\ (\E ns \in Namespace : Fail(ns)) \/ Kill
       /\ UNCHANGED <<manifest, store, disk, copies, rest, history>>

LEMMA NextIs == Next <=> Elsewhere \/ Doctor \/ Begin \/ Goes
BY DEF Next, Goes

LEMMA ViewGoes ==
    ASSUME TypeInv, Goes, NEW n \in Namespace
    PROVE  View(n)
<1>1. CASE \E ns \in Namespace : EnvFrom(ns) \/ Env(ns) \/ NextList(ns) \/ Mount(ns)
                                 \/ WriteMountFile(ns) \/ AddVolume(ns) \/ WriteCompose(ns)
  BY <1>1, ViewEnvFrom, ViewEnv, ViewNextList, ViewMount, ViewWriteMountFile, ViewAddVolume,
     ViewWriteCompose
<1>2. CASE (\E ns \in Namespace : Fail(ns)) /\ UNCHANGED <<manifest, store, disk, copies, rest, history>>
  BY <1>2, ViewEnds DEF Fail
<1>3. CASE Kill /\ UNCHANGED <<manifest, store, disk, copies, rest, history>>
  <2>1. EndsAll("killed") /\ UNCHANGED <<manifest, store, files, dirs, compose, copies, read, held>>
    BY <1>3 DEF Kill, disk, history
  <2> QED BY <2>1, ViewEndsAll
<1> QED BY <1>1, <1>2, <1>3 DEF Goes

LEMMA ViewNext ==
    ASSUME TypeInv, [Next]_vars, NEW n \in Namespace
    PROVE  Begin \/ View(n)
<1>1. CASE UNCHANGED vars \/ Doctor
  <2>1. Frame(n)
    BY <1>1 DEF vars, disk, history, Doctor, Frame, Unread
  <2> QED BY <2>1 DEF View
<1>2. CASE Elsewhere
  <2>1. held[n] \subseteq held'[n]
    BY <1>2, ManifestType DEF Elsewhere, TypeInv, Tasks
  <2>2. Frame(n)
    BY <1>2, <2>1 DEF disk, Elsewhere, Frame, Unread
  <2> QED BY <2>2 DEF View
<1> QED BY <1>1, <1>2, ViewGoes, NextIs

-----------------------------------------------------------------------------
(* Types are kept.                                                           *)

LEMMA FitsInjects ==
    ASSUME TypeInv, NEW ns \in Namespace, Injects(ns)
    PROVE  Fits(manifest, ns, task'[ns], copies'[ns])
<1> DEFINE entry == manifest.envFrom[task[ns].at]
           c == copies[ns]
           targets == TargetServices(c.services, entry.services)
           kv == Loaded(store[<<ns, entry.ref>>])
           Keys(s) == NewKeys(c.services, kv, s)
           audit == UNION {Audit(s, entry.ref, Keys(s)) : s \in targets}
<1>1. /\ task[ns] \in Task /\ c \in Copy /\ task[ns].step = "from" /\ task[ns].left \subseteq DOMAIN task[ns].kv
      /\ ns \in manifest.namespaces /\ manifest.services \in Services
  BY DEF TypeInv, Fits, Injects, AtWork
<1>2. manifest.envFrom \in Seq(Entry) /\ task[ns].at \in DOMAIN manifest.envFrom
  BY ManifestType DEF Injects
<1>3. entry \in Entry /\ entry.ref \in Ref
  <2>1. entry \in Entry
    BY <1>2
  <2> QED BY <2>1 DEF Entry, Injects
<1>4. store[<<ns, entry.ref>>] \in Source /\ store[<<ns, entry.ref>>] \notin {None, Broken}
  BY <1>3 DEF TypeInv, Injects, Readable
<1>5. kv \in Map(Text) /\ DOMAIN kv \subseteq Key
  <2>1. kv \in Map(Text)
    BY <1>4, LoadedIs
  <2> QED BY <2>1, PartialFnIs DEF Map
<1>6. c.services \in PartialFn(Service, Map(Text) \union {None}) /\ entry.services \in SUBSET Service
  BY <1>1, <1>3 DEF Copy, Entry
<1>7. targets \in SUBSET Service
  BY <1>6, TargetType
<1>8. Injected(c.services, kv, targets) \in PartialFn(Service, Map(Text) \union {None})
  BY <1>5, <1>6, <1>7, InjectedIs
<1>9. \A s \in targets : Keys(s) \subseteq Key
  BY <1>5 DEF NewKeys
<1> HIDE DEF entry, c, targets, kv, Keys
<1>10. audit \subseteq Service \X (Ref \union {None}) \X Key
  <2>1. \A s \in targets : Audit(s, entry.ref, Keys(s)) \subseteq Service \X (Ref \union {None}) \X Key
    BY <1>3, <1>7, <1>9 DEF Audit
  <2> QED BY <2>1
<1>11. copies'[ns] = [c EXCEPT !.services = Injected(@, kv, targets), !.audit = @ \union audit]
  BY Zenon DEF Injects, c, kv, targets, entry, Keys
<1> HIDE DEF audit
<1>12. copies'[ns] \in Copy
  BY <1>1, <1>8, <1>10, <1>11 DEF Copy
<1>13. task'[ns] = [task[ns] EXCEPT !.at = @ + 1]
  BY DEF Injects
<1>14. task'[ns] \in Task /\ task'[ns].step = "from" /\ task'[ns].at <= Len(manifest.envFrom) + 1
  BY <1>1, <1>2, <1>13 DEF Task
<1>15. task'[ns].left = task[ns].left /\ task'[ns].kv = task[ns].kv
  BY <1>1, <1>13 DEF Task
<1> QED BY <1>1, <1>12, <1>14, <1>15 DEF Fits

LEMMA FitsSets ==
    ASSUME TypeInv, NEW ns \in Namespace, Sets(ns)
    PROVE  Fits(manifest, ns, task'[ns], copies'[ns])
<1> DEFINE setting == manifest.env[task[ns].at]
           c == copies[ns]
           targets == TargetServices(c.services, setting.services)
           audit == UNION {Audit(s, None, {setting.name}) : s \in targets}
<1>1. /\ task[ns] \in Task /\ c \in Copy /\ task[ns].step = "env" /\ task[ns].left \subseteq DOMAIN task[ns].kv
      /\ ns \in manifest.namespaces /\ manifest.services \in Services
  BY DEF TypeInv, Fits, Sets, AtWork
<1>2. manifest.env \in Seq(Setting) /\ task[ns].at \in DOMAIN manifest.env
  BY ManifestType DEF Sets
<1>3. setting \in Setting /\ setting.name \in Key /\ setting.services \in SUBSET Service
  <2>1. setting \in Setting
    BY <1>2
  <2> QED BY <2>1 DEF Setting
<1>4. c.services \in PartialFn(Service, Map(Text) \union {None})
  BY <1>1 DEF Copy
<1>5. targets \in SUBSET Service /\ \A s \in targets : ~NoMap(c.services, s)
  BY <1>3, <1>4, TargetType DEF Sets
<1>6. copies'[ns] = [c EXCEPT !.services = Set(@, setting), !.audit = @ \union audit]
  BY Zenon DEF Sets
<1> HIDE DEF setting, c
<1>7. Set(c.services, setting) \in PartialFn(Service, Map(Text) \union {None})
  BY <1>3, <1>4, <1>5, SetIs
<1> HIDE DEF targets
<1>8. audit \subseteq Service \X (Ref \union {None}) \X Key
  <2>1. \A s \in targets : Audit(s, None, {setting.name}) \subseteq Service \X (Ref \union {None}) \X Key
    BY <1>3, <1>5 DEF Audit
  <2> QED BY <2>1
<1> HIDE DEF audit
<1>9. copies'[ns] \in Copy
  BY <1>1, <1>6, <1>7, <1>8 DEF Copy
<1>10. task'[ns] = [task[ns] EXCEPT !.at = @ + 1]
  BY DEF Sets
<1>11. task'[ns] \in Task /\ task'[ns].step = "env" /\ task'[ns].at <= Len(manifest.env) + 1
  BY <1>1, <1>2, <1>10 DEF Task
<1>12. task'[ns].left = task[ns].left /\ task'[ns].kv = task[ns].kv
  BY <1>1, <1>10 DEF Task
<1> QED BY <1>1, <1>9, <1>11, <1>12 DEF Fits

LEMMA FitsAdds ==
    ASSUME TypeInv, NEW ns \in Namespace, Adds(ns)
    PROVE  Fits(manifest, ns, task'[ns], copies'[ns])
<1> DEFINE entry == manifest.mounts[task[ns].at]
           c == copies[ns]
           targets == TargetServices(c.services, entry.services)
<1>1. /\ task[ns] \in Task /\ c \in Copy /\ task[ns].step = "file" /\ task[ns].left = {}
      /\ ns \in manifest.namespaces /\ manifest.services \in Services
  BY DEF TypeInv, Fits, Adds, AtWork
<1>2. manifest.mounts \in Seq(Entry) /\ task[ns].at \in DOMAIN manifest.mounts /\ entry.ref \in Ref
  BY <1>1, ManifestType DEF TypeInv, Fits
<1>3. entry.services \in SUBSET Service /\ c.services \in PartialFn(Service, Map(Text) \union {None})
  <2>1. entry \in Entry
    BY <1>2
  <2> QED BY <1>1, <2>1 DEF Entry, Copy
<1>4. targets \in SUBSET Service
  BY <1>3, TargetType
<1>5. Injected(c.services, <<>>, targets) \in PartialFn(Service, Map(Text) \union {None})
  BY <1>3, <1>4, EmptyFn, InjectedIs DEF Map
<1>6. WithVolume(c.volumes, entry.ref, targets) \in [Service -> Seq(Ref)]
  BY <1>1, <1>2, <1>4, WithVolumeIs DEF Copy
<1>7. copies'[ns] = [c EXCEPT !.services = Injected(@, <<>>, targets), !.volumes = WithVolume(@, entry.ref, targets)]
  BY Zenon DEF Adds
<1> HIDE DEF entry, c, targets
<1>8. copies'[ns] \in Copy
  BY <1>1, <1>5, <1>6, <1>7 DEF Copy
<1>9. task'[ns] = [task[ns] EXCEPT !.step = "mount", !.at = @ + 1, !.kv = <<>>]
  BY DEF Adds
<1>10. task'[ns] \in Task /\ task'[ns].step = "mount" /\ task'[ns].at <= Len(manifest.mounts) + 1
  <2>1. task[ns].at \in Nat \ {0} /\ task[ns].at <= Len(manifest.mounts) /\ Len(manifest.mounts) \in Nat
    BY <1>1, <1>2 DEF Task
  <2>2. <<>> \in Map(Text)
    BY EmptyFn DEF Map
  <2>3. task[ns].at + 1 \in Nat \ {0} /\ task[ns].at + 1 <= Len(manifest.mounts) + 1
    BY <2>1
  <2>4. task'[ns].step = "mount" /\ task'[ns].at = task[ns].at + 1
    BY <1>1, <1>9 DEF Task
  <2>5. task'[ns] \in Task
    BY <1>1, <1>9, <2>2, <2>3 DEF Task
  <2> QED BY <2>3, <2>4, <2>5
<1>11. task'[ns].left = {}
  BY <1>1, <1>9 DEF Task
<1> QED BY <1>1, <1>8, <1>10, <1>11 DEF Fits

LEMMA FitsOpens ==
    ASSUME TypeInv, NEW ns \in Namespace, Opens(ns)
    PROVE  Fits(manifest, ns, task'[ns], copies'[ns]) /\ manifest.mounts[task[ns].at].ref \in Ref
<1> DEFINE entry == manifest.mounts[task[ns].at]
           kv == Loaded(store[<<ns, entry.ref>>])
<1>1. /\ task[ns] \in Task /\ copies[ns] \in Copy /\ task[ns].step = "mount"
      /\ ns \in manifest.namespaces /\ manifest.services \in Services
  BY DEF TypeInv, Fits, Opens, AtWork
<1>2. manifest.mounts \in Seq(Entry) /\ task[ns].at \in DOMAIN manifest.mounts
  BY ManifestType DEF Opens
<1>3. entry \in Entry /\ entry.ref \in Ref
  <2>1. entry \in Entry
    BY <1>2
  <2> QED BY <2>1 DEF Entry, Opens
<1>4. store[<<ns, entry.ref>>] \in Source /\ store[<<ns, entry.ref>>] \notin {None, Broken}
  BY <1>3 DEF TypeInv, Opens, Readable
<1>5. kv \in Map(Text) /\ DOMAIN kv \subseteq Key
  <2>1. kv \in Map(Text)
    BY <1>4, LoadedIs
  <2> QED BY <2>1, PartialFnIs DEF Map
<1>6. task'[ns] = [task[ns] EXCEPT !.step = "file", !.kv = kv, !.left = DOMAIN kv] /\ copies'[ns] = copies[ns]
  BY DEF Opens
<1> HIDE DEF kv
<1>7. /\ task'[ns] \in Task /\ task'[ns].step = "file" /\ task'[ns].at = task[ns].at
      /\ task'[ns].kv = kv /\ task'[ns].left = DOMAIN kv
  BY <1>1, <1>5, <1>6 DEF Task
<1>8. task[ns].at <= Len(manifest.mounts) + 1
  BY <1>2
<1> QED BY <1>1, <1>2, <1>3, <1>6, <1>7, <1>8 DEF Fits

LEMMA ViewFits ==
    ASSUME TypeInv, NEW ns \in Namespace, View(ns)
    PROVE  Fits(manifest, ns, task'[ns], copies'[ns]) /\ compose'[ns] \in Copy \union {None}
<1>1. task[ns] \in Task /\ copies[ns] \in Copy \union {None} /\ compose[ns] \in Copy \union {None}
  BY DEF TypeInv
<1>2. Fits(manifest, ns, task[ns], copies[ns])
  BY DEF TypeInv
<1>3. CASE Frame(ns)
  BY <1>1, <1>2, <1>3 DEF Frame, Unread
<1>4. CASE Ended(ns)
  BY <1>1, <1>2, <1>4 DEF Ended, Fits, Task, AtWork
<1>5. CASE Skipped(ns)
  <2>1. manifest.envFrom \in Seq(Entry) /\ manifest.mounts \in Seq(Entry)
    BY ManifestType
  <2>2. task'[ns] = [task[ns] EXCEPT !.at = @ + 1] /\ copies'[ns] = copies[ns] /\ compose'[ns] = compose[ns]
    BY <1>5 DEF Skipped, Unread
  <2>3. /\ task'[ns] \in Task /\ task'[ns].step = task[ns].step /\ task'[ns].at = task[ns].at + 1
        /\ task'[ns].kv = task[ns].kv /\ task'[ns].left = task[ns].left
    BY <1>1, <2>2 DEF Task
  <2> QED BY <1>1, <1>2, <1>5, <2>1, <2>2, <2>3 DEF Skipped, Fits, AtWork
<1>6. CASE Injects(ns)
  BY <1>1, <1>6, FitsInjects DEF Injects
<1>7. CASE Sets(ns)
  BY <1>1, <1>7, FitsSets DEF Sets, Unread
<1>8. CASE Turns(ns)
  <2>1. Len(manifest.env) \in Nat /\ Len(manifest.mounts) \in Nat
    BY ManifestType
  <2>2. copies'[ns] = copies[ns] /\ compose'[ns] = compose[ns]
    BY <1>8 DEF Turns, Unread
  <2>3. PICK step \in {"env", "mount"} : task'[ns] = [task[ns] EXCEPT !.step = step, !.at = 1] /\ task[ns].step \in AtWork
    BY <1>8 DEF Turns, AtWork
  <2>4. /\ task'[ns] \in Task /\ task'[ns].step = step /\ task'[ns].at = 1
        /\ task'[ns].kv = task[ns].kv /\ task'[ns].left = task[ns].left
    <3>1. /\ task'[ns].step = step /\ task'[ns].at = 1
          /\ task'[ns].kv = task[ns].kv /\ task'[ns].left = task[ns].left
      BY <1>1, <2>3 DEF Task
    <3>2. task'[ns] = [step |-> step, at |-> 1, kv |-> task[ns].kv, left |-> task[ns].left]
      BY <1>1, <2>3 DEF Task
    <3>3. 1 \in Nat \ {0} /\ task[ns].kv \in Map(Text) /\ task[ns].left \in SUBSET Key
      BY <1>1 DEF Task
    <3>4. task'[ns] \in Task
      BY <3>2, <3>3 DEF Task
    <3> QED BY <3>1, <3>4
  <2> QED BY <1>1, <1>2, <2>1, <2>2, <2>3, <2>4 DEF Fits
<1>9. CASE Opens(ns)
  BY <1>1, <1>9, FitsOpens DEF Opens, Unread
<1>10. CASE Writes(ns)
  <2>1. PICK key \in task[ns].left : task'[ns] = [task[ns] EXCEPT !.left = @ \ {key}]
    BY <1>10 DEF Writes
  <2>2. /\ task'[ns] \in Task /\ task'[ns].step = task[ns].step /\ task'[ns].at = task[ns].at
        /\ task'[ns].kv = task[ns].kv /\ task'[ns].left \subseteq task[ns].left
    BY <1>1, <2>1 DEF Task
  <2> QED BY <1>1, <1>2, <1>10, <2>2 DEF Writes, Unread, Fits
<1>11. CASE Adds(ns)
  BY <1>1, <1>11, FitsAdds DEF Adds, Unread
<1>12. CASE Saves(ns)
  BY <1>1, <1>2, <1>12 DEF Saves, Fits, Task, AtWork
<1> QED BY <1>3, <1>4, <1>5, <1>6, <1>7, <1>8, <1>9, <1>10, <1>11, <1>12 DEF View

(* What the goroutines leave as it is, and the form of what they change.     *)
LEMMA GoesForm ==
    ASSUME TypeInv, Goes
    PROVE  /\ UNCHANGED <<manifest, store, backend, report, checked, changes, runs, held, ever>>
           /\ files' \in [Namespace \X Ref \X Key -> Text \union {None}] /\ dirs' \subseteq Namespace \X Ref
           /\ task' = [ns \in Namespace |-> task'[ns]] /\ copies' = [ns \in Namespace |-> copies'[ns]]
           /\ compose' = [ns \in Namespace |-> compose'[ns]] /\ read' = [ns \in Namespace |-> read'[ns]]
<1> USE DEF rest, disk, history
<1>1. UNCHANGED <<manifest, store, backend, report, checked, changes, runs, held, ever>>
  BY DEF Goes, EnvFrom, PassOver, Refuse, Env, NextList, Mount, WriteMountFile, AddVolume, WriteCompose
<1>2. task' = [ns \in Namespace |-> task'[ns]]
  BY DEF Goes, EnvFrom, PassOver, Refuse, Env, NextList, Mount, WriteMountFile, AddVolume, WriteCompose,
         Fail, Kill, Ends, EndsAll, TypeInv
<1>3. copies' = [ns \in Namespace |-> copies'[ns]]
  BY DEF Goes, EnvFrom, PassOver, Refuse, Env, NextList, Mount, WriteMountFile, AddVolume,
     WriteCompose, TypeInv, CopyOf
<1>4. compose' = [ns \in Namespace |-> compose'[ns]] /\ read' = [ns \in Namespace |-> read'[ns]]
  BY DEF Goes, EnvFrom, PassOver, Refuse, Env, NextList, Mount, WriteMountFile, AddVolume,
     WriteCompose, TypeInv
<1>5. files' \in [Namespace \X Ref \X Key -> Text \union {None}]
  <2>1. ASSUME NEW ns \in Namespace, WriteMountFile(ns)
        PROVE  files' \in [Namespace \X Ref \X Key -> Text \union {None}]
    <3>1. task[ns].kv \in Map(Text) /\ task[ns].left \subseteq DOMAIN task[ns].kv
      BY DEF TypeInv, Fits, Task
    <3>2. \A k \in task[ns].left : k \in Key /\ task[ns].kv[k] \in Text
      BY <3>1, PartialFnIs DEF Map
    <3>3. manifest.mounts[task[ns].at].ref \in Ref
      BY <2>1 DEF WriteMountFile, TypeInv, Fits
    <3> QED BY <2>1, <3>2, <3>3 DEF WriteMountFile, TypeInv
  <2>2. UNCHANGED files \/ \E ns \in Namespace : WriteMountFile(ns)
    BY DEF Goes, EnvFrom, PassOver, Refuse, Env, NextList, Mount, AddVolume, WriteCompose
  <2> QED BY <2>1, <2>2 DEF TypeInv
<1>6. dirs' \subseteq Namespace \X Ref
  <2>1. ASSUME NEW ns \in Namespace, Mount(ns) PROVE dirs' \subseteq Namespace \X Ref
    <3>1. manifest.mounts[task[ns].at] \in Entry
      BY <2>1, ManifestType DEF Mount, At
    <3>2. manifest.mounts[task[ns].at].ref # None => manifest.mounts[task[ns].at].ref \in Ref
      BY <3>1 DEF Entry
    <3> QED BY <2>1, <3>2 DEF Mount, PassOver, Refuse, TypeInv
  <2>2. UNCHANGED dirs \/ \E ns \in Namespace : Mount(ns)
    BY DEF Goes, EnvFrom, PassOver, Refuse, Env, NextList, WriteMountFile, AddVolume, WriteCompose
  <2> QED BY <2>1, <2>2 DEF TypeInv
<1> QED BY <1>1, <1>2, <1>3, <1>4, <1>5, <1>6

LEMMA TypeGoes == TypeInv /\ Goes => TypeInv'
<1> SUFFICES ASSUME TypeInv, Goes PROVE TypeInv'
  OBVIOUS
<1>1. \A ns \in Namespace : Fits(manifest, ns, task'[ns], copies'[ns]) /\ compose'[ns] \in Copy \union {None}
  BY ViewGoes, ViewFits
<1>2. \A ns \in Namespace : task'[ns] \in Task /\ copies'[ns] \in Copy \union {None}
  BY <1>1 DEF Fits
<1> QED BY <1>1, <1>2, GoesForm DEF TypeInv

LEMMA TypeNext == TypeInv /\ [Next]_vars => TypeInv'
<1> SUFFICES ASSUME TypeInv, [Next]_vars PROVE TypeInv'
  OBVIOUS
<1>1. CASE UNCHANGED vars
  BY <1>1 DEF vars, disk, history, TypeInv
<1> QED BY <1>1, NextIs, TypeElsewhere, TypeDoctor, TypeBegin, TypeGoes

-----------------------------------------------------------------------------
(* Precedence.  The indices of env that are done, and those of the entries   *)
(* read, settle each variable of a service.                                  *)

Aimed(m, entry, s) == m.kind = "Job" \/ entry.services = {} \/ s \in entry.services
Setters(m, s, k, E) == {i \in E : m.env[i].name = k /\ Aimed(m, m.env[i], s)}
Givers(m, r, s, k) == {i \in DOMAIN r : Aimed(m, m.envFrom[i], s) /\ k \in DOMAIN r[i]}

First(S, i) == i \in S /\ \A n \in S : i <= n
Last(S, i) == i \in S /\ \A n \in S : n <= i

(* What the setting of index i makes of k in out.                            *)
SetTo(m, out, s, k, E, i) ==
    LET value == m.env[i].value
    IN  IF value.var \in DOMAIN out
        THEN \/ \E j \in E : j >= i /\ m.env[j].name = value.var /\ Aimed(m, m.env[j], s)
             \/ out[k] = out[value.var]
        ELSE out[k] = value

Settled(m, r, own, out, s, k, E) ==
    /\ k \in DOMAIN out <=> k \in DOMAIN own \/ Setters(m, s, k, E) # {} \/ Givers(m, r, s, k) # {}
    /\ Setters(m, s, k, E) = {} /\ k \in DOMAIN out =>
         IF k \in DOMAIN own THEN out[k] = own[k]
         ELSE \E i : First(Givers(m, r, s, k), i) /\ out[k] = r[i][k]
    /\ Setters(m, s, k, E) # {} => \E i : Last(Setters(m, s, k, E), i) /\ SetTo(m, out, s, k, E, i)

LEMMA SettledStart ==
    ASSUME NEW m, NEW own, NEW s, NEW k
    PROVE  Settled(m, <<>>, own, own, s, k, {})
BY EmptyFn DEF Settled, Setters, Givers

LEMMA SettledTake ==
    ASSUME NEW m, NEW r, NEW own, NEW out, NEW s, NEW k, Settled(m, r, own, out, s, k, {}),
           DOMAIN r \subseteq Nat, NEW i \in Nat, \A n \in DOMAIN r : n < i,
           NEW kv, NEW r2, r2 = Over([x \in {i} |-> kv], r),
           NEW out2, out2 = IF Aimed(m, m.envFrom[i], s) THEN Over(out, kv) ELSE out
    PROVE  Settled(m, r2, own, out2, s, k, {})
<1>1. DOMAIN r2 = DOMAIN r \union {i} /\ r2[i] = kv /\ \A n \in DOMAIN r : r2[n] = r[n]
  BY DEF Over
<1>2. Setters(m, s, k, {}) = {}
  BY DEF Setters
<1>3. CASE ~Aimed(m, m.envFrom[i], s) \/ k \notin DOMAIN kv
  <2>1. Givers(m, r2, s, k) = Givers(m, r, s, k)
    BY <1>1, <1>3 DEF Givers
  <2>2. (k \in DOMAIN out2 <=> k \in DOMAIN out) /\ (k \in DOMAIN out => out2[k] = out[k])
    BY <1>3 DEF Over
  <2>3. \A n : n \in Givers(m, r, s, k) => r2[n] = r[n]
    BY <1>1 DEF Givers
  <2>4. \A n : First(Givers(m, r, s, k), n) => n \in Givers(m, r, s, k)
    BY DEF First
  <2> QED BY <1>2, <2>1, <2>2, <2>3, <2>4 DEF Settled
<1>4. CASE Aimed(m, m.envFrom[i], s) /\ k \in DOMAIN kv
  <2>1. Givers(m, r2, s, k) = Givers(m, r, s, k) \union {i}
    BY <1>1, <1>4 DEF Givers
  <2>2. k \in DOMAIN out2 /\ out2[k] = IF k \in DOMAIN out THEN out[k] ELSE kv[k]
    BY <1>4 DEF Over
  <2>3. CASE k \in DOMAIN own
    BY <1>2, <2>1, <2>2, <2>3 DEF Settled
  <2>4. CASE k \notin DOMAIN own /\ k \in DOMAIN out
    <3>1. PICK n : First(Givers(m, r, s, k), n) /\ out[k] = r[n][k]
      BY <1>2, <2>4 DEF Settled
    <3>2. n \in DOMAIN r /\ n < i
      BY <3>1 DEF First, Givers
    <3>3. First(Givers(m, r2, s, k), n) /\ out2[k] = r2[n][k]
      BY <1>1, <2>1, <2>2, <2>4, <3>1, <3>2 DEF First
    <3> QED BY <1>2, <2>1, <2>2, <2>4, <3>3 DEF Settled
  <2>5. CASE k \notin DOMAIN own /\ k \notin DOMAIN out
    <3>1. Givers(m, r, s, k) = {}
      BY <2>5 DEF Settled
    <3>2. First(Givers(m, r2, s, k), i) /\ out2[k] = r2[i][k]
      BY <1>1, <2>1, <2>2, <2>5, <3>1 DEF First
    <3> QED BY <1>2, <2>1, <2>2, <2>5, <3>2 DEF Settled
  <2> QED BY <2>3, <2>4, <2>5
<1> QED BY <1>3, <1>4

LEMMA SettledSet ==
    ASSUME NEW m, NEW r, NEW own, NEW out, NEW s, NEW k, NEW E \in SUBSET Nat, Settled(m, r, own, out, s, k, E),
           NEW i \in Nat, \A n \in E : n < i, m.env[i] \in Setting, None \notin DOMAIN out,
           NEW out2,
           out2 = IF Aimed(m, m.env[i], s)
                  THEN Over([x \in {m.env[i].name} |-> SubstituteVars(m.env[i].value, out)], out) ELSE out
    PROVE  Settled(m, r, own, out2, s, k, E \union {i})
<1> DEFINE F == E \union {i}
           name == m.env[i].name
           value == m.env[i].value
<1>1. name # None
  BY ComposeEnvAssumption DEF Setting
<1>2. CASE ~Aimed(m, m.env[i], s)
  <2>1. Setters(m, s, k, F) = Setters(m, s, k, E)
    BY <1>2 DEF Setters
  <2>2. out2 = out
    BY <1>2
  <2>3. \A n : SetTo(m, out, s, k, E, n) => SetTo(m, out, s, k, F, n)
    BY DEF SetTo
  <2> QED BY <2>1, <2>2, <2>3 DEF Settled
<1>3. CASE Aimed(m, m.env[i], s)
  <2>1. /\ DOMAIN out2 = DOMAIN out \union {name} /\ out2[name] = SubstituteVars(value, out)
        /\ \A x \in DOMAIN out : x # name => out2[x] = out[x]
    BY <1>3 DEF Over
  <2>2. CASE k # name
    <3>1. Setters(m, s, k, F) = Setters(m, s, k, E)
      BY <2>2 DEF Setters
    <3>2. (k \in DOMAIN out2 <=> k \in DOMAIN out) /\ (k \in DOMAIN out => out2[k] = out[k])
      BY <2>1, <2>2
    <3>3. ASSUME NEW n, Last(Setters(m, s, k, E), n), SetTo(m, out, s, k, E, n), k \in DOMAIN out
          PROVE  SetTo(m, out2, s, k, F, n)
      <4>1. n \in E /\ i >= n
        BY <3>3 DEF Last, Setters
      <4>2. CASE m.env[n].value.var = name
        BY <1>3, <2>1, <4>1, <4>2 DEF SetTo
      <4>3. CASE m.env[n].value.var # name
        <5>1. m.env[n].value.var \in DOMAIN out2 <=> m.env[n].value.var \in DOMAIN out
          BY <2>1, <4>3
        <5>2. m.env[n].value.var \in DOMAIN out => out2[m.env[n].value.var] = out[m.env[n].value.var]
          BY <2>1, <4>3
        <5> QED BY <3>2, <3>3, <5>1, <5>2 DEF SetTo
      <4> QED BY <4>2, <4>3
    <3> QED BY <3>1, <3>2, <3>3 DEF Settled
  <2>3. CASE k = name
    <3>1. Setters(m, s, k, F) = Setters(m, s, k, E) \union {i}
      BY <1>3, <2>3 DEF Setters
    <3>2. Last(Setters(m, s, k, F), i)
      BY <3>1 DEF Last, Setters
    <3>3. SetTo(m, out2, s, k, F, i)
      <4>1. CASE value.var = name
        BY <1>3, <2>1, <4>1 DEF SetTo
      <4>2. CASE value.var # name /\ value.var \in DOMAIN out
        <5>1. out2[k] = out[value.var] /\ out2[value.var] = out[value.var]
          BY <1>1, <2>1, <2>3, <4>2 DEF SubstituteVars
        <5> QED BY <2>1, <4>2, <5>1 DEF SetTo
      <4>3. CASE value.var # name /\ value.var \notin DOMAIN out
        <5>1. out2[k] = value
          BY <2>1, <2>3, <4>3 DEF SubstituteVars
        <5> QED BY <2>1, <4>3, <5>1 DEF SetTo
      <4> QED BY <4>1, <4>2, <4>3
    <3>4. k \in DOMAIN out2
      BY <2>1, <2>3
    <3> QED BY <3>1, <3>2, <3>3, <3>4 DEF Settled
  <2> QED BY <2>2, <2>3
<1> QED BY <1>2, <1>3

(* What a step makes of the services of the manifest, each of which has a    *)
(* map throughout.                                                           *)
Kept(m, t, c) ==
    t.step \in AtWork => \A s \in DOMAIN m.services : s \in DOMAIN c.services /\ c.services[s] # None

Entered(ns) == manifest.envFrom[task[ns].at]
Setted(ns) == manifest.env[task[ns].at]
ReadBy(ns) == store[<<ns, Entered(ns).ref>>]

LEMMA BeginIs ==
    ASSUME TypeInv, Begin, NEW ns \in Namespace
    PROVE  /\ UNCHANGED <<manifest, store, files, dirs, compose>> /\ read'[ns] = <<>>
           /\ held'[ns] = {<<ref, store[<<ns, ref>>]>> : ref \in Ref} /\ UNCHANGED <<backend, ever>>
           /\ \/ task'[ns].step = "idle" /\ ns \notin Tasks
              \/ task'[ns].step = "refused" /\ manifest.services = None
              \/ /\ task'[ns].step = "from" /\ task'[ns].at = 1 /\ ns \in Tasks
                 /\ copies'[ns] = Labelled(ns) /\ manifest.services \in Services
<1>1. manifest.services # None => manifest.services \in Services
  BY ManifestType
<1>2. task'[ns] = IF ns \notin Tasks THEN Idle
                  ELSE [Idle EXCEPT !.step = IF manifest.services = None THEN "refused" ELSE "from"]
  BY DEF Begin
<1>3. ns \in Tasks /\ manifest.services # None => copies'[ns] = Labelled(ns)
  BY DEF Begin
<1>4. UNCHANGED <<manifest, store, files, dirs, compose>> /\ read'[ns] = <<>>
      /\ held'[ns] = {<<ref, store[<<ns, ref>>]>> : ref \in Ref} /\ UNCHANGED <<backend, ever>>
  BY DEF Begin, Now, disk
<1> QED BY <1>1, <1>2, <1>3, <1>4 DEF Idle

LEMMA InjectsIs ==
    ASSUME TypeInv, NEW ns \in Namespace, Injects(ns), Kept(manifest, task[ns], copies[ns])
    PROVE  /\ Entered(ns) \in Entry /\ Entered(ns).ref \in Ref
           /\ ReadBy(ns) \in Source /\ ReadBy(ns) \notin {None, Broken} /\ Loaded(ReadBy(ns)) \in Map(Text)
           /\ DOMAIN copies'[ns].services =
                DOMAIN copies[ns].services \union TargetServices(copies[ns].services, Entered(ns).services)
           /\ \A s \in DOMAIN copies[ns].services :
                s \notin TargetServices(copies[ns].services, Entered(ns).services) =>
                copies'[ns].services[s] = copies[ns].services[s]
           /\ \A s \in TargetServices(copies[ns].services, Entered(ns).services) :
                copies'[ns].services[s] = IF NoMap(copies[ns].services, s) THEN None
                                          ELSE Over(copies[ns].services[s], Loaded(ReadBy(ns)))
           /\ \A s \in DOMAIN manifest.services :
                /\ s \in DOMAIN copies[ns].services
                /\ copies[ns].services[s] \in Map(Text) /\ copies'[ns].services[s] \in Map(Text)
                /\ copies'[ns].services[s] = IF Aimed(manifest, Entered(ns), s)
                                             THEN Over(copies[ns].services[s], Loaded(ReadBy(ns)))
                                             ELSE copies[ns].services[s]
                /\ s \in TargetServices(copies[ns].services, Entered(ns).services) <=> Aimed(manifest, Entered(ns), s)
<1> DEFINE c == copies[ns]
           targets == TargetServices(c.services, Entered(ns).services)
           kv == Loaded(ReadBy(ns))
<1>1. task[ns].step = "from" /\ c \in Copy /\ manifest.services \in Services
  BY DEF TypeInv, Fits, Injects, AtWork
<1>2. Entered(ns) \in Entry
  BY ManifestType DEF Injects, Entered
<1>3. Entered(ns).ref \in Ref
  BY <1>2 DEF Entry, Injects, Entered
<1>4. ReadBy(ns) \in Source /\ ReadBy(ns) \notin {None, Broken}
  BY <1>3 DEF TypeInv, Injects, Readable, ReadBy, Entered
<1>5. kv \in Map(Text)
  BY <1>4, LoadedIs
<1>6. c.services \in PartialFn(Service, Map(Text) \union {None}) /\ targets \in SUBSET Service
  BY <1>1, <1>2, TargetType DEF Copy, Entry
<1>7. copies'[ns].services = Injected(c.services, kv, targets)
  BY <1>1 DEF Injects, Entered, ReadBy, Copy
<1>8. ASSUME NEW s \in DOMAIN manifest.services
      PROVE  /\ s \in DOMAIN c.services /\ c.services[s] \in Map(Text)
             /\ s \in targets <=> Aimed(manifest, Entered(ns), s)
  <2>1. s \in DOMAIN c.services /\ c.services[s] # None
    BY <1>1 DEF Kept, AtWork
  <2>2. c.services[s] \in Map(Text)
    BY <1>6, <2>1, PartialFnIs
  <2> QED BY <2>1, <2>2 DEF TargetServices, Aimed
<1>9. \A s \in targets : copies'[ns].services[s] = IF NoMap(c.services, s) THEN None ELSE Over(c.services[s], kv)
  BY <1>7 DEF Injected
<1>10. \A s \in DOMAIN c.services : s \notin targets => copies'[ns].services[s] = c.services[s]
  BY <1>7 DEF Injected
<1>11. DOMAIN copies'[ns].services = DOMAIN c.services \union targets
  BY <1>7 DEF Injected
<1> HIDE DEF c, targets, kv
<1>12. \A s \in DOMAIN manifest.services :
         copies'[ns].services[s] = IF Aimed(manifest, Entered(ns), s) THEN Over(c.services[s], kv) ELSE c.services[s]
  BY <1>8, <1>9, <1>10, ComposeEnvAssumption DEF NoMap
<1>13. \A s \in DOMAIN manifest.services : copies'[ns].services[s] \in Map(Text)
  BY <1>5, <1>8, <1>12, OverIs DEF Map
<1> QED BY <1>2, <1>3, <1>4, <1>5, <1>8, <1>9, <1>10, <1>11, <1>12, <1>13 DEF c, targets, kv

LEMMA SetsIs ==
    ASSUME TypeInv, NEW ns \in Namespace, Sets(ns), Kept(manifest, task[ns], copies[ns])
    PROVE  /\ Setted(ns) \in Setting
           /\ DOMAIN copies'[ns].services = DOMAIN copies[ns].services
           /\ \A s \in DOMAIN copies[ns].services : copies'[ns].services[s] =
                IF s \notin TargetServices(copies[ns].services, Setted(ns).services) THEN copies[ns].services[s]
                ELSE Over([k \in {Setted(ns).name} |-> SubstituteVars(Setted(ns).value, copies[ns].services[s])],
                          copies[ns].services[s])
           /\ \A s \in TargetServices(copies[ns].services, Setted(ns).services) :
                s \in DOMAIN copies[ns].services /\ copies[ns].services[s] # None
           /\ \A s \in DOMAIN manifest.services :
                /\ s \in DOMAIN copies[ns].services
                /\ copies[ns].services[s] \in Map(Text) /\ copies'[ns].services[s] \in Map(Text)
                /\ s \in TargetServices(copies[ns].services, Setted(ns).services) <=> Aimed(manifest, Setted(ns), s)
<1> DEFINE c == copies[ns]
           targets == TargetServices(c.services, Setted(ns).services)
<1>1. task[ns].step = "env" /\ c \in Copy /\ manifest.services \in Services
  BY DEF TypeInv, Fits, Sets, AtWork
<1>2. Setted(ns) \in Setting
  BY ManifestType DEF Sets, Setted
<1>3. c.services \in PartialFn(Service, Map(Text) \union {None}) /\ targets \in SUBSET Service
  BY <1>1, <1>2, TargetType DEF Copy, Setting
<1>4. copies'[ns].services = Set(c.services, Setted(ns)) /\ \A s \in targets : ~NoMap(c.services, s)
  BY <1>1 DEF Sets, Setted, Copy
<1>5. ASSUME NEW s \in DOMAIN manifest.services
      PROVE  /\ s \in DOMAIN c.services /\ c.services[s] \in Map(Text)
             /\ s \in targets <=> Aimed(manifest, Setted(ns), s)
  <2>1. s \in DOMAIN c.services /\ c.services[s] # None
    BY <1>1 DEF Kept, AtWork
  <2>2. c.services[s] \in Map(Text)
    BY <1>3, <2>1, PartialFnIs
  <2> QED BY <2>1, <2>2 DEF TargetServices, Aimed
<1>6. DOMAIN copies'[ns].services = DOMAIN c.services
  BY <1>4 DEF Set
<1>7. \A s \in DOMAIN c.services : copies'[ns].services[s] =
        IF s \notin targets THEN c.services[s]
        ELSE Over([k \in {Setted(ns).name} |-> SubstituteVars(Setted(ns).value, c.services[s])], c.services[s])
  BY <1>4 DEF Set
<1>8. \A s \in targets : s \in DOMAIN c.services /\ c.services[s] # None
  BY <1>4 DEF NoMap
<1> HIDE DEF c, targets
<1>9. ASSUME NEW s \in DOMAIN manifest.services PROVE copies'[ns].services[s] \in Map(Text)
  <2>1. DOMAIN c.services[s] \subseteq Key /\ c.services[s] \in [DOMAIN c.services[s] -> Text]
    BY <1>5, PartialFnIs DEF Map
  <2>2. SubstituteVars(Setted(ns).value, c.services[s]) \in Text /\ Setted(ns).name \in Key
    BY <1>2, <2>1 DEF SubstituteVars, Setting
  <2>3. [k \in {Setted(ns).name} |-> SubstituteVars(Setted(ns).value, c.services[s])] \in PartialFn(Key, Text)
    BY <2>2, OneKey
  <2> QED BY <1>5, <1>7, <2>3, OverIs DEF Map
<1> QED BY <1>2, <1>5, <1>6, <1>7, <1>8, <1>9 DEF c, targets

LEMMA AddsIs ==
    ASSUME TypeInv, NEW ns \in Namespace, Adds(ns)
    PROVE  /\ DOMAIN copies[ns].services \subseteq DOMAIN copies'[ns].services
           /\ \A s \in DOMAIN copies'[ns].services :
                \/ copies'[ns].services[s] = None
                \/ s \in DOMAIN copies[ns].services /\ copies'[ns].services[s] = copies[ns].services[s]
           /\ \A s \in DOMAIN copies[ns].services : copies'[ns].services[s] = copies[ns].services[s]
           /\ copies'[ns].audit = copies[ns].audit /\ copies'[ns].label = copies[ns].label
<1> DEFINE c == copies[ns]
           targets == TargetServices(c.services, manifest.mounts[task[ns].at].services)
<1>1. task[ns].step = "file" /\ c \in Copy
  BY DEF TypeInv, Fits, Adds, AtWork
<1>2. c.services \in PartialFn(Service, Map(Text) \union {None})
  BY <1>1 DEF Copy
<1>3. copies'[ns].services = Injected(c.services, <<>>, targets)
      /\ copies'[ns].audit = c.audit /\ copies'[ns].label = c.label
  BY <1>1 DEF Adds, Copy
<1>4. ASSUME NEW s \in DOMAIN c.services, c.services[s] # None PROVE Over(c.services[s], <<>>) = c.services[s]
  BY <1>2, <1>4, OverEmpty, PartialFnIs DEF Map
<1>5. DOMAIN copies'[ns].services = DOMAIN c.services \union targets
  BY <1>3 DEF Injected
<1>6. \A s \in DOMAIN copies'[ns].services : copies'[ns].services[s] =
        IF s \notin targets THEN c.services[s]
        ELSE IF NoMap(c.services, s) THEN None ELSE Over(c.services[s], <<>>)
  BY <1>3 DEF Injected
<1> HIDE DEF c, targets
<1> QED BY <1>3, <1>4, <1>5, <1>6 DEF c, NoMap

FromDone(m, t) == {i \in DOMAIN m.envFrom : t.step = "from" => i < t.at}
EnvDone(m, t) == {i \in DOMAIN m.env : t.step # "from" /\ (t.step = "env" => i < t.at)}

Chosen(m, t, c, r) ==
    t.step \in AtWork =>
        /\ DOMAIN r \subseteq FromDone(m, t)
        /\ \A s \in DOMAIN m.services, k \in Key :
             Settled(m, r, m.services[s], c.services[s], s, k, EnvDone(m, t))

KeptInv == \A ns \in Namespace : Kept(manifest, task[ns], copies[ns])
DoneInv == \A ns \in Namespace : Done(ns) => compose[ns] = copies[ns]
ChosenInv == \A ns \in Namespace : Chosen(manifest, task[ns], copies[ns], read[ns])

(* Steps that lead to no work, or keep the services as they are.             *)
LEMMA StepOf ==
    ASSUME TypeInv, NEW ns \in Namespace, View(ns)
    PROVE  /\ manifest' = manifest
           /\ Ended(ns) => task'[ns].step \notin AtWork
           /\ task'[ns].step \in AtWork => Frame(ns) \/ task[ns].step \in AtWork \ {"done"}
           /\ Skipped(ns) \/ Turns(ns) \/ Opens(ns) \/ Writes(ns) \/ Saves(ns) => copies'[ns] = copies[ns]
           /\ View(ns) /\ ~Injects(ns) /\ ~Ended(ns) => read'[ns] = read[ns]
<1>1. task[ns] \in Task
  BY DEF TypeInv
<1>2. manifest' = manifest
  BY DEF View, Frame, Ended, Skipped, Injects, Sets, Turns, Opens, Writes, Adds, Saves, Still
<1>3. Ended(ns) => task'[ns].step \notin AtWork
  BY <1>1 DEF Ended, Task, AtWork
<1>4. task'[ns].step \in AtWork => Frame(ns) \/ task[ns].step \in AtWork \ {"done"}
  BY <1>3 DEF View, Skipped, Injects, Sets, Turns, Opens, Writes, Adds, Saves, AtWork
<1>5. Skipped(ns) \/ Turns(ns) \/ Opens(ns) \/ Writes(ns) \/ Saves(ns) => copies'[ns] = copies[ns]
  BY DEF Skipped, Turns, Opens, Writes, Saves
<1>6. View(ns) /\ ~Injects(ns) /\ ~Ended(ns) => read'[ns] = read[ns]
  BY DEF View, Frame, Skipped, Sets, Turns, Opens, Writes, Adds, Saves, Unread
<1> QED BY <1>2, <1>3, <1>4, <1>5, <1>6

LEMMA OwnMaps ==
    ASSUME TypeInv, manifest.services \in Services
    PROVE  \A s \in DOMAIN manifest.services : manifest.services[s] \in Map(Text) /\ manifest.services[s] # None
BY PartialFnIs, ComposeEnvAssumption DEF Services

LEMMA KeptNext == TypeInv /\ KeptInv /\ [Next]_vars => KeptInv'
<1> SUFFICES ASSUME TypeInv, KeptInv, [Next]_vars, NEW ns \in Namespace
             PROVE  Kept(manifest', task'[ns], copies'[ns])
  BY DEF KeptInv
<1>1. Kept(manifest, task[ns], copies[ns])
  BY DEF KeptInv
<1>2. CASE Begin
  <2>1. manifest' = manifest
    BY <1>2, BeginIs
  <2>2. ASSUME task'[ns].step \in AtWork
        PROVE  copies'[ns].services = manifest.services /\ manifest.services \in Services
    <3>1. copies'[ns] = Labelled(ns) /\ manifest.services \in Services
      BY <1>2, <2>2, BeginIs DEF AtWork
    <3> QED BY <3>1 DEF Labelled
  <2> QED BY <2>1, <2>2, OwnMaps DEF Kept
<1>3. CASE View(ns)
  <2> SUFFICES ASSUME task'[ns].step \in AtWork,  NEW s \in DOMAIN manifest.services
               PROVE  s \in DOMAIN copies'[ns].services /\ copies'[ns].services[s] # None
    BY <1>3, StepOf DEF Kept
  <2>1. CASE Frame(ns)
    BY <1>1, <2>1 DEF Frame, Kept
  <2>2. task[ns].step \in AtWork \/ Frame(ns)
    BY <1>3, StepOf
  <2>3. CASE Injects(ns)
    BY <1>1, <2>3, InjectsIs, ComposeEnvAssumption
  <2>4. CASE Sets(ns)
    <3>1. copies'[ns].services[s] \in Map(Text) /\ s \in DOMAIN copies[ns].services
      BY <1>1, <2>4, SetsIs
    <3>2. DOMAIN copies'[ns].services = DOMAIN copies[ns].services
      BY <1>1, <2>4, SetsIs
    <3> QED BY <3>1, <3>2, ComposeEnvAssumption
  <2>5. CASE Adds(ns)
    BY <1>1, <2>2, <2>5, AddsIs DEF Kept, Frame
  <2>6. CASE copies'[ns] = copies[ns]
    BY <1>1, <2>2, <2>6 DEF Kept, Frame
  <2> QED BY <1>3, <2>1, <2>3, <2>4, <2>5, <2>6, StepOf DEF View
<1> QED BY <1>2, <1>3, ViewNext

LEMMA DoneNext == TypeInv /\ DoneInv /\ [Next]_vars => DoneInv'
<1> SUFFICES ASSUME TypeInv, DoneInv, [Next]_vars, NEW ns \in Namespace, task'[ns].step = "done"
             PROVE  compose'[ns] = copies'[ns]
  BY DEF DoneInv, Done
<1>1. task[ns] \in Task
  BY DEF TypeInv
<1>2. ~Begin
  BY BeginIs
<1>3. CASE Frame(ns)
  BY <1>3 DEF Frame, Unread, DoneInv, Done
<1>4. CASE Saves(ns)
  BY <1>4 DEF Saves
<1>5. View(ns) => Frame(ns) \/ Saves(ns)
  <2>1. ~Ended(ns)
    BY <1>1 DEF Ended, Task
  <2>2. ~Skipped(ns) /\ ~Injects(ns) /\ ~Sets(ns) /\ ~Turns(ns)
    BY <1>1 DEF Skipped, Injects, Sets, Turns, Task
  <2>3. ~Opens(ns) /\ ~Writes(ns) /\ ~Adds(ns)
    BY <1>1 DEF Opens, Writes, Adds, Task
  <2> QED BY <2>1, <2>2, <2>3 DEF View
<1> QED BY <1>2, <1>3, <1>4, <1>5, ViewNext

LEMMA ChosenBegin ==
    ASSUME TypeInv, Begin, NEW ns \in Namespace
    PROVE  Chosen(manifest', task'[ns], copies'[ns], read'[ns])
<1> SUFFICES ASSUME task'[ns].step \in AtWork PROVE Chosen(manifest', task'[ns], copies'[ns], read'[ns])
  BY DEF Chosen
<1>1. /\ manifest' = manifest /\ task'[ns].step = "from" /\ task'[ns].at = 1 /\ copies'[ns] = Labelled(ns)
      /\ read'[ns] = <<>> /\ manifest.services \in Services
  BY BeginIs DEF AtWork
<1>2. EnvDone(manifest, task'[ns]) = {} /\ copies'[ns].services = manifest.services
  BY <1>1 DEF EnvDone, Labelled
<1> QED BY <1>1, <1>2, EmptyFn, SettledStart DEF Chosen

LEMMA ChosenInjects ==
    ASSUME TypeInv, NEW ns \in Namespace, Injects(ns), Kept(manifest, task[ns], copies[ns]),
           Chosen(manifest, task[ns], copies[ns], read[ns])
    PROVE  Chosen(manifest', task'[ns], copies'[ns], read'[ns])
<1> DEFINE i == task[ns].at
           kv == Loaded(ReadBy(ns))
<1>1. /\ task[ns] \in Task /\ task[ns].step = "from" /\ i \in DOMAIN manifest.envFrom
      /\ task'[ns] = [task[ns] EXCEPT !.at = @ + 1] /\ manifest' = manifest
  BY DEF TypeInv, Injects, Still
<1>2. task'[ns].step = "from" /\ task'[ns].at = i + 1 /\ i \in Nat
  BY <1>1 DEF Task
<1>3. read'[ns] = Over([x \in {i} |-> kv], read[ns])
  BY DEF Injects, ReadBy, Entered
<1>4. EnvDone(manifest, task[ns]) = {} /\ EnvDone(manifest, task'[ns]) = {}
  BY <1>1, <1>2 DEF EnvDone
<1>5. /\ DOMAIN manifest.envFrom \subseteq Nat
      /\ FromDone(manifest, task[ns]) = {n \in DOMAIN manifest.envFrom : n < i}
      /\ FromDone(manifest, task'[ns]) = {n \in DOMAIN manifest.envFrom : n < i + 1}
  BY <1>1, <1>2, ManifestType DEF FromDone
<1>6. DOMAIN read[ns] \subseteq Nat /\ \A n \in DOMAIN read[ns] : n < i /\ n \in DOMAIN manifest.envFrom
  BY <1>1, <1>5 DEF Chosen, AtWork
<1>7. DOMAIN read'[ns] = DOMAIN read[ns] \union {i}
  BY <1>3 DEF Over
<1>8. DOMAIN read'[ns] \subseteq FromDone(manifest, task'[ns])
  BY <1>1, <1>2, <1>5, <1>6, <1>7
<1>9. ASSUME NEW s \in DOMAIN manifest.services, NEW k \in Key
      PROVE  Settled(manifest, read'[ns], manifest.services[s], copies'[ns].services[s], s, k, {})
  <2>1. copies'[ns].services[s] = IF Aimed(manifest, manifest.envFrom[i], s)
                                  THEN Over(copies[ns].services[s], kv) ELSE copies[ns].services[s]
    BY InjectsIs DEF Entered
  <2>2. Settled(manifest, read[ns], manifest.services[s], copies[ns].services[s], s, k, {})
    BY <1>1, <1>4 DEF Chosen, AtWork
  <2> HIDE DEF i, kv
  <2> QED BY <1>2, <1>3, <1>6, <2>1, <2>2, SettledTake
<1> QED BY <1>1, <1>4, <1>8, <1>9 DEF Chosen

LEMMA ChosenSets ==
    ASSUME TypeInv, NEW ns \in Namespace, Sets(ns), Kept(manifest, task[ns], copies[ns]),
           Chosen(manifest, task[ns], copies[ns], read[ns])
    PROVE  Chosen(manifest', task'[ns], copies'[ns], read'[ns])
<1> DEFINE i == task[ns].at
           E == EnvDone(manifest, task[ns])
<1>1. /\ task[ns] \in Task /\ task[ns].step = "env" /\ i \in DOMAIN manifest.env
      /\ task'[ns] = [task[ns] EXCEPT !.at = @ + 1] /\ manifest' = manifest /\ read'[ns] = read[ns]
  BY DEF TypeInv, Sets, Unread, Still
<1>2. task'[ns].step = "env" /\ task'[ns].at = i + 1 /\ i \in Nat
  BY <1>1 DEF Task
<1>3. DOMAIN manifest.env \subseteq Nat
  BY ManifestType
<1>4. E = {n \in DOMAIN manifest.env : n < i} /\ EnvDone(manifest, task'[ns]) = E \union {i}
  BY <1>1, <1>2, <1>3 DEF EnvDone
<1>5. FromDone(manifest, task'[ns]) = FromDone(manifest, task[ns])
  BY <1>1, <1>2 DEF FromDone
<1>6. ASSUME NEW s \in DOMAIN manifest.services, NEW k \in Key
      PROVE  Settled(manifest, read[ns], manifest.services[s], copies'[ns].services[s], s, k, E \union {i})
  <2>1. s \in DOMAIN copies[ns].services /\ copies[ns].services[s] \in Map(Text) /\ Setted(ns) \in Setting
    BY SetsIs
  <2>2. copies'[ns].services[s] = IF Aimed(manifest, Setted(ns), s)
          THEN Over([x \in {Setted(ns).name} |-> SubstituteVars(Setted(ns).value, copies[ns].services[s])],
                    copies[ns].services[s])
          ELSE copies[ns].services[s]
    BY SetsIs
  <2>3. Settled(manifest, read[ns], manifest.services[s], copies[ns].services[s], s, k, E)
    BY <1>1 DEF Chosen, AtWork
  <2>4. None \notin DOMAIN copies[ns].services[s]
    BY <2>1, PartialFnIs, ComposeEnvAssumption DEF Map
  <2>5. E \in SUBSET Nat /\ \A n \in E : n < i
    BY <1>3, <1>4
  <2>6. Setted(ns) = manifest.env[i]
    BY DEF Setted
  <2> HIDE DEF i, E
  <2> QED BY <1>2, <2>1, <2>2, <2>3, <2>4, <2>5, <2>6, SettledSet
<1> QED BY <1>1, <1>4, <1>5, <1>6 DEF Chosen, AtWork

(* Other steps read and set nothing.                                         *)
LEMMA ChosenKeeps ==
    ASSUME TypeInv, NEW ns \in Namespace, Chosen(manifest, task[ns], copies[ns], read[ns]),
           task[ns].step \in AtWork, manifest' = manifest, read'[ns] = read[ns],
           FromDone(manifest, task[ns]) \subseteq FromDone(manifest, task'[ns]),
           EnvDone(manifest, task'[ns]) = EnvDone(manifest, task[ns]),
           \A s \in DOMAIN manifest.services : copies'[ns].services[s] = copies[ns].services[s]
    PROVE  Chosen(manifest', task'[ns], copies'[ns], read'[ns])
BY DEF Chosen

LEMMA ChosenNext == TypeInv /\ KeptInv /\ ChosenInv /\ [Next]_vars => ChosenInv'
<1> SUFFICES ASSUME TypeInv, KeptInv, ChosenInv, [Next]_vars, NEW ns \in Namespace
             PROVE  Chosen(manifest', task'[ns], copies'[ns], read'[ns])
  BY DEF ChosenInv
<1>1. Chosen(manifest, task[ns], copies[ns], read[ns]) /\ Kept(manifest, task[ns], copies[ns])
  BY DEF ChosenInv, KeptInv
<1>2. task[ns] \in Task /\ Fits(manifest, ns, task[ns], copies[ns])
  BY DEF TypeInv
<1>3. CASE Begin
  BY <1>3, ChosenBegin
<1>4. CASE Frame(ns)
  BY <1>1, <1>4 DEF Frame, Unread
<1>5. CASE Ended(ns)
  <2>1. task'[ns].step \notin AtWork
    BY <1>2, <1>5 DEF Ended, Task, AtWork
  <2> QED BY <2>1 DEF Chosen
<1>6. CASE Skipped(ns)
  <2>1. task'[ns].step = task[ns].step /\ task'[ns].at = task[ns].at + 1 /\ task[ns].at \in Nat
    BY <1>2, <1>6 DEF Skipped, Task
  <2>2. DOMAIN manifest.envFrom \subseteq Nat
    BY ManifestType
  <2>3. task[ns].step \in {"from", "mount"}
    BY <1>6 DEF Skipped
  <2>4. FromDone(manifest, task[ns]) \subseteq FromDone(manifest, task'[ns])
    BY <2>1, <2>2 DEF FromDone
  <2>5. EnvDone(manifest, task'[ns]) = EnvDone(manifest, task[ns])
    BY <2>1, <2>3 DEF EnvDone
  <2> QED BY <1>1, <1>6, <2>3, <2>4, <2>5, ChosenKeeps DEF Skipped, Unread, Still, AtWork
<1>7. CASE Injects(ns)
  BY <1>1, <1>7, ChosenInjects
<1>8. CASE Sets(ns)
  BY <1>1, <1>8, ChosenSets
<1>9. CASE Turns(ns)
  <2>1. DOMAIN manifest.envFrom = 1..Len(manifest.envFrom) /\ DOMAIN manifest.env = 1..Len(manifest.env)
        /\ Len(manifest.envFrom) \in Nat /\ Len(manifest.env) \in Nat
    BY ManifestType
  <2>2. \/ task[ns].step = "from" /\ task[ns].at = Len(manifest.envFrom) + 1
           /\ task'[ns].step = "env" /\ task'[ns].at = 1
        \/ task[ns].step = "env" /\ task[ns].at = Len(manifest.env) + 1 /\ task'[ns].step = "mount"
    BY <1>2, <1>9 DEF Turns, Task
  <2>3. FromDone(manifest, task[ns]) \subseteq FromDone(manifest, task'[ns])
    BY <2>2 DEF FromDone
  <2>4. EnvDone(manifest, task'[ns]) = EnvDone(manifest, task[ns])
    BY <2>1, <2>2 DEF EnvDone
  <2> QED BY <1>1, <1>9, <2>2, <2>3, <2>4, ChosenKeeps DEF Turns, Unread, Still, AtWork
<1>10. CASE Opens(ns) \/ Writes(ns) \/ Adds(ns) \/ Saves(ns)
  <2>1. task[ns].step \in {"mount", "file"} /\ task'[ns].step \in {"mount", "file", "done"}
    <3>1. CASE Opens(ns)
      BY <1>2, <3>1 DEF Opens, Task
    <3>2. CASE Writes(ns)
      BY <1>2, <3>2 DEF Writes, Task
    <3>3. CASE Adds(ns) \/ Saves(ns)
      BY <1>2, <3>3 DEF Adds, Saves, Task
    <3> QED BY <1>10, <3>1, <3>2, <3>3
  <2>2. FromDone(manifest, task[ns]) \subseteq FromDone(manifest, task'[ns])
    BY <2>1 DEF FromDone
  <2>3. EnvDone(manifest, task'[ns]) = EnvDone(manifest, task[ns])
    BY <2>1 DEF EnvDone
  <2>4. \A s \in DOMAIN manifest.services : copies'[ns].services[s] = copies[ns].services[s]
    BY <1>1, <1>10, <2>1, AddsIs DEF Opens, Writes, Saves, Kept, AtWork
  <2>5. manifest' = manifest /\ read'[ns] = read[ns]
    BY <1>10 DEF Opens, Writes, Adds, Saves, Unread, Still
  <2> QED BY <1>1, <2>1, <2>2, <2>3, <2>4, <2>5, ChosenKeeps DEF AtWork
<1> QED BY <1>3, <1>4, <1>5, <1>6, <1>7, <1>8, <1>9, <1>10, ViewNext DEF View

(* What Precedence says of one variable of one service.                      *)
Precedes(r, out, s, k) ==
    LET setting == {i \in DOMAIN manifest.env : manifest.env[i].name = k /\ Targeted(manifest.env[i], s)}
        giving == {i \in DOMAIN r : Targeted(manifest.envFrom[i], s) /\ k \in DOMAIN r[i]}
        last == CHOOSE i \in setting : \A n \in setting : n <= i
        first == CHOOSE i \in giving : \A n \in giving : i <= n
        value == manifest.env[last].value
        setLater == \E i \in DOMAIN manifest.env :
            i >= last /\ manifest.env[i].name = value.var /\ Targeted(manifest.env[i], s)
    IN  /\ k \in DOMAIN out <=> k \in DOMAIN Own[s] \/ setting # {} \/ giving # {}
        /\ setting = {} /\ k \in DOMAIN out =>
             out[k] = IF k \in DOMAIN Own[s] THEN Own[s][k] ELSE r[first][k]
        /\ setting # {} =>
             IF value.var \in DOMAIN out THEN setLater \/ out[k] = out[value.var]
             ELSE out[k] = value

LEMMA PrecedenceIs ==
    (\A ns \in Tasks : Done(ns) => \A s \in DOMAIN Own, k \in Key : Precedes(read[ns], compose[ns].services[s], s, k))
      => Precedence
BY Zenon DEF Precedes, Precedence

LEMMA SettledEnd ==
    ASSUME TypeInv, NEW r, DOMAIN r \subseteq Nat, NEW out, NEW s, NEW k,
           Settled(manifest, r, manifest.services[s], out, s, k, DOMAIN manifest.env)
    PROVE  Precedes(r, out, s, k)
<1> DEFINE setting == {i \in DOMAIN manifest.env : manifest.env[i].name = k /\ Targeted(manifest.env[i], s)}
           giving == {i \in DOMAIN r : Targeted(manifest.envFrom[i], s) /\ k \in DOMAIN r[i]}
           last == CHOOSE i \in setting : \A n \in setting : n <= i
           first == CHOOSE i \in giving : \A n \in giving : i <= n
<1>1. setting = Setters(manifest, s, k, DOMAIN manifest.env) /\ giving = Givers(manifest, r, s, k)
  BY DEF Setters, Givers, Targeted, Aimed
<1>2. DOMAIN manifest.env \subseteq Nat
  BY ManifestType
<1>3. setting \subseteq Nat /\ giving \subseteq Nat
  BY <1>2
<1> HIDE DEF setting, giving
<1>10. ASSUME NEW i, Last(setting, i) PROVE last \in setting /\ \A n \in setting : n <= last
  BY <1>10 DEF Last
<1>11. ASSUME NEW i, First(giving, i) PROVE first \in giving /\ \A n \in giving : first <= n
  BY <1>11 DEF First
<1> HIDE DEF last, first
<1>4. ASSUME NEW i, Last(setting, i) PROVE last = i
  <2>1. last \in setting /\ i \in setting /\ i <= last /\ last <= i
    BY <1>4, <1>10 DEF Last
  <2>2. last \in Nat /\ i \in Nat
    BY <1>3, <2>1
  <2> QED BY <2>1, <2>2
<1>5. ASSUME NEW i, First(giving, i) PROVE first = i
  <2>1. first \in giving /\ i \in giving /\ i <= first /\ first <= i
    BY <1>5, <1>11 DEF First
  <2>2. first \in Nat /\ i \in Nat
    BY <1>3, <2>1
  <2> QED BY <2>1, <2>2
<1>6. k \in DOMAIN out <=> k \in DOMAIN manifest.services[s] \/ setting # {} \/ giving # {}
  BY <1>1 DEF Settled
<1>7. setting = {} /\ k \in DOMAIN out =>
        out[k] = IF k \in DOMAIN manifest.services[s] THEN manifest.services[s][k] ELSE r[first][k]
  BY <1>1, <1>5 DEF Settled
<1>8. setting # {} => SetTo(manifest, out, s, k, DOMAIN manifest.env, last)
  BY <1>1, <1>4 DEF Settled
<1>9. SetTo(manifest, out, s, k, DOMAIN manifest.env, last) =>
        IF manifest.env[last].value.var \in DOMAIN out
        THEN \/ \E i \in DOMAIN manifest.env :
                  /\ i >= last /\ manifest.env[i].name = manifest.env[last].value.var
                  /\ Targeted(manifest.env[i], s)
             \/ out[k] = out[manifest.env[last].value.var]
        ELSE out[k] = manifest.env[last].value
  BY DEF SetTo, Targeted, Aimed
<1> QED BY Zenon, <1>6, <1>7, <1>8, <1>9 DEF setting, giving, last, first, Precedes, Own

LEMMA ChosenPrecedence == TypeInv /\ DoneInv /\ KeptInv /\ ChosenInv => Precedence
<1> SUFFICES ASSUME TypeInv, DoneInv, KeptInv, ChosenInv, NEW ns \in Tasks, Done(ns),
                    NEW s \in DOMAIN Own, NEW k \in Key
             PROVE  Precedes(read[ns], compose[ns].services[s], s, k)
  BY Zenon, PrecedenceIs
<1>1. ns \in Namespace
  BY ManifestType DEF Tasks
<1>2. EnvDone(manifest, task[ns]) = DOMAIN manifest.env /\ FromDone(manifest, task[ns]) = DOMAIN manifest.envFrom
  BY DEF EnvDone, FromDone, Done
<1>3. compose[ns] = copies[ns] /\ Chosen(manifest, task[ns], copies[ns], read[ns])
  BY <1>1 DEF DoneInv, ChosenInv
<1>4. DOMAIN manifest.envFrom \subseteq Nat
  BY ManifestType
<1>5. Settled(manifest, read[ns], manifest.services[s], compose[ns].services[s], s, k, DOMAIN manifest.env)
      /\ DOMAIN read[ns] \subseteq Nat
  BY <1>2, <1>3, <1>4 DEF Chosen, Done, AtWork, Own
<1> QED BY <1>5, SettledEnd

-----------------------------------------------------------------------------
(* held has what the sources of a namespace are, and were since the command  *)
(* began.                                                                    *)

Holds(ns) ==
    /\ held[ns] \subseteq Ref \X (Source \union {None, Broken})
    /\ ns \in Tasks /\ task[ns].step # "idle" => \A ref \in Ref : <<ref, store[<<ns, ref>>]>> \in held[ns]

HeldInv == \A ns \in Namespace : Holds(ns)

LEMMA HeldNext == TypeInv /\ HeldInv /\ [Next]_vars => HeldInv'
<1> SUFFICES ASSUME TypeInv, HeldInv, [Next]_vars, NEW ns \in Namespace PROVE Holds(ns)'
  BY DEF HeldInv
<1>1. /\ held[ns] \subseteq Ref \X (Source \union {None, Broken})
      /\ ns \in Tasks /\ task[ns].step # "idle" => \A ref \in Ref : <<ref, store[<<ns, ref>>]>> \in held[ns]
  BY DEF HeldInv, Holds
<1>2. CASE UNCHANGED vars \/ Doctor
  BY <1>1, <1>2 DEF vars, history, Doctor, Holds, Tasks
<1>3. CASE Elsewhere
  <2>1. PICK n \in Tasks, r \in Ref, source \in Later :
          /\ store' = [store EXCEPT ![<<n, r>>] = source]
          /\ held' = [held EXCEPT ![n] = @ \union {<<r, source>>}]
    BY <1>3 DEF Elsewhere
  <2>2. UNCHANGED <<manifest, task>> /\ source \in Source \union {None, Broken}
    BY <1>3, ComposeEnvAssumption DEF Elsewhere
  <2>3. held'[ns] = IF ns = n THEN held[ns] \union {<<r, source>>} ELSE held[ns]
    BY <2>1 DEF TypeInv
  <2>4. \A ref \in Ref : store'[<<ns, ref>>] = IF ns = n /\ ref = r THEN source ELSE store[<<ns, ref>>]
    BY <2>1 DEF TypeInv
  <2> QED BY <1>1, <2>2, <2>3, <2>4 DEF Holds, Tasks
<1>4. CASE Begin
  <2>1. /\ held'[ns] = {<<ref, store[<<ns, ref>>]>> : ref \in Ref}
        /\ store' = store
    BY <1>4, BeginIs
  <2>2. \A ref \in Ref : store[<<ns, ref>>] \in Source \union {None, Broken}
    <3>1. store \in [Namespace \X Ref -> Source \union {None, Broken}]
      BY DEF TypeInv
    <3> QED BY <3>1
  <2>3. held'[ns] \subseteq Ref \X (Source \union {None, Broken})
    <3> SUFFICES ASSUME NEW h \in held'[ns] PROVE h \in Ref \X (Source \union {None, Broken})
      OBVIOUS
    <3>1. PICK ref \in Ref : h = <<ref, store[<<ns, ref>>]>>
      BY <2>1
    <3> QED BY <2>2, <3>1
  <2>4. \A ref \in Ref : <<ref, store'[<<ns, ref>>]>> \in held'[ns]
    BY <2>1
  <2> QED BY <2>3, <2>4 DEF Holds
<1>5. CASE Goes
  <2>1. UNCHANGED <<manifest, store, held>> /\ View(ns)
    BY <1>5, GoesForm, ViewGoes
  <2>2. task'[ns].step # "idle" => task[ns].step # "idle"
    BY <2>1 DEF View, Frame, Ended, Working, Skipped, Injects, Sets, Turns, Opens, Writes, Adds, Saves
  <2> QED BY <1>1, <2>1, <2>2 DEF Holds, Tasks
<1> QED BY <1>2, <1>3, <1>4, <1>5, NextIs

LEMMA HeldGrows ==
    ASSUME NEW ns, View(ns)
    PROVE  held[ns] \subseteq held'[ns]
BY DEF View, Frame, Ended, Skipped, Injects, Sets, Turns, Opens, Writes, Adds, Saves, Still

(* What a goroutine reads is in held.                                        *)
LEMMA ReadHeld ==
    ASSUME TypeInv, HeldInv, NEW ns \in Namespace, task[ns].step \in AtWork, NEW ref \in Ref
    PROVE  <<ref, store[<<ns, ref>>]>> \in held[ns]
BY DEF TypeInv, Fits, HeldInv, Holds, Tasks, AtWork

-----------------------------------------------------------------------------
(* The labels of an App name the one source of a variable, or spec.env.      *)

Names(audit, s, k) == {a[2] : a \in {x \in audit : x[1] = s /\ x[3] = k}}

Told(own, out, by, H, k) ==
    /\ k \in DOMAIN own \/ by # {} => k \in DOMAIN out
    /\ \A r1, r2 \in by \ {None} : r1 = r2
    /\ by \ {None} # {} => k \notin DOMAIN own
    /\ k \in DOMAIN out /\ by = {} => k \in DOMAIN own /\ out[k] = own[k]
    /\ k \in DOMAIN out /\ None \notin by => \A ref \in by : \E h \in H : h[1] = ref /\ Says(h[2], k, out[k])

Audited(m, t, c, H) ==
    t.step \in AtWork /\ m.kind = "App" =>
        \A s \in DOMAIN m.services, k \in Key : Told(m.services[s], c.services[s], Names(c.audit, s, k), H, k)

AuditInv == \A ns \in Namespace : Audited(manifest, task[ns], copies[ns], held[ns])

(* B are the labels that one entry adds, of ref and the keys Keys[x] of each *)
(* service x that it is for; out2 is out with name set.                      *)
Labels(B, S, ref, Keys) == \A a : a \in B <=> \E x \in S : \E y \in Keys[x] : a = <<x, ref, y>>
WithName(out, out2, name) ==
    DOMAIN out2 = DOMAIN out \union {name} /\ \A x \in DOMAIN out : x # name => out2[x] = out[x]

LEMMA NamesOfMore ==
    ASSUME NEW A, NEW B, NEW S, NEW ref, NEW Keys, NEW s, NEW k,
           Labels(B, S, ref, Keys)
    PROVE  Names(A \union B, s, k) = Names(A, s, k) \union (IF s \in S /\ k \in Keys[s] THEN {ref} ELSE {})
<1>1. \A r : r \in Names(A \union B, s, k) <=> r \in Names(A, s, k) \/ r \in Names(B, s, k)
  BY DEF Names
<1>2. \A r : r \in Names(B, s, k) <=> s \in S /\ k \in Keys[s] /\ r = ref
  <2> SUFFICES ASSUME NEW r PROVE r \in Names(B, s, k) <=> s \in S /\ k \in Keys[s] /\ r = ref
    OBVIOUS
  <2>1. ASSUME r \in Names(B, s, k) PROVE s \in S /\ k \in Keys[s] /\ r = ref
    <3>1. PICK a \in B : a[1] = s /\ a[3] = k /\ a[2] = r
      BY <2>1 DEF Names
    <3>2. PICK x \in S : \E y \in Keys[x] : a = <<x, ref, y>>
      BY DEF Labels
    <3> QED BY <3>1, <3>2
  <2>2. ASSUME s \in S, k \in Keys[s], r = ref PROVE r \in Names(B, s, k)
    <3>1. <<s, ref, k>> \in B
      BY <2>2 DEF Labels
    <3> QED BY <2>2, <3>1 DEF Names
  <2> QED BY <2>1, <2>2
<1> QED BY <1>1, <1>2

LEMMA ToldMore ==
    ASSUME NEW own, NEW out, NEW by, NEW H, NEW k, Told(own, out, by, H, k), NEW H2, H \subseteq H2
    PROVE  Told(own, out, by, H2, k)
BY DEF Told

LEMMA ToldTake ==
    ASSUME NEW own, NEW out, NEW by, NEW H, NEW k, Told(own, out, by, H, k),
           NEW source, NEW kv, kv = Loaded(source), source \in Source, source \notin {None, Broken},
           NEW ref \in Ref, <<ref, source>> \in H,
           NEW out2, out2 = Over(out, kv), NEW by2, by2 = by \union (IF k \in DOMAIN kv \ DOMAIN out THEN {ref} ELSE {})
    PROVE  Told(own, out2, by2, H, k)
<1>1. \A x \in DOMAIN kv : Says(source, x, kv[x])
  BY LoadedIs
<1>2. DOMAIN out2 = DOMAIN out \union DOMAIN kv /\ \A x \in DOMAIN out2 : out2[x] = IF x \in DOMAIN out THEN out[x] ELSE kv[x]
  BY DEF Over
<1>3. CASE k \in DOMAIN kv \ DOMAIN out
  <2>1. by = {} /\ by2 = {ref} /\ k \notin DOMAIN own
    BY <1>3 DEF Told
  <2>2. <<ref, source>>[1] = ref /\ Says(<<ref, source>>[2], k, out2[k])
    BY <1>1, <1>2, <1>3
  <2>3. ref # None
    BY ComposeEnvAssumption
  <2> QED BY <1>2, <1>3, <2>1, <2>2, <2>3 DEF Told
<1>4. CASE k \notin DOMAIN kv \ DOMAIN out
  <2>1. by2 = by /\ (k \in DOMAIN out2 <=> k \in DOMAIN out) /\ (k \in DOMAIN out => out2[k] = out[k])
    BY <1>2, <1>4
  <2> QED BY <2>1 DEF Told
<1> QED BY <1>3, <1>4

LEMMA ToldSet ==
    ASSUME NEW own, NEW out, NEW by, NEW H, NEW k, Told(own, out, by, H, k), NEW name,
           NEW out2, WithName(out, out2, name),
           NEW by2, by2 = by \union (IF k = name THEN {None} ELSE {})
    PROVE  Told(own, out2, by2, H, k)
<1>1. CASE k = name
  BY <1>1 DEF Told, WithName
<1>2. CASE k # name
  BY <1>2 DEF Told, WithName
<1> QED BY <1>1, <1>2

LEMMA AuditInjects ==
    ASSUME TypeInv, KeptInv, HeldInv, NEW ns \in Namespace, Injects(ns), manifest.kind = "App",
           Audited(manifest, task[ns], copies[ns], held[ns]), NEW s \in DOMAIN manifest.services, NEW k \in Key
    PROVE  Told(manifest.services[s], copies'[ns].services[s], Names(copies'[ns].audit, s, k), held[ns], k)
<1> DEFINE c == copies[ns]
           ref == Entered(ns).ref
           targets == TargetServices(c.services, Entered(ns).services)
           kv == Loaded(ReadBy(ns))
           Keys == [x \in targets |-> NewKeys(c.services, kv, x)]
           B == UNION {Audit(x, ref, NewKeys(c.services, kv, x)) : x \in targets}
<1>1. task[ns].step = "from" /\ task[ns].step \in AtWork /\ c \in Copy
  BY DEF Injects, AtWork, TypeInv, Fits
<1>2. Kept(manifest, task[ns], copies[ns])
  BY DEF KeptInv
<1>3. Told(manifest.services[s], c.services[s], Names(c.audit, s, k), held[ns], k)
  BY <1>1 DEF Audited
<1>4. /\ ref \in Ref /\ ReadBy(ns) \in Source /\ ReadBy(ns) \notin {None, Broken} /\ Entered(ns) \in Entry
      /\ s \in DOMAIN c.services /\ c.services[s] \in Map(Text)
      /\ copies'[ns].services[s] = IF Aimed(manifest, Entered(ns), s) THEN Over(c.services[s], kv) ELSE c.services[s]
      /\ s \in targets <=> Aimed(manifest, Entered(ns), s)
  BY <1>2, InjectsIs
<1>5. <<ref, ReadBy(ns)>> \in held[ns]
  BY <1>1, <1>4, ReadHeld DEF ReadBy
<1>6. copies'[ns].audit = c.audit \union B
  BY <1>1 DEF Injects, Copy, Entered, ReadBy
<1>7. Labels(B, targets, ref, Keys)
  <2>1. \A a : a \in B <=> \E x \in targets : a \in Audit(x, ref, NewKeys(c.services, kv, x))
    OBVIOUS
  <2>2. \A x \in targets : Keys[x] = NewKeys(c.services, kv, x)
    OBVIOUS
  <2> HIDE DEF B, Keys
  <2> QED BY <2>1, <2>2 DEF Audit, Labels
<1>9. s \in targets => Keys[s] = DOMAIN kv \ DOMAIN c.services[s]
  BY <1>4, ComposeEnvAssumption DEF NewKeys, NoMap
<1> HIDE DEF c, ref, targets, kv, Keys, B
<1>10. Names(copies'[ns].audit, s, k) = Names(c.audit, s, k) \union (IF s \in targets /\ k \in Keys[s] THEN {ref} ELSE {})
  <2>1. Names(c.audit \union B, s, k) = Names(c.audit, s, k) \union (IF s \in targets /\ k \in Keys[s] THEN {ref} ELSE {})
    BY <1>7, NamesOfMore
  <2> QED BY Zenon, <1>6, <2>1
<1>11. CASE Aimed(manifest, Entered(ns), s)
  <2>1. copies'[ns].services[s] = Over(c.services[s], kv)
    BY <1>4, <1>11
  <2>2. Names(copies'[ns].audit, s, k)
          = Names(c.audit, s, k) \union (IF k \in DOMAIN kv \ DOMAIN c.services[s] THEN {ref} ELSE {})
    BY <1>4, <1>9, <1>10, <1>11
  <2>3. kv = Loaded(ReadBy(ns))
    BY DEF kv
  <2> QED BY <1>3, <1>4, <1>5, <2>1, <2>2, <2>3, ToldTake
<1>12. CASE ~Aimed(manifest, Entered(ns), s)
  BY <1>3, <1>4, <1>10, <1>12
<1> QED BY <1>11, <1>12

LEMMA AuditSets ==
    ASSUME TypeInv, KeptInv, NEW ns \in Namespace, Sets(ns), manifest.kind = "App",
           Audited(manifest, task[ns], copies[ns], held[ns]), NEW s \in DOMAIN manifest.services, NEW k \in Key
    PROVE  Told(manifest.services[s], copies'[ns].services[s], Names(copies'[ns].audit, s, k), held[ns], k)
<1> DEFINE c == copies[ns]
           name == Setted(ns).name
           targets == TargetServices(c.services, Setted(ns).services)
           Keys == [x \in targets |-> {name}]
           B == UNION {Audit(x, None, {name}) : x \in targets}
<1>1. task[ns].step = "env" /\ task[ns].step \in AtWork /\ c \in Copy
  BY DEF Sets, AtWork, TypeInv, Fits
<1>2. Kept(manifest, task[ns], copies[ns])
  BY DEF KeptInv
<1>3. Told(manifest.services[s], c.services[s], Names(c.audit, s, k), held[ns], k)
  BY <1>1 DEF Audited
<1>4. /\ s \in DOMAIN c.services /\ s \in targets <=> Aimed(manifest, Setted(ns), s)
      /\ Setted(ns) \in Setting
  BY <1>2, SetsIs
<1>5. copies'[ns].services[s] = IF s \notin targets THEN c.services[s]
        ELSE Over([x \in {name} |-> SubstituteVars(Setted(ns).value, c.services[s])], c.services[s])
  BY <1>2, <1>4, SetsIs
<1>6. copies'[ns].audit = c.audit \union B
  BY <1>1 DEF Sets, Copy, Setted
<1>7. Labels(B, targets, None, Keys)
  <2>1. \A a : a \in B <=> \E x \in targets : a \in Audit(x, None, {name})
    OBVIOUS
  <2>2. \A x \in targets : Keys[x] = {name}
    OBVIOUS
  <2> HIDE DEF B, Keys
  <2> QED BY <2>1, <2>2 DEF Audit, Labels
<1>9. s \in targets => Keys[s] = {name}
  OBVIOUS
<1> HIDE DEF c, name, targets, Keys, B
<1>10. Names(copies'[ns].audit, s, k) = Names(c.audit, s, k) \union (IF s \in targets /\ k \in Keys[s] THEN {None} ELSE {})
  <2>1. Names(c.audit \union B, s, k) = Names(c.audit, s, k) \union (IF s \in targets /\ k \in Keys[s] THEN {None} ELSE {})
    BY <1>7, NamesOfMore
  <2> QED BY Zenon, <1>6, <2>1
<1>11. CASE s \in targets
  <2>1. Names(copies'[ns].audit, s, k) = Names(c.audit, s, k) \union (IF k = name THEN {None} ELSE {})
    BY <1>9, <1>10, <1>11
  <2>2. WithName(c.services[s], copies'[ns].services[s], name)
    BY <1>5, <1>11 DEF Over, WithName
  <2> QED BY <1>3, <2>1, <2>2, ToldSet
<1>12. CASE s \notin targets
  BY <1>3, <1>5, <1>10, <1>12
<1> QED BY <1>11, <1>12

LEMMA AuditNext == TypeInv /\ KeptInv /\ HeldInv /\ AuditInv /\ [Next]_vars => AuditInv'
<1> SUFFICES ASSUME TypeInv, KeptInv, HeldInv, AuditInv, [Next]_vars, NEW ns \in Namespace,
                    task'[ns].step \in AtWork, manifest'.kind = "App",
                    NEW s \in DOMAIN manifest'.services, NEW k \in Key
             PROVE  Told(manifest'.services[s], copies'[ns].services[s], Names(copies'[ns].audit, s, k), held'[ns], k)
  BY DEF AuditInv, Audited
<1>1. Audited(manifest, task[ns], copies[ns], held[ns]) /\ Kept(manifest, task[ns], copies[ns])
  BY DEF AuditInv, KeptInv
<1>2. CASE Begin
  <2>1. copies'[ns] = Labelled(ns) /\ manifest' = manifest
    BY <1>2, BeginIs DEF AtWork
  <2>2. copies'[ns].services = manifest.services /\ copies'[ns].audit = {}
    BY <2>1 DEF Labelled
  <2>3. Names({}, s, k) = {}
    BY DEF Names
  <2> QED BY <2>1, <2>2, <2>3 DEF Told
<1>3. CASE View(ns)
  <2>1. manifest' = manifest /\ held[ns] \subseteq held'[ns] /\ task[ns].step \in AtWork
    BY <1>3, StepOf, HeldGrows DEF Frame
  <2>2. Told(manifest.services[s], copies[ns].services[s], Names(copies[ns].audit, s, k), held[ns], k)
    BY <1>1, <2>1 DEF Audited
  <2>3. CASE Injects(ns)
    BY <1>1, <2>1, <2>3, AuditInjects, ToldMore
  <2>4. CASE Sets(ns)
    BY <1>1, <2>1, <2>4, AuditSets, ToldMore
  <2>5. CASE copies'[ns] = copies[ns]
    BY <2>1, <2>2, <2>5, ToldMore
  <2>6. CASE Adds(ns)
    <3>1. copies'[ns].services[s] = copies[ns].services[s] /\ copies'[ns].audit = copies[ns].audit
      BY <1>1, <2>1, <2>6, AddsIs DEF Kept
    <3> QED BY <2>1, <2>2, <3>1, ToldMore
  <2> QED BY <1>3, <2>3, <2>4, <2>5, <2>6, StepOf DEF View, Frame
<1> QED BY <1>2, <1>3, ViewNext

LEMMA AuditIsTrue == TypeInv /\ DoneInv /\ KeptInv /\ AuditInv => AuditExplains
<1> SUFFICES ASSUME TypeInv, DoneInv, KeptInv, AuditInv, NEW ns \in Tasks, Done(ns), manifest.kind = "App",
                    NEW s \in DOMAIN Own, NEW k \in DOMAIN compose[ns].services[s]
             PROVE  LET by == {a[2] : a \in {x \in compose[ns].audit : x[1] = s /\ x[3] = k}}
                        value == compose[ns].services[s][k]
                    IN  /\ Cardinality(by \ {None}) <= 1
                        /\ by = {} => k \in DOMAIN Own[s] /\ value = Own[s][k]
                        /\ None \notin by => \A ref \in by :
                             /\ k \notin DOMAIN Own[s]
                             /\ \E h \in held[ns] : h[1] = ref /\ Says(h[2], k, value)
  BY Zenon DEF AuditExplains
<1> DEFINE by == Names(compose[ns].audit, s, k)
<1>1. ns \in Namespace
  BY ManifestType DEF Tasks
<1>2. compose[ns] = copies[ns] /\ Kept(manifest, task[ns], copies[ns]) /\ Fits(manifest, ns, task[ns], copies[ns])
  BY <1>1 DEF DoneInv, KeptInv, TypeInv
<1>3. k \in Key
  <2>1. copies[ns] \in Copy /\ s \in DOMAIN copies[ns].services /\ copies[ns].services[s] # None
    BY <1>2 DEF Kept, Fits, Done, AtWork, Own
  <2>2. copies[ns].services[s] \in Map(Text)
    BY <2>1, PartialFnIs DEF Copy
  <2> QED BY <1>2, <2>2, PartialFnIs DEF Map
<1>4. Told(Own[s], compose[ns].services[s], by, held[ns], k)
  BY <1>1, <1>2, <1>3 DEF AuditInv, Audited, Done, AtWork, Own
<1>5. Cardinality(by \ {None}) <= 1
  <2>1. CASE by \ {None} = {}
    BY <2>1, FS_EmptySet
  <2>2. CASE by \ {None} # {}
    <3>1. PICK r : by \ {None} = {r}
      BY <1>4, <2>2 DEF Told
    <3> QED BY <3>1, FS_Singleton
  <2> QED BY <2>1, <2>2
<1>6. /\ by = {} => k \in DOMAIN Own[s] /\ compose[ns].services[s][k] = Own[s][k]
      /\ None \notin by => \A ref \in by :
           /\ k \notin DOMAIN Own[s]
           /\ \E h \in held[ns] : h[1] = ref /\ Says(h[2], k, compose[ns].services[s][k])
  BY <1>4 DEF Told
<1> QED BY Zenon, <1>5, <1>6 DEF Names

-----------------------------------------------------------------------------
(* Every text of a copy is the service's own, of spec.env, or of a source of *)
(* the namespace; and a mount that is done has added a volume at most.       *)

From(m, s, value, H) ==
    \/ s \in DOMAIN m.services /\ \E j \in DOMAIN m.services[s] : value = m.services[s][j]
    \/ \E i \in DOMAIN m.env : value = m.env[i].value
    \/ \E h \in H, j \in Key : Says(h[2], j, value)

Texts(m, s, f, H) == f # None => \A k \in DOMAIN f : From(m, s, f[k], H)

Mounted(m, t) ==
    IF t.step \in {"from", "env"} THEN 0
    ELSE IF t.step \in {"mount", "file"} THEN t.at - 1 ELSE Len(m.mounts)

Sourced(m, ns, t, c, H) ==
    t.step \in AtWork =>
        /\ c.label = ns
        /\ \A s \in DOMAIN c.services : Texts(m, s, c.services[s], H)
        /\ \A s \in Service : Len(c.volumes[s]) <= Mounted(m, t)

SourcedInv == \A ns \in Namespace : Sourced(manifest, ns, task[ns], copies[ns], held[ns])

LEMMA TextsMore ==
    ASSUME NEW m, NEW s, NEW f, NEW H, Texts(m, s, f, H), NEW H2, H \subseteq H2
    PROVE  Texts(m, s, f, H2)
BY DEF Texts, From

LEMMA TextsOver ==
    ASSUME NEW m, NEW s, NEW H, NEW f, NEW g, Texts(m, s, f, H), Texts(m, s, g, H), f # None, g # None
    PROVE  Texts(m, s, Over(f, g), H)
<1>1. DOMAIN Over(f, g) = DOMAIN f \union DOMAIN g
      /\ \A x \in DOMAIN Over(f, g) : Over(f, g)[x] = IF x \in DOMAIN f THEN f[x] ELSE g[x]
  BY DEF Over
<1> QED BY <1>1 DEF Texts

LEMMA TextsRead ==
    ASSUME NEW m, NEW s, NEW H, NEW ref \in Ref, NEW source \in Source, source \notin {None, Broken}, <<ref, source>> \in H
    PROVE  Texts(m, s, Loaded(source), H)
<1>1. \A k \in DOMAIN Loaded(source) : k \in Key /\ Says(source, k, Loaded(source)[k])
  BY LoadedIs, PartialFnIs DEF Map
<1>2. <<ref, source>>[2] = source
  OBVIOUS
<1> QED BY <1>1, <1>2 DEF Texts, From

LEMMA SourcedInjects ==
    ASSUME TypeInv, KeptInv, HeldInv, SourcedInv, NEW ns \in Namespace, Injects(ns)
    PROVE  \A s \in DOMAIN copies'[ns].services : Texts(manifest, s, copies'[ns].services[s], held[ns])
<1> DEFINE c == copies[ns].services
           targets == TargetServices(c, Entered(ns).services)
           source == ReadBy(ns)
<1>1. task[ns].step = "from" /\ task[ns].step \in AtWork
  BY DEF Injects, AtWork
<1>2. Kept(manifest, task[ns], copies[ns])
  BY DEF KeptInv
<1>3. \A s \in DOMAIN c : Texts(manifest, s, c[s], held[ns])
  BY <1>1 DEF SourcedInv, Sourced
<1>4. Entered(ns).ref \in Ref /\ source \in Source /\ source \notin {None, Broken} /\ Loaded(source) \in Map(Text)
  BY <1>2, InjectsIs
<1>5. <<Entered(ns).ref, source>> \in held[ns]
  BY <1>1, <1>4, ReadHeld DEF ReadBy
<1>6. DOMAIN copies'[ns].services = DOMAIN c \union targets
  BY <1>2, InjectsIs
<1>7. \A s \in DOMAIN c : s \notin targets => copies'[ns].services[s] = c[s]
  BY <1>2, InjectsIs
<1>8. \A s \in targets : copies'[ns].services[s] = IF NoMap(c, s) THEN None ELSE Over(c[s], Loaded(source))
  BY <1>2, InjectsIs
<1>9. Loaded(source) # None
  BY <1>4, ComposeEnvAssumption
<1> HIDE DEF c, targets, source
<1> SUFFICES ASSUME NEW s \in DOMAIN copies'[ns].services
             PROVE  Texts(manifest, s, copies'[ns].services[s], held[ns])
  OBVIOUS
<1>10. CASE s \notin targets
  BY <1>3, <1>6, <1>7, <1>10
<1>11. CASE s \in targets /\ NoMap(c, s)
  BY <1>8, <1>11 DEF Texts
<1>12. CASE s \in targets /\ ~NoMap(c, s)
  <2>1. s \in DOMAIN c /\ c[s] # None
    BY <1>12 DEF NoMap
  <2>2. Texts(manifest, s, Loaded(source), held[ns])
    BY <1>4, <1>5, TextsRead
  <2> QED BY <1>3, <1>8, <1>9, <1>12, <2>1, <2>2, TextsOver
<1> QED BY <1>10, <1>11, <1>12

LEMMA SourcedSets ==
    ASSUME TypeInv, KeptInv, SourcedInv, NEW ns \in Namespace, Sets(ns)
    PROVE  \A s \in DOMAIN copies'[ns].services : Texts(manifest, s, copies'[ns].services[s], held[ns])
<1> DEFINE c == copies[ns].services
           targets == TargetServices(c, Setted(ns).services)
           name == Setted(ns).name
           value(s) == SubstituteVars(Setted(ns).value, c[s])
<1>1. task[ns].step = "env" /\ task[ns].step \in AtWork /\ task[ns].at \in DOMAIN manifest.env
  BY DEF Sets, AtWork
<1>2. Kept(manifest, task[ns], copies[ns])
  BY DEF KeptInv
<1>3. \A s \in DOMAIN c : Texts(manifest, s, c[s], held[ns])
  BY <1>1 DEF SourcedInv, Sourced
<1>4. DOMAIN copies'[ns].services = DOMAIN c
  BY <1>2, SetsIs
<1>5. \A s \in DOMAIN c : copies'[ns].services[s] =
        IF s \notin targets THEN c[s] ELSE Over([k \in {name} |-> value(s)], c[s])
  BY <1>2, SetsIs
<1>6. \A s \in targets : s \in DOMAIN c /\ c[s] # None
  BY <1>2, SetsIs
<1>7. ASSUME NEW s \in targets PROVE From(manifest, s, value(s), held[ns])
  <2>1. From(manifest, s, Setted(ns).value, held[ns])
    BY <1>1 DEF From, Setted
  <2>2. \A k \in DOMAIN c[s] : From(manifest, s, c[s][k], held[ns])
    BY <1>3, <1>6, <1>7 DEF Texts
  <2> QED BY <2>1, <2>2 DEF SubstituteVars
<1> HIDE DEF c, targets, name, value
<1> SUFFICES ASSUME NEW s \in DOMAIN copies'[ns].services
             PROVE  Texts(manifest, s, copies'[ns].services[s], held[ns])
  OBVIOUS
<1>8. CASE s \notin targets
  BY <1>3, <1>4, <1>5, <1>8
<1>9. CASE s \in targets
  <2>1. copies'[ns].services[s] = Over([k \in {name} |-> value(s)], c[s])
    BY <1>4, <1>5, <1>9
  <2>2. /\ DOMAIN copies'[ns].services[s] = {name} \union DOMAIN c[s]
        /\ \A k \in DOMAIN copies'[ns].services[s] : copies'[ns].services[s][k] = IF k = name THEN value(s) ELSE c[s][k]
    BY <2>1 DEF Over
  <2>3. \A k \in DOMAIN c[s] : From(manifest, s, c[s][k], held[ns])
    BY <1>3, <1>6, <1>9 DEF Texts
  <2> QED BY <1>7, <1>9, <2>2, <2>3 DEF Texts
<1> QED BY <1>8, <1>9

(* The volumes of a goroutine at work.                                       *)
LEMMA VolumesGrow ==
    ASSUME TypeInv, NEW ns \in Namespace, View(ns), ~Frame(ns), task'[ns].step \in AtWork, copies[ns] \in Copy,
           \A s \in Service : Len(copies[ns].volumes[s]) <= Mounted(manifest, task[ns])
    PROVE  /\ copies'[ns].label = copies[ns].label
           /\ \A s \in Service : Len(copies'[ns].volumes[s]) <= Mounted(manifest, task'[ns])
<1>1. task[ns] \in Task /\ Len(manifest.mounts) \in Nat
  BY ManifestType DEF TypeInv
<1>2. copies[ns].volumes \in [Service -> Seq(Ref)] /\ \A s \in Service : Len(copies[ns].volumes[s]) \in Nat
  BY DEF Copy
<1>3. ~Ended(ns)
  BY StepOf
<1>4. CASE Skipped(ns) \/ Turns(ns) \/ Opens(ns) \/ Writes(ns) \/ Saves(ns)
  <2>1. copies'[ns] = copies[ns]
    BY <1>4 DEF Skipped, Turns, Opens, Writes, Saves
  <2>2. /\ task[ns].at \in Nat /\ task'[ns].at \in Nat
        /\ \/ task[ns].step = "from" /\ task'[ns].step \in {"from", "env"}
           \/ task[ns].step = "env" /\ task'[ns].step = "mount" /\ task'[ns].at = 1
           \/ task[ns].step \in {"mount", "file"} /\ task'[ns].step \in {"mount", "file"} /\ task[ns].at <= task'[ns].at
           \/ task[ns].step = "mount" /\ task'[ns].step = "done" /\ task[ns].at = Len(manifest.mounts) + 1
    <3>1. task[ns].at \in Nat /\ DOMAIN task[ns] = {"step", "at", "kv", "left"}
      BY <1>1 DEF Task
    <3>2. CASE Skipped(ns)
      BY <3>1, <3>2 DEF Skipped
    <3>3. CASE Turns(ns)
      <4>1. CASE task[ns].step = "from"
        <5>1. task'[ns] = [task[ns] EXCEPT !.step = "env", !.at = 1]
          BY <3>3, <4>1 DEF Turns
        <5>2. task'[ns].step = "env" /\ task'[ns].at = 1
          BY <3>1, <5>1
        <5> QED BY <3>1, <4>1, <5>2
      <4>2. CASE task[ns].step # "from"
        <5>1. task'[ns] = [task[ns] EXCEPT !.step = "mount", !.at = 1] /\ task[ns].step = "env"
          BY <3>3, <4>2 DEF Turns
        <5>2. task'[ns].step = "mount" /\ task'[ns].at = 1
          BY <3>1, <5>1
        <5> QED BY <3>1, <5>1, <5>2
      <4> QED BY <4>1, <4>2
    <3>4. CASE Opens(ns)
      <4>1. task'[ns].step = "file" /\ task'[ns].at = task[ns].at /\ task[ns].step = "mount"
        BY <3>1, <3>4 DEF Opens
      <4> QED BY <3>1, <4>1
    <3>5. CASE Writes(ns)
      <4>1. task'[ns].step = "file" /\ task'[ns].at = task[ns].at /\ task[ns].step = "file"
        BY <3>1, <3>5 DEF Writes
      <4> QED BY <3>1, <4>1
    <3>6. CASE Saves(ns)
      BY <3>1, <3>6 DEF Saves
    <3> QED BY <1>4, <3>2, <3>3, <3>4, <3>5, <3>6
  <2>3. /\ Mounted(manifest, task[ns]) \in Int /\ Mounted(manifest, task'[ns]) \in Int
        /\ Mounted(manifest, task[ns]) <= Mounted(manifest, task'[ns])
    BY <1>1, <2>2 DEF Mounted
  <2> QED BY <1>2, <2>1, <2>2, <2>3
<1>5. CASE Injects(ns) \/ Sets(ns)
  <2>1. copies'[ns].volumes = copies[ns].volumes /\ copies'[ns].label = copies[ns].label
    BY <1>5 DEF Injects, Sets, Copy
  <2>2. Mounted(manifest, task'[ns]) = Mounted(manifest, task[ns])
    BY <1>1, <1>5 DEF Injects, Sets, Mounted, Task
  <2> QED BY <2>1, <2>2
<1>6. CASE Adds(ns)
  <2> DEFINE entry == manifest.mounts[task[ns].at]
             targets == TargetServices(copies[ns].services, entry.services)
  <2>1. copies'[ns].volumes = WithVolume(copies[ns].volumes, entry.ref, targets)
        /\ copies'[ns].label = copies[ns].label
    BY <1>6 DEF Adds, Copy
  <2>2. \A s \in Service : Len(copies'[ns].volumes[s]) <= Len(copies[ns].volumes[s]) + 1
    BY <1>2, <2>1 DEF WithVolume
  <2>3. Mounted(manifest, task'[ns]) = Mounted(manifest, task[ns]) + 1 /\ Mounted(manifest, task[ns]) \in Int
    BY <1>1, <1>6 DEF Adds, Mounted, Task
  <2>4. \A s \in Service : Len(copies'[ns].volumes[s]) \in Nat
    BY <1>2, <2>1 DEF WithVolume
  <2> QED BY <1>2, <2>1, <2>2, <2>3, <2>4
<1> QED BY <1>3, <1>4, <1>5, <1>6 DEF View

LEMMA SourcedNext == TypeInv /\ KeptInv /\ HeldInv /\ SourcedInv /\ [Next]_vars => SourcedInv'
<1> SUFFICES ASSUME TypeInv, KeptInv, HeldInv, SourcedInv, [Next]_vars, NEW ns \in Namespace, task'[ns].step \in AtWork
             PROVE  /\ copies'[ns].label = ns
                    /\ \A s \in DOMAIN copies'[ns].services : Texts(manifest', s, copies'[ns].services[s], held'[ns])
                    /\ \A s \in Service : Len(copies'[ns].volumes[s]) <= Mounted(manifest', task'[ns])
  BY DEF SourcedInv, Sourced
<1>1. Sourced(manifest, ns, task[ns], copies[ns], held[ns]) /\ Kept(manifest, task[ns], copies[ns])
      /\ Fits(manifest, ns, task[ns], copies[ns])
  BY DEF SourcedInv, KeptInv, TypeInv
<1>2. CASE Begin
  <2>1. copies'[ns] = Labelled(ns) /\ manifest' = manifest /\ manifest.services \in Services /\ task'[ns].step = "from"
    BY <1>2, BeginIs DEF AtWork
  <2>2. copies'[ns].services = manifest.services /\ copies'[ns].label = ns
        /\ \A s \in Service : copies'[ns].volumes[s] = <<>>
    BY <2>1 DEF Labelled
  <2>3. \A s \in Service : Len(copies'[ns].volumes[s]) <= Mounted(manifest', task'[ns])
    BY <2>1, <2>2 DEF Mounted
  <2> QED BY <2>1, <2>2, <2>3 DEF Texts, From
<1>3. CASE View(ns)
  <2>1. manifest' = manifest /\ held[ns] \subseteq held'[ns]
    BY <1>3, StepOf, HeldGrows
  <2>2. CASE Frame(ns)
    BY <1>1, <2>1, <2>2, TextsMore DEF Frame, Sourced
  <2>3. CASE ~Frame(ns)
    <3>1. task[ns].step \in AtWork
      BY <1>3, <2>3, StepOf
    <3>2. copies[ns] \in Copy
      BY <1>1, <3>1 DEF Fits
    <3>3. copies'[ns].label = ns /\ \A s \in Service : Len(copies'[ns].volumes[s]) <= Mounted(manifest, task'[ns])
      BY <1>1, <1>3, <2>3, <3>1, <3>2, VolumesGrow DEF Sourced
    <3>4. \A s \in DOMAIN copies'[ns].services : Texts(manifest, s, copies'[ns].services[s], held[ns])
      <4>1. CASE copies'[ns] = copies[ns]
        BY <1>1, <3>1, <4>1 DEF Sourced
      <4>2. CASE Adds(ns)
        <5>1. \A s \in DOMAIN copies'[ns].services :
                \/ copies'[ns].services[s] = None
                \/ s \in DOMAIN copies[ns].services /\ copies'[ns].services[s] = copies[ns].services[s]
          BY <4>2, AddsIs
        <5>2. \A s \in DOMAIN copies[ns].services : Texts(manifest, s, copies[ns].services[s], held[ns])
          BY <1>1, <3>1 DEF Sourced
        <5> QED BY <5>1, <5>2 DEF Texts
      <4> QED BY <1>3, <2>3, <4>1, <4>2, StepOf, SourcedInjects, SourcedSets DEF View
    <3> QED BY <2>1, <3>3, <3>4, TextsMore
  <2> QED BY <2>2, <2>3
<1> QED BY <1>2, <1>3, ViewNext

LEMMA SourcedApart == TypeInv /\ DoneInv /\ SourcedInv => NamespacesApart
<1> SUFFICES ASSUME TypeInv, DoneInv, SourcedInv, NEW ns \in Tasks, Done(ns)
             PROVE  /\ compose[ns].label = ns
                    /\ \A s \in DOMAIN compose[ns].services : compose[ns].services[s] # None =>
                         \A k \in DOMAIN compose[ns].services[s] :
                            From(manifest, s, compose[ns].services[s][k], held[ns])
                    /\ \A s \in Service : Len(compose[ns].volumes[s]) <= Len(manifest.mounts)
  BY Zenon DEF NamespacesApart, From, Own
<1>1. ns \in Namespace
  BY ManifestType DEF Tasks
<1>2. compose[ns] = copies[ns] /\ Sourced(manifest, ns, task[ns], copies[ns], held[ns])
  BY <1>1 DEF DoneInv, SourcedInv
<1>3. task[ns].step = "done"
  BY DEF Done
<1> QED BY <1>2, <1>3 DEF Sourced, Texts, AtWork, Mounted

-----------------------------------------------------------------------------
(* The directories of the volumes are there, and their files are what a      *)
(* source held, but for those of the mount that is being written: of these   *)
(* all that are not left.                                                    *)

Served(F, ns, ref, H) ==
    \E h \in H :
        /\ h[1] = ref /\ h[2] \in Source /\ h[2] \notin {None, Broken}
        /\ \A k \in DOMAIN h[2].data \union DOMAIN h[2].stringData : Says(h[2], k, F[<<ns, ref, k>>])

Opened(F, D, m, ns, t, H) ==
    t.step = "file" =>
        /\ <<ns, m.mounts[t.at].ref>> \in D
        /\ \E h \in H :
             /\ h[1] = m.mounts[t.at].ref /\ h[2] \in Source /\ h[2] \notin {None, Broken} /\ t.kv = Loaded(h[2])
             /\ \A k \in DOMAIN t.kv \ t.left : F[<<ns, m.mounts[t.at].ref, k>>] = t.kv[k]

InVolumes(c, ref) == \E s \in Service : \E i \in DOMAIN c.volumes[s] : c.volumes[s][i] = ref

(* The directories that are made when a mount opens: none are in a bucket.    *)
Dirs == IF backend = "local" THEN dirs ELSE Namespace \X Ref

Made(ns, ref) == There(ns, ref) \/ NothingToHold(ns, ref)

SavedInv == \A ns \in Namespace : compose[ns] # None =>
    \A ref \in Ref : InVolumes(compose[ns], ref) => Made(ns, ref)
OpenedInv == \A ns \in Namespace : Opened(files, Dirs, manifest, ns, task[ns], held[ns])
ServesInv == \A ns \in Namespace : task[ns].step \in AtWork =>
    \A ref \in Ref : InVolumes(copies[ns], ref) =>
        /\ Made(ns, ref)
        /\ \/ task[ns].step = "file" /\ ref = manifest.mounts[task[ns].at].ref
           \/ Served(files, ns, ref, held[ns])

(* What sources held since the command began they held at one time, and      *)
(* every file says what its source held.                                     *)
EverInv == \A ns \in Namespace : held[ns] \subseteq ever[ns] /\ Now(ns) \subseteq ever[ns]
WrittenInv == \A ns \in Namespace, ref \in Ref, k \in Key :
    files[<<ns, ref, k>>] # None => LeftOver(ns, ref, k)

LEMMA EverGrows ==
    ASSUME TypeInv, [Next]_vars, NEW ns \in Namespace
    PROVE  backend' = backend /\ ever[ns] \subseteq ever'[ns]
<1>1. CASE UNCHANGED vars \/ Doctor
  BY <1>1 DEF vars, disk, history, Doctor
<1>2. CASE Elsewhere
  BY <1>2 DEF Elsewhere, disk, TypeInv
<1>3. CASE Begin
  BY <1>3, BeginIs
<1>4. CASE Goes
  BY <1>4, GoesForm
<1> QED BY <1>1, <1>2, <1>3, <1>4, NextIs

LEMMA EverNext == TypeInv /\ EverInv /\ [Next]_vars => EverInv'
<1> SUFFICES ASSUME TypeInv, EverInv, [Next]_vars, NEW ns \in Namespace
             PROVE  held'[ns] \subseteq ever'[ns] /\ Now(ns)' \subseteq ever'[ns]
  BY DEF EverInv
<1>1. held[ns] \subseteq ever[ns] /\ Now(ns) \subseteq ever[ns]
  BY DEF EverInv
<1>2. CASE UNCHANGED vars \/ Doctor
  BY <1>1, <1>2 DEF vars, history, Doctor, Now
<1>3. CASE Elsewhere
  <2>1. PICK n \in Tasks, r \in Ref, source \in Later :
          /\ store' = [store EXCEPT ![<<n, r>>] = source]
          /\ held' = [held EXCEPT ![n] = @ \union {<<r, source>>}]
          /\ ever' = [ever EXCEPT ![n] = @ \union {<<r, source>>}]
    BY <1>3 DEF Elsewhere
  <2>2. held'[ns] = IF ns = n THEN held[ns] \union {<<r, source>>} ELSE held[ns]
    BY <2>1 DEF TypeInv
  <2>3. ever'[ns] = IF ns = n THEN ever[ns] \union {<<r, source>>} ELSE ever[ns]
    BY <2>1 DEF TypeInv
  <2>4. \A ref \in Ref : store'[<<ns, ref>>] = IF ns = n /\ ref = r THEN source ELSE store[<<ns, ref>>]
    BY <2>1 DEF TypeInv
  <2>5. \A ref \in Ref : <<ref, store'[<<ns, ref>>]>> \in ever'[ns]
    BY <1>1, <2>3, <2>4 DEF Now
  <2> QED BY <1>1, <2>2, <2>3, <2>5 DEF Now
<1>4. CASE Begin
  <2>1. held'[ns] = Now(ns) /\ UNCHANGED <<store, ever>>
    BY <1>4, BeginIs DEF Now
  <2> QED BY <1>1, <2>1 DEF Now
<1>5. CASE Goes
  BY <1>1, <1>5, GoesForm DEF Now
<1> QED BY <1>2, <1>3, <1>4, <1>5, NextIs

SourceKeys == \A x \in Source : DOMAIN x.data \subseteq Key /\ DOMAIN x.stringData \subseteq Key

LEMMA KeysOfSource == SourceKeys
BY PartialFnIs DEF SourceKeys, Source, Map

SameFiles(F, F2, ns, ref) == \A k \in Key : F2[<<ns, ref, k>>] = F[<<ns, ref, k>>]

LEMMA ServedStays ==
    ASSUME NEW F, NEW F2, NEW ns, NEW ref, NEW H, NEW H2, Served(F, ns, ref, H), H \subseteq H2,
           SameFiles(F, F2, ns, ref)
    PROVE  Served(F2, ns, ref, H2)
<1>1. PICK h \in H :
        /\ h[1] = ref /\ h[2] \in Source /\ h[2] \notin {None, Broken}
        /\ \A k \in DOMAIN h[2].data \union DOMAIN h[2].stringData : Says(h[2], k, F[<<ns, ref, k>>])
  BY DEF Served
<1>2. DOMAIN h[2].data \subseteq Key /\ DOMAIN h[2].stringData \subseteq Key
  BY <1>1, KeysOfSource DEF SourceKeys
<1>3. \A k \in DOMAIN h[2].data \union DOMAIN h[2].stringData : F2[<<ns, ref, k>>] = F[<<ns, ref, k>>]
  BY <1>2 DEF SameFiles
<1>4. \A k \in DOMAIN h[2].data \union DOMAIN h[2].stringData : Says(h[2], k, F2[<<ns, ref, k>>])
  BY <1>1, <1>3
<1>5. h \in H2
  OBVIOUS
<1> QED BY Zenon, <1>1, <1>4, <1>5 DEF Served

(* What a step of the goroutine writes, and where.                           *)
LEMMA FilesOf ==
    ASSUME TypeInv, NEW ns \in Namespace, View(ns)
    PROVE  /\ held[ns] \subseteq held'[ns] /\ dirs \subseteq dirs'
           /\ \A ref \in Ref : \/ SameFiles(files, files', ns, ref)
                               \/ Writes(ns) /\ ref = manifest.mounts[task[ns].at].ref
<1>1. held[ns] \subseteq held'[ns]
  BY HeldGrows
<1>2. dirs \subseteq dirs'
  BY DEF View, Frame, Ended, Skipped, Injects, Sets, Turns, Opens, Writes, Adds, Saves, Still
<1>3. ASSUME NEW ref \in Ref, ~(Writes(ns) /\ ref = manifest.mounts[task[ns].at].ref)
      PROVE  SameFiles(files, files', ns, ref)
  <2>1. CASE Frame(ns)
    BY <2>1 DEF Frame, SameFiles
  <2>2. CASE Writes(ns)
    BY <1>3, <2>2 DEF Writes, SameFiles
  <2>3. CASE ~Frame(ns) /\ ~Writes(ns)
    <3>1. files' = files
      BY <2>3 DEF View, Ended, Skipped, Injects, Sets, Turns, Opens, Adds, Saves, Still
    <3> QED BY <3>1 DEF SameFiles
  <2> QED BY <2>1, <2>2, <2>3
<1> QED BY <1>1, <1>2, <1>3

LEMMA OpenedOpens ==
    ASSUME TypeInv, HeldInv, NEW ns \in Namespace, Opens(ns), backend' = backend
    PROVE  Opened(files', Dirs', manifest, ns, task'[ns], held[ns])
<1> DEFINE entry == manifest.mounts[task[ns].at]
           source == store[<<ns, entry.ref>>]
           kv == Loaded(source)
<1>1. /\ task[ns].step = "mount" /\ task[ns].step \in AtWork /\ task[ns].at \in DOMAIN manifest.mounts
      /\ entry.ref # None /\ Readable(ns, entry.ref)
      /\ dirs' = IF backend = "local" THEN dirs \union {<<ns, entry.ref>>} ELSE dirs
  BY DEF Opens, AtWork
<1>2. task'[ns] = [task[ns] EXCEPT !.step = "file", !.kv = kv, !.left = DOMAIN kv]
  BY DEF Opens
<1>3. entry \in Entry
  BY <1>1, ManifestType
<1>4. entry.ref \in Ref
  BY <1>1, <1>3 DEF Entry
<1>5. <<entry.ref, source>> \in held[ns]
  BY <1>1, <1>4, ReadHeld
<1>6. source \in Source /\ source \notin {None, Broken}
  <2>1. store \in [Namespace \X Ref -> Source \union {None, Broken}]
    BY DEF TypeInv
  <2>2. source \in Source \union {None, Broken}
    BY <1>4, <2>1
  <2> QED BY <1>1, <2>2 DEF Readable
<1>7. task[ns] \in Task
  BY DEF TypeInv
<1> HIDE DEF kv, source
<1>8. task'[ns].at = task[ns].at /\ task'[ns].kv = kv /\ task'[ns].left = DOMAIN kv
  BY <1>2, <1>7 DEF Task
<1> DEFINE h == <<entry.ref, source>>
<1>9. h[1] = entry.ref /\ h[2] = source
  OBVIOUS
<1>10. kv = Loaded(h[2]) /\ h \in held[ns] /\ \A k \in DOMAIN kv \ DOMAIN kv : FALSE
  BY <1>5, <1>9 DEF kv
<1> HIDE DEF h
<1>11. \E g \in held[ns] :
        /\ g[1] = entry.ref /\ g[2] \in Source /\ g[2] \notin {None, Broken} /\ kv = Loaded(g[2])
        /\ \A k \in DOMAIN kv \ DOMAIN kv : files'[<<ns, entry.ref, k>>] = kv[k]
  BY <1>6, <1>9, <1>10
<1>12. <<ns, entry.ref>> \in Dirs'
  BY <1>1, <1>4 DEF Dirs
<1> QED BY <1>8, <1>11, <1>12 DEF Opened

LEMMA OpenedWrites ==
    ASSUME TypeInv, OpenedInv, NEW ns \in Namespace, Writes(ns), backend' = backend
    PROVE  Opened(files', Dirs', manifest, ns, task'[ns], held[ns])
<1> DEFINE ref == manifest.mounts[task[ns].at].ref
           kv == task[ns].kv
<1>1. task[ns].step = "file" /\ task[ns] \in Task /\ Dirs' = Dirs
  BY DEF Writes, TypeInv, Dirs
<1>2. Fits(manifest, ns, task[ns], copies[ns])
  BY DEF TypeInv
<1>3. ref \in Ref /\ task[ns].left \subseteq DOMAIN kv /\ DOMAIN kv \subseteq Key
  BY <1>1, <1>2, PartialFnIs DEF Fits, Task, Map
<1>4. PICK key \in task[ns].left :
        /\ task'[ns] = [task[ns] EXCEPT !.left = @ \ {key}]
        /\ \A r \in Ref, k \in Key : files'[<<ns, r, k>>] =
             IF r = ref /\ k = key THEN kv[key] ELSE files[<<ns, r, k>>]
  BY DEF Writes
<1>5. task'[ns].at = task[ns].at /\ task'[ns].kv = kv /\ task'[ns].left = task[ns].left \ {key}
  BY <1>1, <1>4 DEF Task
<1>6. <<ns, ref>> \in Dirs /\ \E h \in held[ns] :
        /\ h[1] = ref /\ h[2] \in Source /\ h[2] \notin {None, Broken} /\ kv = Loaded(h[2])
        /\ \A k \in DOMAIN kv \ task[ns].left : files[<<ns, ref, k>>] = kv[k]
  BY <1>1 DEF OpenedInv, Opened
<1> HIDE DEF ref, kv
<1>7. ASSUME \A k \in DOMAIN kv \ task[ns].left : files[<<ns, ref, k>>] = kv[k]
      PROVE  \A k \in DOMAIN kv \ task'[ns].left : files'[<<ns, ref, k>>] = kv[k]
  BY <1>3, <1>4, <1>5, <1>7
<1>8. \E h \in held[ns] :
        /\ h[1] = ref /\ h[2] \in Source /\ h[2] \notin {None, Broken} /\ task'[ns].kv = Loaded(h[2])
        /\ \A k \in DOMAIN task'[ns].kv \ task'[ns].left : files'[<<ns, ref, k>>] = task'[ns].kv[k]
  BY <1>5, <1>6, <1>7
<1> QED BY <1>1, <1>5, <1>6, <1>8 DEF Opened, ref

LEMMA OpenedFrame ==
    ASSUME TypeInv, OpenedInv, NEW ns \in Namespace, Frame(ns), backend' = backend
    PROVE  Opened(files', Dirs', manifest, ns, task'[ns], held'[ns])
<1> SUFFICES ASSUME task[ns].step = "file"
             PROVE  Opened(files', Dirs', manifest, ns, task[ns], held'[ns])
  BY DEF Frame, Opened
<1> DEFINE ref == manifest.mounts[task[ns].at].ref
           kv == task[ns].kv
<1>1. Fits(manifest, ns, task[ns], copies[ns])
  BY DEF TypeInv
<1>2. ref \in Ref /\ DOMAIN kv \subseteq Key
  BY <1>1, PartialFnIs DEF Fits, Task, Map
<1>3. <<ns, ref>> \in Dirs /\ \E h \in held[ns] :
        /\ h[1] = ref /\ h[2] \in Source /\ h[2] \notin {None, Broken} /\ kv = Loaded(h[2])
        /\ \A k \in DOMAIN kv \ task[ns].left : files[<<ns, ref, k>>] = kv[k]
  BY DEF OpenedInv, Opened
<1> HIDE DEF ref, kv
<1>4. \A k \in DOMAIN kv : files'[<<ns, ref, k>>] = files[<<ns, ref, k>>]
  BY <1>2 DEF Frame
<1>6. Dirs \subseteq Dirs'
  BY DEF Frame, Dirs
<1>5. <<ns, ref>> \in Dirs' /\ \E h \in held'[ns] :
        /\ h[1] = ref /\ h[2] \in Source /\ h[2] \notin {None, Broken} /\ kv = Loaded(h[2])
        /\ \A k \in DOMAIN kv \ task[ns].left : files'[<<ns, ref, k>>] = kv[k]
  BY <1>3, <1>4, <1>6 DEF Frame
<1> QED BY <1>5 DEF Opened, ref, kv

LEMMA OpenedNext == TypeInv /\ HeldInv /\ OpenedInv /\ [Next]_vars => OpenedInv'
<1> SUFFICES ASSUME TypeInv, HeldInv, OpenedInv, [Next]_vars, NEW ns \in Namespace, task'[ns].step = "file"
             PROVE  Opened(files', Dirs', manifest', ns, task'[ns], held'[ns])
  BY DEF OpenedInv, Opened
<1>1. ~Begin
  BY BeginIs
<1>2. View(ns) /\ manifest' = manifest /\ backend' = backend
  BY <1>1, ViewNext, StepOf, EverGrows
<1>3. task[ns] \in Task
  BY DEF TypeInv
<1>4. CASE Frame(ns)
  BY <1>2, <1>4, OpenedFrame
<1>5. CASE Opens(ns)
  <2>1. held'[ns] = held[ns]
    BY <1>5 DEF Opens
  <2> QED BY Zenon, <1>2, <1>5, <2>1, OpenedOpens
<1>6. CASE Writes(ns)
  <2>1. held'[ns] = held[ns]
    BY <1>6 DEF Writes
  <2> QED BY Zenon, <1>2, <1>6, <2>1, OpenedWrites
<1>7. ~Ended(ns) /\ ~Skipped(ns) /\ ~Injects(ns)
  BY <1>3 DEF Ended, Skipped, Injects, Task
<1>8. ~Sets(ns) /\ ~Turns(ns) /\ ~Adds(ns) /\ ~Saves(ns)
  BY <1>3 DEF Sets, Turns, Adds, Saves, Task
<1> QED BY <1>2, <1>4, <1>5, <1>6, <1>7, <1>8 DEF View

(* A file says what its source held, and is never taken away.                *)
LEMMA FilesStay ==
    ASSUME TypeInv, [Next]_vars, NEW ns \in Namespace, NEW ref \in Ref, NEW k \in Key
    PROVE  \/ files'[<<ns, ref, k>>] = files[<<ns, ref, k>>]
           \/ /\ Writes(ns) /\ ref = manifest.mounts[task[ns].at].ref
              /\ k \in DOMAIN task[ns].kv /\ files'[<<ns, ref, k>>] = task[ns].kv[k] /\ task[ns].kv[k] \in Text
<1>1. CASE Begin
  BY <1>1, BeginIs
<1>2. CASE View(ns)
  <2>1. SameFiles(files, files', ns, ref) \/ (Writes(ns) /\ ref = manifest.mounts[task[ns].at].ref)
    BY <1>2, FilesOf
  <2>2. CASE SameFiles(files, files', ns, ref)
    BY <2>2 DEF SameFiles
  <2>3. CASE Writes(ns) /\ ref = manifest.mounts[task[ns].at].ref
    <3>1. PICK key \in task[ns].left :
            files'[<<ns, ref, k>>] = IF k = key THEN task[ns].kv[key] ELSE files[<<ns, ref, k>>]
      BY <2>3 DEF Writes
    <3>2. task[ns].kv \in Map(Text) /\ task[ns].left \subseteq DOMAIN task[ns].kv
      BY DEF TypeInv, Fits, Task
    <3>3. \A x \in DOMAIN task[ns].kv : task[ns].kv[x] \in Text
      BY <3>2, PartialFnIs DEF Map
    <3> QED BY <2>3, <3>1, <3>2, <3>3
  <2> QED BY <2>1, <2>2, <2>3
<1> QED BY <1>1, <1>2, ViewNext

LEMMA MadeStays ==
    ASSUME TypeInv, [Next]_vars, NEW ns \in Namespace, NEW ref \in Ref, Made(ns, ref)
    PROVE  Made(ns, ref)'
<1>1. backend' = backend /\ ever[ns] \subseteq ever'[ns]
  BY EverGrows
<1>2. CASE NothingToHold(ns, ref)
  BY <1>1, <1>2 DEF Made, NothingToHold
<1>3. CASE <<ns, ref>> \in dirs
  <2>1. dirs \subseteq dirs'
    <3>1. CASE Begin
      BY <3>1, BeginIs
    <3> QED BY <3>1, ViewNext, FilesOf
  <2> QED BY <1>3, <2>1 DEF Made, There
<1>4. ASSUME NEW k \in Key, files[<<ns, ref, k>>] # None PROVE files'[<<ns, ref, k>>] # None
  BY <1>4, FilesStay, ComposeEnvAssumption
<1> QED BY <1>2, <1>3, <1>4 DEF Made, There

LEMMA WrittenNext == TypeInv /\ OpenedInv /\ EverInv /\ WrittenInv /\ [Next]_vars => WrittenInv'
<1> SUFFICES ASSUME TypeInv, OpenedInv, EverInv, WrittenInv, [Next]_vars,
                    NEW ns \in Namespace, NEW ref \in Ref, NEW k \in Key, files'[<<ns, ref, k>>] # None
             PROVE  \E e \in ever'[ns] : e[1] = ref /\ Says(e[2], k, files'[<<ns, ref, k>>])
  BY DEF WrittenInv, LeftOver
<1>1. ever[ns] \subseteq ever'[ns] /\ held[ns] \subseteq ever[ns]
  BY EverGrows DEF EverInv
<1>2. CASE files'[<<ns, ref, k>>] = files[<<ns, ref, k>>]
  BY <1>1, <1>2 DEF WrittenInv, LeftOver
<1>3. CASE /\ Writes(ns) /\ ref = manifest.mounts[task[ns].at].ref
           /\ k \in DOMAIN task[ns].kv /\ files'[<<ns, ref, k>>] = task[ns].kv[k]
  <2>1. Opened(files, Dirs, manifest, ns, task[ns], held[ns]) /\ task[ns].step = "file"
    BY <1>3 DEF OpenedInv, Writes
  <2>2. PICK h \in held[ns] :
          /\ h[1] = ref /\ h[2] \in Source /\ h[2] \notin {None, Broken} /\ task[ns].kv = Loaded(h[2])
    BY <1>3, <2>1 DEF Opened
  <2>3. Says(h[2], k, task[ns].kv[k])
    BY <1>3, <2>2, LoadedIs
  <2> QED BY <1>1, <1>3, <2>2, <2>3
<1> QED BY <1>2, <1>3, FilesStay

(* All files of a mount are written: they are what the source held.          *)
LEMMA ServedOpened ==
    ASSUME TypeInv, OpenedInv, EverInv, NEW ns \in Namespace, task[ns].step = "file", task[ns].left = {}
    PROVE  /\ Made(ns, manifest.mounts[task[ns].at].ref)
           /\ Served(files, ns, manifest.mounts[task[ns].at].ref, held[ns])
<1> DEFINE ref == manifest.mounts[task[ns].at].ref
           kv == task[ns].kv
<1>1. Opened(files, Dirs, manifest, ns, task[ns], held[ns])
  BY DEF OpenedInv
<1>2. PICK h \in held[ns] :
        /\ h[1] = ref /\ h[2] \in Source /\ h[2] \notin {None, Broken} /\ kv = Loaded(h[2])
        /\ \A k \in DOMAIN kv \ task[ns].left : files[<<ns, ref, k>>] = kv[k]
  BY <1>1 DEF Opened
<1>3. \A k \in DOMAIN h[2].data \union DOMAIN h[2].stringData : Says(h[2], k, files[<<ns, ref, k>>])
  BY <1>2, LoadedIs
<1>4. Served(files, ns, ref, held[ns])
  BY Zenon, <1>2, <1>3 DEF Served
<1>5. CASE backend = "local"
  BY <1>1, <1>4, <1>5 DEF Opened, Dirs, Made, There
<1>6. CASE backend = "s3" /\ DOMAIN kv = {}
  <2>1. h \in ever[ns]
    BY DEF EverInv
  <2> QED BY <1>2, <1>4, <1>6, <2>1 DEF Made, NothingToHold
<1>7. CASE DOMAIN kv # {}
  <2>1. PICK k \in DOMAIN kv : TRUE
    BY <1>7
  <2>2. kv \in Map(Text)
    BY DEF TypeInv, Task
  <2>3. k \in Key /\ kv[k] \in Text
    BY <2>2, PartialFnIs DEF Map
  <2>4. files[<<ns, ref, k>>] # None
    BY <1>2, <2>3, ComposeEnvAssumption
  <2> QED BY <1>4, <2>3, <2>4 DEF Made, There
<1> QED BY <1>4, <1>5, <1>6, <1>7 DEF TypeInv

LEMMA VolumesOf ==
    ASSUME TypeInv, NEW ns \in Namespace, View(ns), ~Frame(ns), task'[ns].step \in AtWork, NEW ref \in Ref,
           InVolumes(copies'[ns], ref)
    PROVE  InVolumes(copies[ns], ref) \/ (Adds(ns) /\ ref = manifest.mounts[task[ns].at].ref)
<1>1. task[ns].step \in AtWork /\ ~Ended(ns)
  BY StepOf
<1>2. copies[ns] \in Copy
  BY <1>1 DEF TypeInv, Fits
<1>3. CASE copies'[ns] = copies[ns]
  BY <1>3
<1>4. CASE Injects(ns) \/ Sets(ns)
  <2>1. copies'[ns].volumes = copies[ns].volumes
    BY <1>2, <1>4 DEF Injects, Sets, Copy
  <2> QED BY <2>1 DEF InVolumes
<1>5. CASE Adds(ns)
  <2> DEFINE new == manifest.mounts[task[ns].at].ref
             targets == TargetServices(copies[ns].services, manifest.mounts[task[ns].at].services)
  <2>1. copies'[ns].volumes = WithVolume(copies[ns].volumes, new, targets)
    BY <1>2, <1>5 DEF Adds, Copy
  <2>2. copies[ns].volumes \in [Service -> Seq(Ref)]
    BY <1>2 DEF Copy
  <2> HIDE DEF new, targets
  <2>3. PICK s \in Service : \E i \in DOMAIN copies'[ns].volumes[s] : copies'[ns].volumes[s][i] = ref
    BY DEF InVolumes
  <2>4. PICK i \in DOMAIN copies'[ns].volumes[s] : copies'[ns].volumes[s][i] = ref
    BY <2>3
  <2>5. CASE s \in targets
    <3>1. copies'[ns].volumes[s] = Append(copies[ns].volumes[s], new) /\ copies[ns].volumes[s] \in Seq(Ref)
      BY <2>1, <2>2, <2>5 DEF WithVolume
    <3>2. (i \in DOMAIN copies[ns].volumes[s] /\ copies[ns].volumes[s][i] = ref) \/ ref = new
      BY <2>4, <3>1
    <3> QED BY <1>5, <3>2 DEF InVolumes, new
  <2>6. CASE s \notin targets
    <3>1. copies'[ns].volumes[s] = copies[ns].volumes[s]
      BY <2>1, <2>2, <2>6 DEF WithVolume
    <3> QED BY <2>4, <3>1 DEF InVolumes
  <2> QED BY <2>5, <2>6
<1> QED BY <1>1, <1>3, <1>4, <1>5, StepOf DEF View

LEMMA ServesNext == TypeInv /\ OpenedInv /\ EverInv /\ ServesInv /\ [Next]_vars => ServesInv'
<1> SUFFICES ASSUME TypeInv, OpenedInv, EverInv, ServesInv, [Next]_vars, NEW ns \in Namespace,
                    task'[ns].step \in AtWork, NEW ref \in Ref, InVolumes(copies'[ns], ref)
             PROVE  /\ Made(ns, ref)'
                    /\ \/ task'[ns].step = "file" /\ ref = manifest'.mounts[task'[ns].at].ref
                       \/ Served(files', ns, ref, held'[ns])
  BY DEF ServesInv
<1>1. ~Begin
  <2> SUFFICES ASSUME Begin PROVE FALSE
    OBVIOUS
  <2>1. copies'[ns] = Labelled(ns)
    BY BeginIs DEF AtWork
  <2>2. \A s \in Service : copies'[ns].volumes[s] = <<>>
    BY <2>1 DEF Labelled
  <2> QED BY <2>2 DEF InVolumes
<1>2. View(ns) /\ manifest' = manifest
  BY <1>1, ViewNext, StepOf
<1> DEFINE now == manifest.mounts[task[ns].at].ref
<1>3. held[ns] \subseteq held'[ns] /\ (SameFiles(files, files', ns, ref) \/ (Writes(ns) /\ ref = now))
  BY <1>2, FilesOf
<1>4. task[ns].step \in AtWork /\ task[ns] \in Task
  BY <1>2, StepOf DEF Frame, TypeInv
<1>5. InVolumes(copies[ns], ref) =>
        Made(ns, ref) /\ ((task[ns].step = "file" /\ ref = now) \/ Served(files, ns, ref, held[ns]))
  BY <1>4 DEF ServesInv
<1>6. Writes(ns) \/ Frame(ns) => (task[ns].step = "file" => task'[ns].step = "file" /\ task'[ns].at = task[ns].at)
  BY <1>4 DEF Writes, Frame, Task
<1>7. task[ns].step = "file" => Writes(ns) \/ Frame(ns) \/ Adds(ns)
  <2>1. ~Ended(ns)
    BY <1>2, StepOf
  <2> QED BY <1>2, <2>1 DEF View, Skipped, Injects, Sets, Turns, Opens, Saves
<1>8. Writes(ns) => task[ns].step = "file"
  BY DEF Writes
<1>9. CASE Adds(ns) /\ ref = now
  <2>1. Made(ns, ref) /\ Served(files, ns, ref, held[ns])
    BY <1>9, ServedOpened DEF Adds
  <2>2. ~Writes(ns)
    BY <1>4, <1>9 DEF Adds, Writes
  <2> QED BY <1>3, <2>1, <2>2, ServedStays, MadeStays
<1>10. CASE InVolumes(copies[ns], ref) /\ ~(Adds(ns) /\ ref = now)
  <2>1. CASE task[ns].step = "file" /\ ref = now
    <3>1. task'[ns].step = "file" /\ task'[ns].at = task[ns].at
      BY <1>6, <1>7, <1>10, <2>1
    <3> QED BY <1>2, <1>5, <1>10, <2>1, <3>1, MadeStays
  <2>2. CASE ~(task[ns].step = "file" /\ ref = now)
    <3>1. Served(files, ns, ref, held[ns]) /\ SameFiles(files, files', ns, ref)
      BY <1>3, <1>5, <1>8, <1>10, <2>2
    <3>2. Served(files', ns, ref, held'[ns])
      BY <1>3, <3>1, ServedStays
    <3> QED BY <1>5, <1>10, <3>2, MadeStays
  <2> QED BY <2>1, <2>2
<1>11. InVolumes(copies[ns], ref) \/ (Adds(ns) /\ ref = now)
  BY <1>2, VolumesOf DEF Frame
<1> QED BY <1>9, <1>10, <1>11

LEMMA SavedNext == TypeInv /\ ServesInv /\ SavedInv /\ [Next]_vars => SavedInv'
<1> SUFFICES ASSUME TypeInv, ServesInv, SavedInv, [Next]_vars, NEW ns \in Namespace, compose'[ns] # None,
                    NEW ref \in Ref, InVolumes(compose'[ns], ref)
             PROVE  Made(ns, ref)'
  BY DEF SavedInv
<1>1. compose'[ns] = compose[ns] \/ Saves(ns)
  <2>1. CASE Begin
    BY <2>1, BeginIs
  <2>2. CASE View(ns)
    BY <2>2 DEF View, Frame, Ended, Skipped, Injects, Sets, Turns, Opens, Writes, Adds, Unread
  <2> QED BY <2>1, <2>2, ViewNext
<1>2. CASE compose'[ns] = compose[ns]
  BY <1>2, MadeStays DEF SavedInv
<1>3. CASE Saves(ns)
  <2>1. task[ns].step \in AtWork /\ compose'[ns] = copies[ns]
    BY <1>3 DEF Saves, AtWork
  <2> QED BY <2>1, MadeStays DEF ServesInv
<1> QED BY <1>1, <1>2, <1>3

LEMMA SavedServed == TypeInv /\ DoneInv /\ SavedInv /\ ServesInv /\ WrittenInv => MountsServed
<1> SUFFICES ASSUME TypeInv, DoneInv, SavedInv, ServesInv, WrittenInv, NEW ns \in Namespace, compose[ns] # None,
                    NEW s \in Service, NEW i \in DOMAIN compose[ns].volumes[s]
             PROVE  /\ Made(ns, compose[ns].volumes[s][i])
                    /\ Done(ns) => \E h \in held[ns] :
                         h[1] = compose[ns].volumes[s][i] /\ Mirrors(ns, compose[ns].volumes[s][i], h[2])
  BY Zenon DEF MountsServed, Made
<1> DEFINE ref == compose[ns].volumes[s][i]
<1>1. compose[ns] \in Copy
  BY DEF TypeInv
<1>2. compose[ns].volumes[s] \in Seq(Ref)
  BY <1>1 DEF Copy
<1>3. ref \in Ref /\ InVolumes(compose[ns], ref)
  BY <1>2 DEF InVolumes
<1>4. Made(ns, ref)
  BY <1>3 DEF SavedInv
<1>5. ASSUME Done(ns) PROVE Served(files, ns, ref, held[ns])
  <2>1. compose[ns] = copies[ns] /\ task[ns].step = "done"
    BY <1>5 DEF DoneInv, Done
  <2> QED BY <1>3, <2>1 DEF ServesInv, AtWork
<1> HIDE DEF ref
<1>6. ASSUME Done(ns) PROVE \E h \in held[ns] : h[1] = ref /\ Mirrors(ns, ref, h[2])
  <2>1. PICK h \in held[ns] :
          /\ h[1] = ref /\ h[2] \notin {None, Broken}
          /\ \A k \in DOMAIN h[2].data \union DOMAIN h[2].stringData : Says(h[2], k, files[<<ns, ref, k>>])
    BY <1>5, <1>6 DEF Served
  <2>2. Mirrors(ns, ref, h[2])
    BY <1>3, <2>1 DEF Mirrors, WrittenInv
  <2> QED BY <2>1, <2>2
<1> QED BY <1>4, <1>6 DEF ref

-----------------------------------------------------------------------------
(* What ends an App's command early is there for doctor to see: a source     *)
(* that is not there or cannot be read when it is refused, and an unknown    *)
(* service when it panics.                                                   *)

Withholds(entries, H) ==
    \E i \in DOMAIN entries : \E h \in H : entries[i].ref \in Ref /\ h[1] = entries[i].ref /\ h[2] \in {None, Broken}
Withheld(m, H) == Withholds(m.envFrom, H) \/ Withholds(m.mounts, H)

RefusedInv == \A ns \in Namespace : task[ns].step = "refused" => manifest.services = None \/ Withheld(manifest, held[ns])

(* Until the first mount, an App has no services but the manifest's own      *)
(* ones, or else one that the manifest's entries name and it has not.        *)
ExtraInv ==
    manifest.kind = "App" => \A ns \in Namespace : task[ns].step \in {"from", "env"} =>
        DOMAIN copies[ns].services \subseteq DOMAIN manifest.services \/ UnknownService

PanicInv == manifest.kind = "App" => \A ns \in Namespace : task[ns].step = "panic" => UnknownService

(* What doctor has looked at, it has reported: a change of a source begins   *)
(* the report anew.                                                          *)
ReportInv ==
    /\ "manifest" \in checked => OfManifest \subseteq report
    /\ \A kind \in {"Secret", "ConfigMap"} : kind \in checked => OfSources(kind) \subseteq report

LEMMA RefusedHeld ==
    ASSUME TypeInv, HeldInv, NEW ns \in Namespace, Working(ns), NEW entry \in Entry, Unreadable(ns, entry)
    PROVE  entry.ref \in Ref /\ \E h \in held[ns] : h[1] = entry.ref /\ h[2] \in {None, Broken}
<1> DEFINE h == <<entry.ref, store[<<ns, entry.ref>>]>>
<1>1. task[ns].step \in AtWork
  BY DEF Working, AtWork
<1>2. entry.ref \in Ref /\ store[<<ns, entry.ref>>] \in {None, Broken}
  BY DEF Entry, Unreadable, Readable
<1>3. h \in held[ns] /\ h[1] = entry.ref /\ h[2] = store[<<ns, entry.ref>>]
  BY <1>1, <1>2, ReadHeld
<1> QED BY <1>2, <1>3

LEMMA RefusedNext == TypeInv /\ HeldInv /\ RefusedInv /\ [Next]_vars => RefusedInv'
<1> SUFFICES ASSUME TypeInv, HeldInv, RefusedInv, [Next]_vars, NEW ns \in Namespace, task'[ns].step = "refused"
             PROVE  manifest'.services = None \/ Withheld(manifest', held'[ns])
  BY DEF RefusedInv
<1>1. CASE Begin
  BY <1>1, BeginIs
<1>2. CASE View(ns)
  <2>1. manifest' = manifest /\ held[ns] \subseteq held'[ns]
    BY <1>2, StepOf, HeldGrows
  <2>2. task[ns] \in Task
    BY DEF TypeInv
  <2>3. CASE Frame(ns)
    BY <2>1, <2>3 DEF Frame, RefusedInv, Withheld, Withholds
  <2>4. CASE Ended(ns)
    <3>1. Working(ns) /\ Refused(ns)
      BY <2>2, <2>4 DEF Ended, Task
    <3>2. CASE task[ns].at \in DOMAIN manifest.envFrom /\ Unreadable(ns, manifest.envFrom[task[ns].at])
      <4>1. manifest.envFrom[task[ns].at] \in Entry
        BY <3>2, ManifestType
      <4> QED BY <2>1, <3>1, <3>2, <4>1, RefusedHeld DEF Withheld, Withholds
    <3>3. CASE task[ns].at \in DOMAIN manifest.mounts /\ Unreadable(ns, manifest.mounts[task[ns].at])
      <4>1. manifest.mounts[task[ns].at] \in Entry
        BY <3>3, ManifestType
      <4> QED BY <2>1, <3>1, <3>3, <4>1, RefusedHeld DEF Withheld, Withholds
    <3> QED BY <3>1, <3>2, <3>3 DEF Refused
  <2>5. ~Skipped(ns) /\ ~Injects(ns) /\ ~Sets(ns) /\ ~Turns(ns)
    BY <2>2 DEF Skipped, Injects, Sets, Turns, Task
  <2>6. ~Opens(ns) /\ ~Writes(ns) /\ ~Adds(ns) /\ ~Saves(ns)
    BY <2>2 DEF Opens, Writes, Adds, Saves, Task
  <2> QED BY <1>2, <2>3, <2>4, <2>5, <2>6 DEF View
<1> QED BY <1>1, <1>2, ViewNext

LEMMA UnknownStays == manifest' = manifest => (UnknownService' <=> UnknownService)
BY DEF UnknownService, Unknown

(* An entry of envFrom or of env whose services are not those of the App.    *)
LEMMA AimsElsewhere ==
    ASSUME TypeInv, NEW ns \in Namespace, NEW s, s \notin DOMAIN manifest.services,
           \/ /\ task[ns].step = "from" /\ task[ns].at \in DOMAIN manifest.envFrom
              /\ Entered(ns).ref # None /\ s \in Entered(ns).services
           \/ task[ns].step = "env" /\ task[ns].at \in DOMAIN manifest.env /\ s \in Setted(ns).services
    PROVE  UnknownService
BY DEF UnknownService, Unknown, Entered, Setted

LEMMA ExtraNext == TypeInv /\ KeptInv /\ ExtraInv /\ [Next]_vars => ExtraInv'
<1> SUFFICES ASSUME TypeInv, KeptInv, ExtraInv, [Next]_vars, manifest'.kind = "App", NEW ns \in Namespace,
                    task'[ns].step \in {"from", "env"}
             PROVE  DOMAIN copies'[ns].services \subseteq DOMAIN manifest'.services \/ UnknownService'
  BY DEF ExtraInv
<1>1. CASE Begin
  <2>1. copies'[ns] = Labelled(ns) /\ manifest' = manifest
    BY <1>1, BeginIs
  <2> QED BY <2>1 DEF Labelled
<1>2. CASE View(ns)
  <2>1. manifest' = manifest /\ task'[ns].step \in AtWork
    BY <1>2, StepOf DEF AtWork
  <2>2. task[ns] \in Task
    BY DEF TypeInv
  <2>3. ~Ended(ns) /\ ~Opens(ns) /\ ~Writes(ns)
    BY <2>2 DEF Ended, Opens, Writes, Task
  <2>4. ~Adds(ns) /\ ~Saves(ns)
    BY <2>2 DEF Adds, Saves, Task
  <2>5. task[ns].step \in {"from", "env"}
    BY <1>2, <2>2, <2>3, <2>4 DEF View, Frame, Skipped, Injects, Sets, Turns, Task
  <2>6. DOMAIN copies[ns].services \subseteq DOMAIN manifest.services \/ UnknownService
    BY <2>1, <2>5 DEF ExtraInv
  <2>7. CASE copies'[ns] = copies[ns]
    BY <2>1, <2>6, <2>7, UnknownStays
  <2>8. CASE Injects(ns)
    <3>1. Kept(manifest, task[ns], copies[ns])
      BY DEF KeptInv
    <3>2. DOMAIN copies'[ns].services =
            DOMAIN copies[ns].services \union TargetServices(copies[ns].services, Entered(ns).services)
      BY <2>8, <3>1, InjectsIs
    <3>3. TargetServices(copies[ns].services, Entered(ns).services)
            \subseteq DOMAIN copies[ns].services \union Entered(ns).services
      BY DEF TargetServices
    <3>4. Entered(ns).services \subseteq DOMAIN manifest.services \/ UnknownService
      BY <2>8, AimsElsewhere DEF Injects, Entered
    <3>5. DOMAIN copies'[ns].services \subseteq DOMAIN manifest.services \/ UnknownService
      BY <2>6, <3>2, <3>3, <3>4
    <3> QED BY <2>1, <3>5, UnknownStays
  <2>9. CASE Sets(ns)
    <3>1. Kept(manifest, task[ns], copies[ns])
      BY DEF KeptInv
    <3>2. DOMAIN copies'[ns].services = DOMAIN copies[ns].services
      BY <2>9, <3>1, SetsIs
    <3> QED BY <2>1, <2>6, <3>2, UnknownStays
  <2>10. Skipped(ns) \/ Turns(ns) \/ Frame(ns) => copies'[ns] = copies[ns]
    BY DEF Skipped, Turns, Frame
  <2> QED BY <1>2, <2>3, <2>4, <2>7, <2>8, <2>9, <2>10 DEF View
<1> QED BY <1>1, <1>2, ViewNext

LEMMA PanicUnknown ==
    ASSUME TypeInv, KeptInv, ExtraInv, manifest.kind = "App", NEW n \in Namespace, Panics(n)
    PROVE  UnknownService
<1> DEFINE c == copies[n].services
           names == IF task[n].step = "from" THEN Entered(n).services ELSE Setted(n).services
<1>1. /\ task[n].step \in {"from", "env"} /\ task[n].step \in AtWork
      /\ \E s \in TargetServices(c, names) : NoMap(c, s)
      /\ \/ task[n].step = "from" /\ task[n].at \in DOMAIN manifest.envFrom /\ Entered(n).ref # None
         \/ task[n].step = "env" /\ task[n].at \in DOMAIN manifest.env
  BY DEF Panics, AtWork, Entered, Setted
<1>2. \A s \in DOMAIN manifest.services : s \in DOMAIN c /\ c[s] # None
  BY <1>1 DEF KeptInv, Kept
<1>3. PICK s \in TargetServices(c, names) : NoMap(c, s)
  BY <1>1
<1>4. s \notin DOMAIN manifest.services
  BY <1>2, <1>3 DEF NoMap
<1>5. s \in DOMAIN c \/ s \in names
  BY DEF TargetServices
<1>6. DOMAIN c \subseteq DOMAIN manifest.services \/ UnknownService
  BY <1>1 DEF ExtraInv
<1>7. CASE s \in names
  BY <1>1, <1>4, <1>7, AimsElsewhere
<1> QED BY <1>4, <1>5, <1>6, <1>7

LEMMA PanicNext == TypeInv /\ KeptInv /\ ExtraInv /\ PanicInv /\ [Next]_vars => PanicInv'
<1> SUFFICES ASSUME TypeInv, KeptInv, ExtraInv, PanicInv, [Next]_vars, manifest'.kind = "App", NEW ns \in Namespace,
                    task'[ns].step = "panic"
             PROVE  UnknownService'
  BY DEF PanicInv
<1>1. ~Begin
  BY BeginIs
<1>2. View(ns) /\ manifest' = manifest
  BY <1>1, ViewNext, StepOf
<1>3. task[ns] \in Task
  BY DEF TypeInv
<1>4. CASE Frame(ns)
  BY <1>2, <1>4, UnknownStays DEF Frame, PanicInv
<1>5. CASE Ended(ns)
  <2>1. PICK n \in Namespace : Panics(n)
    BY <1>3, <1>5 DEF Ended, Task
  <2> QED BY <1>2, <2>1, PanicUnknown, UnknownStays
<1>6. ~Skipped(ns) /\ ~Injects(ns) /\ ~Sets(ns) /\ ~Turns(ns)
  BY <1>3 DEF Skipped, Injects, Sets, Turns, Task
<1>7. ~Opens(ns) /\ ~Writes(ns) /\ ~Adds(ns) /\ ~Saves(ns)
  BY <1>3 DEF Opens, Writes, Adds, Saves, Task
<1> QED BY <1>2, <1>4, <1>5, <1>6, <1>7 DEF View

LEMMA FindingsStay ==
    manifest' = manifest /\ store' = store => OfManifest' = OfManifest /\ \A kind : OfSources(kind)' = OfSources(kind)
<1> SUFFICES ASSUME manifest' = manifest, store' = store
             PROVE  OfManifest' = OfManifest /\ \A kind : OfSources(kind)' = OfSources(kind)
  OBVIOUS
<1>1. OfManifest' = OfManifest
  BY Zenon DEF OfManifest, UnknownService, Unknown, Tasks
<1>2. ASSUME NEW kind PROVE OfSources(kind)' = OfSources(kind)
  <2> DEFINE sources == {store[<<ns, ref>>] : ns \in Tasks, ref \in {r \in Ref : r.kind = kind}} \ {None}
  <2>1. sources' = sources
    BY DEF Tasks
  <2>2. OfSources(kind) = Found("invalid", "error", Broken \in sources)
                            \union Found("empty", "warning", \E s \in sources \ {Broken} : DOMAIN Loaded(s) = {})
    BY DEF OfSources
  <2>3. OfSources(kind)' = Found("invalid", "error", Broken \in sources')
                            \union Found("empty", "warning", \E s \in sources' \ {Broken} : DOMAIN Loaded(s) = {})
    BY DEF OfSources
  <2> HIDE DEF sources
  <2> QED BY Zenon, <2>1, <2>2, <2>3
<1> QED BY <1>1, <1>2

LEMMA ReportNext == TypeInv /\ ReportInv /\ [Next]_vars => ReportInv'
<1> SUFFICES ASSUME TypeInv, ReportInv, [Next]_vars PROVE ReportInv'
  OBVIOUS
<1>1. CASE Elsewhere
  BY <1>1 DEF Elsewhere, ReportInv
<1>2. CASE Doctor
  <2>1. manifest' = manifest /\ store' = store
    BY <1>2 DEF Doctor
  <2>2. PICK kind \in {"manifest", "Secret", "ConfigMap"} \ checked :
          /\ checked' = checked \union {kind}
          /\ report' = report \union (IF kind = "manifest" THEN OfManifest ELSE OfSources(kind))
    BY <1>2 DEF Doctor
  <2>3. "manifest" \in checked' => OfManifest \subseteq report'
    BY <2>2 DEF ReportInv
  <2>4. ASSUME NEW k \in {"Secret", "ConfigMap"}, k \in checked' PROVE OfSources(k) \subseteq report'
    BY <2>2, <2>4 DEF ReportInv
  <2> QED BY <2>1, <2>3, <2>4, FindingsStay DEF ReportInv
<1>3. CASE UNCHANGED vars \/ Begin \/ Goes
  <2>1. UNCHANGED <<manifest, store, report, checked>>
    BY <1>3, GoesForm DEF vars, Begin
  <2> QED BY <2>1, FindingsStay DEF ReportInv
<1> QED BY <1>1, <1>2, <1>3, NextIs

LEMMA ReportForesees == TypeInv /\ HeldInv /\ RefusedInv /\ PanicInv /\ ReportInv => DoctorForesees
<1> SUFFICES ASSUME TypeInv, HeldInv, RefusedInv, PanicInv, ReportInv, manifest.kind = "App", checked = Kinds,
                    NEW ns \in Tasks, task[ns].step \in {"refused", "panic"},
                    \A g, h \in held[ns] : g[1] = h[1] => g = h,
                    ~\E i \in DOMAIN manifest.mounts :
                        manifest.mounts[i].ref # None /\ store[<<ns, manifest.mounts[i].ref>>] = None
             PROVE  \E f \in report : f.severity = "error" \/ f.check = "unknown-service"
  BY DEF DoctorForesees, Kinds
<1> DEFINE Reported(check, severity) == [check |-> check, severity |-> severity] \in report
<1>1. ns \in Namespace
  BY ManifestType DEF Tasks
<1>2. OfManifest \subseteq report /\ \A kind \in {"Secret", "ConfigMap"} : OfSources(kind) \subseteq report
  BY DEF ReportInv, Kinds
<1>3. manifest.services = None => Reported("no-services", "error")
  BY <1>2 DEF OfManifest, Found
<1>4. manifest.services # None /\ UnknownService => Reported("unknown-service", "warning")
  BY <1>2 DEF OfManifest, Found
<1>5. ASSUME NEW i \in DOMAIN manifest.envFrom, manifest.envFrom[i].ref \in Ref,
             store[<<ns, manifest.envFrom[i].ref>>] = None, manifest.services # None
      PROVE  Reported("missing", "error")
  <2>1. manifest.envFrom[i].ref # None
    BY <1>5, ComposeEnvAssumption
  <2>2. \E j \in DOMAIN manifest.envFrom, n \in Tasks :
          /\ manifest.envFrom[j].ref # None /\ store[<<n, manifest.envFrom[j].ref>>] = None
    BY <1>5, <2>1
  <2>3. Found("missing", "error", \E j \in DOMAIN manifest.envFrom, n \in Tasks :
           /\ manifest.envFrom[j].ref # None /\ store[<<n, manifest.envFrom[j].ref>>] = None) \subseteq OfManifest
    BY Zenon, <1>5 DEF OfManifest
  <2> QED BY <1>2, <2>2, <2>3 DEF Found
<1>6. ASSUME NEW ref \in Ref, store[<<ns, ref>>] = Broken PROVE Reported("invalid", "error")
  <2> DEFINE sources == {store[<<n, r>>] : n \in Tasks, r \in {x \in Ref : x.kind = ref.kind}} \ {None}
  <2>1. ref.kind \in {"Secret", "ConfigMap"} /\ None # Broken
    BY ComposeEnvAssumption
  <2>2. Broken \in sources
    BY <1>6, <2>1
  <2>3. OfSources(ref.kind) = Found("invalid", "error", Broken \in sources)
                                \union Found("empty", "warning", \E s \in sources \ {Broken} : DOMAIN Loaded(s) = {})
    BY DEF OfSources
  <2> HIDE DEF sources
  <2> QED BY <1>2, <2>1, <2>2, <2>3 DEF Found
<1>7. CASE task[ns].step = "panic"
  BY <1>1, <1>3, <1>4, <1>7 DEF PanicInv
<1>8. CASE task[ns].step = "refused" /\ manifest.services # None
  <2>1. Withholds(manifest.envFrom, held[ns]) \/ Withholds(manifest.mounts, held[ns])
    BY <1>1, <1>8 DEF RefusedInv, Withheld
  <2>2. ASSUME NEW h \in held[ns], h[1] \in Ref PROVE h[2] = store[<<ns, h[1]>>]
    <3>1. <<h[1], store[<<ns, h[1]>>]>> \in held[ns]
      BY <1>1, <1>8, <2>2 DEF HeldInv, Holds
    <3>2. h = <<h[1], store[<<ns, h[1]>>]>>
      BY <3>1
    <3> QED BY <3>2
  <2>3. CASE Withholds(manifest.envFrom, held[ns])
    <3>1. PICK i \in DOMAIN manifest.envFrom :
            manifest.envFrom[i].ref \in Ref /\ store[<<ns, manifest.envFrom[i].ref>>] \in {None, Broken}
      BY <2>2, <2>3 DEF Withholds
    <3> QED BY <1>5, <1>6, <1>8, <3>1
  <2>4. CASE Withholds(manifest.mounts, held[ns])
    <3>1. PICK i \in DOMAIN manifest.mounts :
            manifest.mounts[i].ref \in Ref /\ store[<<ns, manifest.mounts[i].ref>>] \in {None, Broken}
      BY <2>2, <2>4 DEF Withholds
    <3>2. store[<<ns, manifest.mounts[i].ref>>] = Broken
      BY <3>1, ComposeEnvAssumption
    <3> QED BY <1>6, <3>1, <3>2
  <2> QED BY <2>1, <2>3, <2>4
<1> QED BY <1>3, <1>7, <1>8

-----------------------------------------------------------------------------
(* The inductive invariant, and the theorems.                                *)

IInv ==
    /\ TypeInv /\ KeptInv /\ DoneInv /\ ChosenInv /\ HeldInv /\ AuditInv /\ SourcedInv
    /\ EverInv /\ WrittenInv /\ SavedInv /\ OpenedInv /\ ServesInv /\ RefusedInv /\ ExtraInv /\ PanicInv /\ ReportInv

LEMMA IInit == Init => IInv
<1> SUFFICES ASSUME Init PROVE IInv
  OBVIOUS
<1>1. TypeInv
  BY TypeInit
<1>2. \A ns \in Namespace : task[ns].step = "idle" /\ held[ns] = {} /\ compose[ns] = None
  BY DEF Init, Idle
<1>3. "idle" \notin AtWork
  BY DEF AtWork
<1>4. KeptInv /\ DoneInv /\ ChosenInv /\ HeldInv
  BY <1>2, <1>3 DEF KeptInv, Kept, DoneInv, Done, ChosenInv, Chosen, HeldInv, Holds
<1>5. AuditInv /\ SourcedInv /\ SavedInv /\ OpenedInv /\ ServesInv
  BY <1>2, <1>3 DEF AuditInv, Audited, SourcedInv, Sourced, SavedInv, OpenedInv, Opened, ServesInv
<1>8. EverInv /\ WrittenInv
  BY DEF Init, EverInv, WrittenInv
<1>6. RefusedInv /\ ExtraInv /\ PanicInv
  BY <1>2 DEF RefusedInv, ExtraInv, PanicInv
<1>7. ReportInv
  BY DEF ReportInv, Init
<1> QED BY <1>1, <1>4, <1>5, <1>6, <1>7, <1>8 DEF IInv

LEMMA INext == IInv /\ [Next]_vars => IInv'
BY TypeNext, KeptNext, DoneNext, ChosenNext, HeldNext, AuditNext, SourcedNext,
   EverNext, WrittenNext, SavedNext, OpenedNext, ServesNext, RefusedNext, ExtraNext, PanicNext, ReportNext DEF IInv

LEMMA InvariantOf == Spec => []IInv
BY IInit, INext, PTL DEF Spec

(* The types of what the commands keep: a goroutine's index stays within the *)
(* list it is at, and every service of a copy has a map or none.             *)
THEOREM TypeCorrect == Spec => []TypeOK
<1>1. IInv => TypeOK
  BY TypeInvOK DEF IInv
<1> QED BY <1>1, InvariantOf, PTL

(* Whatever the entries of a manifest, and however sources change while they *)
(* are read, a variable is that of spec.env, of the service, or of the first *)
(* source that had the key (app_compose.go).                                 *)
THEOREM PrecedenceHolds == Spec => []Precedence
<1>1. IInv => Precedence
  BY ChosenPrecedence DEF IInv
<1> QED BY <1>1, InvariantOf, PTL

(* The labels of an App name, of each variable that was injected, the layer  *)
(* it came from; what they do not name the service itself sets               *)
(* (app_compose.go).                                                         *)
THEOREM AuditExplained == Spec => []AuditExplains
<1>1. IInv => AuditExplains
  BY AuditIsTrue DEF IInv
<1> QED BY <1>1, InvariantOf, PTL

(* A compose file mounts only directories that are there, wherever a command *)
(* breaks off, but in a bucket those of a source that was empty; and when it *)
(* is written they have all files of one instant of the source, and no other *)
(* than files it had earlier (writeMountFiles in app_compose.go).            *)
THEOREM MountsAreServed == Spec => []MountsServed
<1>1. IInv => MountsServed
  BY SavedServed DEF IInv
<1> QED BY <1>1, InvariantOf, PTL

(* However the goroutines of a DaemonSet interleave, a compose file holds    *)
(* nothing of another namespace (daemonset_compose.go).                      *)
THEOREM NamespacesStayApart == Spec => []NamespacesApart
<1>1. IInv => NamespacesApart
  BY SourcedApart DEF IInv
<1> QED BY <1>1, InvariantOf, PTL

(* What refuses an App, or makes the program panic, doctor has reported if   *)
(* it looked at all (app_doctor.go), but for sources that mounts name.       *)
THEOREM DoctorHasForeseen == Spec => []DoctorForesees
<1>1. IInv => DoctorForesees
  BY ReportForesees DEF IInv
<1> QED BY <1>1, InvariantOf, PTL

=============================================================================
