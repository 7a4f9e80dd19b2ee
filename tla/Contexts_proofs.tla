-------------------------- MODULE Contexts_proofs --------------------------
(***************************************************************************)
(* Proofs about Contexts, for any processes, names and commands: what the  *)
(* operations on a configuration keep, and that the file stays sound,      *)
(* loses nothing and keeps the selection, however commands overlap.        *)
(***************************************************************************)
EXTENDS Contexts, SequenceTheorems, TLAPS

(* A change of a configuration: its type, the names it lists, its soundness. *)
LEMMA AddOK ==
  ASSUME NEW c \in Config, NEW n \in AnyName, NEW b \in Backend, n \notin Names(c)
  PROVE  LET d == AddContext(c, n, b)
         IN  /\ d \in Config
             /\ Names(d) = Names(c) \union {n}
             /\ d.current = n
             /\ Sound(c) => Sound(d)
  <1> DEFINE d == AddContext(c, n, b)
             x == [name |-> n, backend |-> b]
             s == c.contexts
  <1>1. s \in Seq(Context) /\ x \in Context
    BY DEF Config, Context
  <1>2. /\ d.contexts = Append(s, x) /\ d.current = n
        /\ Append(s, x) \in Seq(Context)
        /\ Len(Append(s, x)) = Len(s) + 1 /\ Len(s) \in Nat
        /\ DOMAIN s = 1 .. Len(s) /\ DOMAIN Append(s, x) = 1 .. Len(s) + 1
        /\ \A i \in 1 .. Len(s) : Append(s, x)[i] = s[i]
        /\ Append(s, x)[Len(s) + 1] = x
    BY <1>1 DEF AddContext
  <1> HIDE DEF x
  <1>3. d \in Config
    BY <1>2 DEF Config, AddContext, x
  <1>4. /\ \A i \in 1 .. Len(s) : NameAt(d, i) = NameAt(c, i)
        /\ NameAt(d, Len(s) + 1) = n
        /\ DOMAIN d.contexts = 1 .. Len(s) + 1
    BY <1>2 DEF NameAt, x
  <1> HIDE DEF d
  <1>5. Names(d) = Names(c) \union {n}
    <2>1. \A i \in 1 .. Len(s) + 1 : i \in 1 .. Len(s) \/ i = Len(s) + 1
      BY <1>2
    <2>2. 1 .. Len(s) \subseteq 1 .. Len(s) + 1 /\ Len(s) + 1 \in 1 .. Len(s) + 1
      BY <1>2
    <2> QED BY <1>2, <1>4, <2>1, <2>2 DEF Names
  <1>6. ASSUME Unique(c) PROVE Unique(d)
    <2> SUFFICES ASSUME NEW i \in 1 .. Len(s) + 1, NEW j \in 1 .. Len(s) + 1,
                        NameAt(d, i) = NameAt(d, j)
                 PROVE  i = j
      BY <1>4 DEF Unique
    <2>1. CASE i \in 1 .. Len(s) /\ j \in 1 .. Len(s)
      BY <1>2, <1>4, <1>6, <2>1 DEF Unique
    <2>2. CASE i = Len(s) + 1 /\ j \in 1 .. Len(s)
      BY <1>2, <1>4, <2>2 DEF Names
    <2>3. CASE i \in 1 .. Len(s) /\ j = Len(s) + 1
      BY <1>2, <1>4, <2>3 DEF Names
    <2> QED BY <1>2, <2>1, <2>2, <2>3
  <1> QED BY <1>2, <1>3, <1>5, <1>6 DEF Sound, d

LEMMA UseOK ==
  ASSUME NEW c \in Config, NEW n \in AnyName
  PROVE  LET d == UseContext(c, n)
         IN  /\ d \in Config
             /\ d.contexts = c.contexts
             /\ Names(d) = Names(c)
             /\ d.current = n
             /\ Sound(c) /\ n \in Names(c) \union {NoName} => Sound(d)
  BY DEF UseContext, Config, Names, NameAt, Sound, Unique

LEMMA DeleteOK ==
  ASSUME NEW c \in Config, NEW n \in Names(c), Sound(c)
  PROVE  LET d == DeleteContext(c, n)
         IN  /\ d \in Config
             /\ Names(d) = Names(c) \ {n}
             /\ \A i \in DOMAIN d.contexts :
                  \E j \in DOMAIN c.contexts : d.contexts[i] = c.contexts[j]
             /\ d.current = IF c.current = n THEN NoName ELSE c.current
             /\ Sound(d)
  <1> DEFINE d == DeleteContext(c, n)
             s == c.contexts
             k == CHOOSE i \in DOMAIN c.contexts : NameAt(c, i) = n
             t == [i \in 1 .. Len(s) - 1 |-> IF i < k THEN s[i] ELSE s[i + 1]]
  <1>1. s \in Seq(Context) /\ Len(s) \in Nat /\ DOMAIN s = 1 .. Len(s)
    BY DEF Config
  <1>2. k \in 1 .. Len(s) /\ NameAt(c, k) = n
    <2>1. \E i \in DOMAIN s : NameAt(c, i) = n
      BY DEF Names
    <2> QED BY <1>1, <2>1
  <1>3. d.contexts = t /\ d.current = IF c.current = n THEN NoName ELSE c.current
    BY DEF DeleteContext
  <1> HIDE DEF k
  <1>4. \A i \in 1 .. Len(s) - 1 :
          /\ i \in 1 .. Len(s) /\ i + 1 \in 1 .. Len(s)
          /\ t[i] = IF i < k THEN s[i] ELSE s[i + 1]
    BY <1>1
  <1>5. Len(s) - 1 \in Nat
    BY <1>1, <1>2
  <1>6. t \in Seq(Context) /\ DOMAIN t = 1 .. Len(s) - 1
    <2>1. \A i \in 1 .. Len(s) - 1 : t[i] \in Context
      BY <1>1, <1>4
    <2>2. t \in [1 .. Len(s) - 1 -> Context]
      BY <2>1
    <2> QED BY <2>2, <1>5, SeqDef
  <1>7. d \in Config
    <2>1. d = [contexts |-> t, current |-> IF c.current = n THEN NoName ELSE c.current]
      BY DEF DeleteContext, k
    <2>2. (IF c.current = n THEN NoName ELSE c.current) \in AnyName
      BY DEF Config, AnyName
    <2> HIDE DEF t, d
    <2> QED BY <1>6, <2>1, <2>2 DEF Config
  <1>8. /\ DOMAIN d.contexts = 1 .. Len(s) - 1
        /\ \A i \in 1 .. Len(s) - 1 : NameAt(d, i) = IF i < k THEN NameAt(c, i) ELSE NameAt(c, i + 1)
    BY <1>3, <1>4, <1>6 DEF NameAt
  <1>9. \A i \in DOMAIN d.contexts : \E j \in DOMAIN c.contexts : d.contexts[i] = c.contexts[j]
    BY <1>1, <1>3, <1>4, <1>6
  <1> HIDE DEF d, t
  <1>10. \A i, j \in 1 .. Len(s) : NameAt(c, i) = NameAt(c, j) => i = j
    BY <1>1 DEF Sound, Unique
  <1>11. Names(d) = Names(c) \ {n}
    <2>1. ASSUME NEW i \in 1 .. Len(s) - 1 PROVE NameAt(d, i) \in Names(c) \ {n}
      <3>1. CASE i < k BY <3>1, <1>1, <1>2, <1>4, <1>8, <1>10 DEF Names
      <3>2. CASE ~(i < k) BY <3>2, <1>1, <1>2, <1>4, <1>8, <1>10 DEF Names
      <3> QED BY <3>1, <3>2
    <2>2. ASSUME NEW j \in 1 .. Len(s), NameAt(c, j) # n PROVE NameAt(c, j) \in Names(d)
      <3>1. CASE j < k
        <4>1. j \in 1 .. Len(s) - 1 /\ NameAt(d, j) = NameAt(c, j)
          BY <3>1, <1>1, <1>2, <1>8
        <4> QED BY <4>1, <1>8 DEF Names
      <3>2. CASE j > k
        <4>1. j - 1 \in 1 .. Len(s) - 1 /\ ~(j - 1 < k) /\ (j - 1) + 1 = j
          BY <3>2, <1>1, <1>2
        <4>2. NameAt(d, j - 1) = NameAt(c, j)
          BY <4>1, <1>8
        <4> QED BY <4>1, <4>2, <1>8 DEF Names
      <3>3. j # k
        BY <2>2, <1>2
      <3> QED BY <3>1, <3>2, <3>3, <1>1, <1>2
    <2> QED BY <2>1, <2>2, <1>1, <1>8 DEF Names
  <1>12. Unique(d)
    <2> SUFFICES ASSUME NEW i \in 1 .. Len(s) - 1, NEW j \in 1 .. Len(s) - 1,
                        NameAt(d, i) = NameAt(d, j)
                 PROVE  i = j
      BY <1>8 DEF Unique
    <2>1. CASE i < k /\ j < k BY <2>1, <1>4, <1>8, <1>10
    <2>2. CASE i < k /\ ~(j < k) BY <2>2, <1>1, <1>2, <1>4, <1>8, <1>10
    <2>3. CASE ~(i < k) /\ j < k BY <2>3, <1>1, <1>2, <1>4, <1>8, <1>10
    <2>4. CASE ~(i < k) /\ ~(j < k) BY <2>4, <1>1, <1>2, <1>4, <1>8, <1>10
    <2> QED BY <2>1, <2>2, <2>3, <2>4
  <1> QED BY <1>3, <1>7, <1>9, <1>11, <1>12 DEF Sound, d

(* The empty configuration. *)
LEMMA SkeletonOK == Skeleton \in Config /\ Names(Skeleton) = {} /\ Sound(Skeleton)
  <1>1. Skeleton.contexts = <<>> /\ Skeleton.current = NoName /\ Skeleton \in Config
    BY DEF Skeleton, Config, AnyName
  <1> QED BY <1>1 DEF Names, Sound, Unique

-----------------------------------------------------------------------------
(* Types, and what a process saw of the file by the step it is at. *)

LEMMA ChangedType ==
  ASSUME NEW c \in Config, NEW r \in AllRequests, r.verb # "run", Allowed(c, r), Sound(c)
  PROVE  Changed(c, r) \in Config /\ Sound(Changed(c, r))
  <1>1. r.verb \in Verb /\ r.name \in AnyName /\ r.backend \in Backend
    BY DEF AllRequests
  <1>2. CASE r.verb = "new" BY <1>1, <1>2, AddOK DEF Changed, Allowed
  <1>3. CASE r.verb = "use" BY <1>1, <1>3, UseOK DEF Changed, Allowed
  <1>4. CASE r.verb = "delete" BY <1>1, <1>4, DeleteOK DEF Changed, Allowed
  <1> QED BY <1>1, <1>2, <1>3, <1>4 DEF Verb

(* What a process at a step has in hand. *)
HandOK(p) ==
    /\ pc[p] \in {"ping", "save"} => Sound(seen[p].config)
    /\ pc[p] \in {"start", "truncate", "skeleton", "ping", "save"} => req[p].verb # "run"
    /\ pc[p] = "skeleton" => seen[p] = Torn

SoundInv ==
    /\ TypeOK
    /\ FileSound
    /\ \A p \in Process : HandOK(p)

LEMMA FileTypes ==
  /\ Absent \in File /\ Torn \in File
  /\ Absent.config = Skeleton /\ Torn.config = Skeleton
  /\ \A c \in Config : Written(c) \in File /\ Written(c).state = "written" /\ Written(c).config = c
  BY SkeletonOK DEF Absent, Torn, File, Written

LEMMA InitSoundInv == Init => SoundInv
  <1> SUFFICES ASSUME Init PROVE SoundInv
    OBVIOUS
  <1>1. Nothing \in AllRequests
    BY DEF Nothing, AllRequests, Verb, Backend, AnyName
  <1>2. TypeOK
    BY <1>1, FileTypes DEF Init, TypeOK, Step, Place, AnyName
  <1>3. FileSound /\ \A p \in Process : HandOK(p)
    BY FileTypes, SkeletonOK DEF Init, FileSound, HandOK
  <1> QED BY <1>2, <1>3 DEF SoundInv

LEMMA NextSoundInv ==
  ASSUME SoundInv, [Next]_vars
  PROVE  SoundInv'
  <1> USE DEF SoundInv
  <1>0. /\ Nothing \in AllRequests
        /\ \A r \in Requests : r \in AllRequests
        /\ \A f \in File : f.config \in Config
    BY ConstantsAssumption DEF Nothing, AllRequests, Verb, Backend, AnyName, File
  <1>1. ASSUME NEW p \in Process,
               \/ Begin(p) \/ Leave(p) \/ Prepare(p) \/ Load(p) \/ Resolve(p) \/ LoadFails(p)
               \/ Ping(p) \/ Refuse(p)
        PROVE  SoundInv'
    <2>1. file' = file /\ UNCHANGED history
      BY <1>1 DEF Begin, Leave, Prepare, Load, Resolve, LoadFails, Ping, Refuse
    <2>2. FileSound'
      BY <2>1 DEF FileSound, history, Sound, Unique, Names, NameAt
    <2>3. TypeOK' /\ \A q \in Process : HandOK(q)'
      <3> USE <1>0, <2>1, FileTypes DEF TypeOK, HandOK, At, Goto, Exit, history, Step
      <3>1. CASE Begin(p) BY <1>1, <3>1 DEF Begin
      <3>2. CASE Leave(p) BY <1>1, <3>2 DEF Leave
      <3>3. CASE Prepare(p)
        <4>1. req[p].name \in AnyName BY DEF AllRequests
        <4>2. nsDir' \in [AnyName -> Place]
          BY <3>3, <4>1 DEF Prepare, Place
        <4> QED BY <3>3, <4>2 DEF Prepare
      <3>4. CASE Load(p)
        <4>1. Sound(file.config) /\ file.state = "written"
          BY <3>4 DEF Load, Readable, Valid, Sound
        <4>2. AfterLoad(req[p]) \in {"ping", "save"}
          BY DEF AfterLoad
        <4> QED BY <3>4, <4>1, <4>2 DEF Load
      <3>5. CASE Resolve(p) BY <1>1, <3>5 DEF Resolve
      <3>6. CASE LoadFails(p) BY <1>1, <3>6 DEF LoadFails
      <3>7. CASE Ping(p) BY <1>1, <3>7 DEF Ping
      <3>8. CASE Refuse(p) BY <1>1, <3>8 DEF Refuse
      <3> QED BY <1>1, <3>1, <3>2, <3>3, <3>4, <3>5, <3>6, <3>7, <3>8
    <2> QED BY <2>2, <2>3
  <1>2. ASSUME NEW p \in Process, Truncate(p) PROVE SoundInv'
    <2> USE <1>0, FileTypes, SkeletonOK DEF TypeOK, HandOK, At, Goto, Truncate, Note, Step
    <2>1. TypeOK' BY <1>2, ConstantsAssumption DEF AnyName
    <2>2. FileSound' BY <1>2 DEF FileSound
    <2>3. \A q \in Process : HandOK(q)' BY <1>2
    <2> QED BY <2>1, <2>2, <2>3
  <1>3. ASSUME NEW p \in Process, WriteSkeleton(p) PROVE SoundInv'
    <2> USE <1>0, FileTypes, SkeletonOK DEF TypeOK, HandOK, At, Goto, WriteSkeleton, Note, Step
    <2>0. AfterLoad(req[p]) \in {"ping", "save"}
      BY DEF AfterLoad
    <2>1. TypeOK' BY <1>3, <2>0, ConstantsAssumption DEF AnyName
    <2>2. FileSound' BY <1>3 DEF FileSound
    <2>3. \A q \in Process : HandOK(q)' BY <1>3, <2>0
    <2> QED BY <2>1, <2>2, <2>3
  <1>4. ASSUME NEW p \in Process, Save(p) PROVE SoundInv'
    <2> DEFINE d == Changed(seen[p].config, req[p])
    <2>1. /\ pc[p] = "save" /\ Allowed(seen[p].config, req[p])
          /\ file' = Written(d) /\ edited' = edited /\ nsDir' = nsDir
          /\ NoteDone(p, req[p]) /\ Exit(p)
      BY <1>4 DEF Save, At
    <2>2. seen[p].config \in Config /\ req[p] \in AllRequests /\ req[p].verb # "run"
          /\ Sound(seen[p].config)
      BY <1>0, <2>1 DEF TypeOK, HandOK
    <2>3. d \in Config /\ Sound(d)
      BY <2>1, <2>2, ChangedType
    <2> HIDE DEF d
    <2>4. req[p].name \in AnyName /\ req[p].verb \in {"new", "use", "delete"}
      BY <2>2 DEF AllRequests, Verb
    <2>5. made' \subseteq AnyName /\ selected' \in AnyName /\ excused' \in BOOLEAN
      BY <2>1, <2>4 DEF NoteDone, Note, TypeOK, AnyName
    <2>6. TypeOK'
      BY <1>0, <2>1, <2>3, <2>5, FileTypes DEF TypeOK, Exit, Step
    <2>7. FileSound'
      BY <2>1, <2>3, FileTypes DEF FileSound
    <2>8. \A q \in Process : HandOK(q)'
      BY <2>1 DEF HandOK, Exit, TypeOK
    <2> QED BY <2>6, <2>7, <2>8
  <1>5. ASSUME NEW n \in AnyName, HandEdit(n) PROVE SoundInv'
    <2> DEFINE d == UseContext(file.config, n)
    <2>1. /\ d \in Config /\ file.config \in Config
          /\ Sound(file.config) /\ n \in Names(file.config) \union {NoName} => Sound(d)
      BY <1>0, UseOK DEF TypeOK
    <2>2. /\ file' = Written(d) /\ UNCHANGED <<nsDir, local>>
          /\ edited' = (edited \/ n \notin Names(file.config) \union {NoName})
          /\ Note(made, n, edited')
      BY <1>5 DEF HandEdit
    <2> HIDE DEF d
    <2>3. TypeOK' BY <2>1, <2>2, FileTypes DEF TypeOK, local, Note, AnyName
    <2>4. FileSound' BY <2>1, <2>2, FileTypes DEF FileSound, TypeOK
    <2>5. \A q \in Process : HandOK(q)' BY <2>2 DEF HandOK, local
    <2> QED BY <2>3, <2>4, <2>5
  <1>6. CASE UNCHANGED vars
    BY <1>6 DEF vars, TypeOK, FileSound, HandOK, Sound, Unique, Names, NameAt
  <1> QED BY <1>1, <1>2, <1>3, <1>4, <1>5, <1>6 DEF Next

(* Every reachable state has its types; a process that is about to change  *)
(* a configuration has read or written one.                                *)
THEOREM TypeCorrect == Spec => []TypeOK
  <1>1. SoundInv => TypeOK
    BY DEF SoundInv
  <1>2. SoundInv /\ [Next]_vars => SoundInv'
    BY NextSoundInv
  <1> QED BY InitSoundInv, <1>1, <1>2, PTL DEF Spec

(* However commands overlap and break off, the file lists no name twice    *)
(* and no current context that is not there.                               *)
THEOREM FileStaysSound == Spec => []FileSound
  <1>1. SoundInv => FileSound
    BY DEF SoundInv
  <1>2. SoundInv /\ [Next]_vars => SoundInv'
    BY NextSoundInv
  <1> QED BY InitSoundInv, <1>1, <1>2, PTL DEF Spec

-----------------------------------------------------------------------------
(* What the file keeps.  While nothing excuses a loss, an unreadable file is *)
(* one that lists nothing, so what config.Init replaces is empty.            *)

Kept ==
    /\ NothingLost /\ SelectionKept
    /\ ~excused => NoName \notin made
    /\ edited => excused

LEMMA UnreadableIsEmpty ==
  ASSUME SoundInv, Kept, ~excused, ~Readable(file)
  PROVE  made = {} /\ selected = NoName
  <1>1. Sound(file.config) /\ Names(file.config) = made /\ file.config.current = selected
        /\ NoName \notin made
    BY DEF SoundInv, FileSound, Kept, NothingLost, SelectionKept
  <1>2. file.state # "written" \/ file.config.contexts = <<>>
    BY <1>1 DEF Readable, Valid, Sound
  <1>3. Names(file.config) = {}
    <2>1. CASE file.state # "written" BY <2>1, SkeletonOK DEF SoundInv, TypeOK
    <2>2. CASE file.config.contexts = <<>> BY <2>2 DEF Names
    <2> QED BY <1>2, <2>1, <2>2
  <1> QED BY <1>1, <1>3 DEF Sound

LEMMA NextKept ==
  ASSUME SoundInv, Kept, [Next]_vars
  PROVE  Kept'
  <1>0. \A f \in File : f.config \in Config
    BY DEF File
  <1>1. ASSUME NEW p \in Process,
               \/ Begin(p) \/ Leave(p) \/ Prepare(p) \/ Load(p) \/ Resolve(p) \/ LoadFails(p)
               \/ Ping(p) \/ Refuse(p)
        PROVE  Kept'
    <2>1. file' = file /\ UNCHANGED history
      BY <1>1 DEF Begin, Leave, Prepare, Load, Resolve, LoadFails, Ping, Refuse
    <2> QED BY <2>1 DEF Kept, NothingLost, SelectionKept, history, Names, NameAt
  <1>2. ASSUME NEW p \in Process, Truncate(p) PROVE Kept'
    <2>1. /\ file' = Torn /\ edited' = edited
          /\ Note(made, selected, file # seen[p] \/ Readable(seen[p]))
      BY <1>2 DEF Truncate
    <2>2. CASE excused' BY <2>1, <2>2 DEF Kept, NothingLost, SelectionKept
    <2>3. CASE ~excused'
      <3>1. ~excused /\ ~Readable(file) /\ made' = made /\ selected' = selected
        BY <2>1, <2>3 DEF Note
      <3>2. made = {} /\ selected = NoName
        BY <3>1, UnreadableIsEmpty
      <3>3. Names(Torn.config) = {} /\ Torn.config.current = NoName
        BY FileTypes, SkeletonOK DEF Skeleton
      <3> QED BY <2>1, <3>1, <3>2, <3>3 DEF Kept, NothingLost, SelectionKept
    <2> QED BY <2>2, <2>3
  <1>3. ASSUME NEW p \in Process, WriteSkeleton(p) PROVE Kept'
    <2>1. /\ file' = Written(Skeleton) /\ edited' = edited /\ pc[p] = "skeleton"
          /\ Note(made, selected, file # seen[p])
      BY <1>3 DEF WriteSkeleton, At
    <2>2. CASE excused' BY <2>1, <2>2 DEF Kept, NothingLost, SelectionKept
    <2>3. CASE ~excused'
      <3>1. ~excused /\ file = seen[p] /\ made' = made /\ selected' = selected
        BY <2>1, <2>3 DEF Note
      <3>2. file = Torn
        BY <2>1, <3>1 DEF SoundInv, HandOK
      <3>3. Written(Skeleton).config = file.config
        BY <3>2, FileTypes, SkeletonOK
      <3> QED BY <2>1, <3>1, <3>3 DEF Kept, NothingLost, SelectionKept, Names, NameAt
    <2> QED BY <2>2, <2>3
  <1>4. ASSUME NEW p \in Process, Save(p) PROVE Kept'
    <2> DEFINE c == seen[p].config
               r == req[p]
               d == Changed(c, r)
    <2>1. /\ pc[p] = "save" /\ Allowed(c, r) /\ file' = Written(d)
          /\ NoteDone(p, r) /\ edited' = edited
      BY <1>4 DEF Save, At
    <2>2. /\ c \in Config /\ r \in AllRequests /\ r.verb # "run" /\ Sound(c)
          /\ r.name \in AnyName /\ r.verb \in {"new", "use", "delete"} /\ r.backend \in Backend
      BY <1>0, <2>1 DEF SoundInv, TypeOK, HandOK, AllRequests, Verb
    <2>3. d \in Config
      BY <2>1, <2>2, ChangedType
    <2>4. CASE excused'
      BY <2>1, <2>4 DEF NoteDone, Note, Kept, NothingLost, SelectionKept
    <2>5. CASE ~excused'
      <3>1. /\ ~excused /\ file = seen[p] /\ r.name # NoName
            /\ made' = CASE r.verb = "new" -> made \union {r.name}
                         [] r.verb = "use" -> made
                         [] r.verb = "delete" -> made \ {r.name}
            /\ selected' = IF r.verb # "delete" THEN r.name
                           ELSE IF selected = r.name THEN NoName ELSE selected
        BY <2>1, <2>5 DEF NoteDone, Note
      <3>2. Names(c) = made /\ c.current = selected /\ NoName \notin made
        BY <3>1 DEF Kept, NothingLost, SelectionKept
      <3>3. Names(d) = made' /\ d.current = selected'
        <4>1. CASE r.verb = "new"
          <5>1. d = AddContext(c, r.name, r.backend) BY <4>1 DEF Changed
          <5>2. made' = made \union {r.name} /\ selected' = r.name BY <3>1, <4>1
          <5> HIDE DEF c, r, d
          <5> QED BY <2>1, <2>2, <3>2, <4>1, <5>1, <5>2, AddOK DEF Allowed
        <4>2. CASE r.verb = "use"
          <5>1. d = UseContext(c, r.name) BY <4>2 DEF Changed
          <5>2. made' = made /\ selected' = r.name BY <3>1, <4>2
          <5> HIDE DEF c, r, d
          <5> QED BY <2>2, <3>2, <5>1, <5>2, UseOK
        <4>3. CASE r.verb = "delete"
          <5>1. d = DeleteContext(c, r.name) BY <4>3 DEF Changed
          <5>2. /\ made' = made \ {r.name}
                /\ selected' = IF selected = r.name THEN NoName ELSE selected
            BY <3>1, <4>3
          <5>3. r.name \in Names(c) BY <2>1, <4>3 DEF Allowed
          <5> HIDE DEF c, r, d
          <5> QED BY <2>2, <3>2, <5>1, <5>2, <5>3, DeleteOK
        <4> QED BY <2>2, <4>1, <4>2, <4>3
      <3>4. NoName \notin made'
        BY <2>2, <3>1, <3>2
      <3> HIDE DEF d
      <3> QED BY <2>1, <2>3, <3>1, <3>3, <3>4, FileTypes DEF Kept, NothingLost, SelectionKept
    <2> QED BY <2>4, <2>5
  <1>5. ASSUME NEW n \in AnyName, HandEdit(n) PROVE Kept'
    <2> DEFINE d == UseContext(file.config, n)
    <2>1. d \in Config /\ Names(d) = Names(file.config) /\ d.current = n
      BY <1>0, UseOK DEF SoundInv, TypeOK
    <2>2. file' = Written(d) /\ Note(made, n, edited')
          /\ edited' = (edited \/ n \notin Names(file.config) \union {NoName})
      BY <1>5 DEF HandEdit
    <2> HIDE DEF d
    <2> QED BY <2>1, <2>2, FileTypes DEF Note, Kept, NothingLost, SelectionKept
  <1>6. CASE UNCHANGED vars
    BY <1>6 DEF vars, Kept, NothingLost, SelectionKept, Names, NameAt
  <1> QED BY <1>1, <1>2, <1>3, <1>4, <1>5, <1>6 DEF Next

LEMMA InitKept == Init => Kept
  BY FileTypes, SkeletonOK DEF Init, Kept, NothingLost, SelectionKept, Skeleton

LEMMA KeptInvariant == Spec => [](SoundInv /\ Kept)
  <1>1. (SoundInv /\ Kept) /\ [Next]_vars => (SoundInv /\ Kept)'
    BY NextSoundInv, NextKept
  <1> QED BY InitSoundInv, InitKept, <1>1, PTL DEF Spec

(* A context that was added is in the file until it is deleted, unless one *)
(* of the recorded causes occurred.                                        *)
THEOREM ContextsKept == Spec => []NothingLost
  <1>1. SoundInv /\ Kept => NothingLost
    BY DEF Kept
  <1> QED BY KeptInvariant, <1>1, PTL

(* Commands act on the context that was activated last, under the same     *)
(* condition.                                                              *)
THEOREM SelectionStays == Spec => []SelectionKept
  <1>1. SoundInv /\ Kept => SelectionKept
    BY DEF Kept
  <1> QED BY KeptInvariant, <1>1, PTL

-----------------------------------------------------------------------------
(* Data directories.  The names that context new has been through with the *)
(* check of their directory only grow; a process has been through it with  *)
(* the local context it adds, and with those it read somebody was.         *)

Passed == {n \in AnyName : nsDir[n] # "absent"}

PreparedIn(c, dirs) ==
    \A i \in DOMAIN c.contexts : c.contexts[i].backend = "local" => NameAt(c, i) \in dirs

PreparedInv ==
    /\ PreparedIn(file.config, Passed)
    /\ \A p \in Process :
         /\ pc[p] \in {"ping", "save"} => PreparedIn(seen[p].config, Passed)
         /\ /\ pc[p] \in Step \ {"start"}
            /\ req[p].verb = "new" /\ req[p].backend = "local"
            => req[p].name \in Passed

LEMMA ChangedPrepared ==
  ASSUME NEW c \in Config, NEW r \in AllRequests, NEW dirs, r.verb # "run", Allowed(c, r), Sound(c),
         PreparedIn(c, dirs), r.verb = "new" /\ r.backend = "local" => r.name \in dirs
  PROVE  PreparedIn(Changed(c, r), dirs)
  <1>1. r.verb \in {"new", "use", "delete"} /\ r.name \in AnyName /\ r.backend \in Backend
    BY DEF AllRequests, Verb
  <1>2. CASE r.verb = "new"
    <2> DEFINE x == [name |-> r.name, backend |-> r.backend]
    <2>1. c.contexts \in Seq(Context) /\ x \in Context
      BY <1>1 DEF Config, Context
    <2>2. Changed(c, r).contexts = Append(c.contexts, x)
      BY <1>2 DEF Changed, AddContext
    <2>3. /\ Len(c.contexts) \in Nat /\ DOMAIN c.contexts = 1 .. Len(c.contexts)
          /\ DOMAIN Append(c.contexts, x) = 1 .. Len(c.contexts) + 1
          /\ \A i \in 1 .. Len(c.contexts) : Append(c.contexts, x)[i] = c.contexts[i]
          /\ Append(c.contexts, x)[Len(c.contexts) + 1] = x
      BY <2>1
    <2>4. x.backend = r.backend /\ x.name = r.name
      OBVIOUS
    <2> HIDE DEF x
    <2>5. ASSUME NEW i \in 1 .. Len(c.contexts) + 1, Append(c.contexts, x)[i].backend = "local"
          PROVE  Append(c.contexts, x)[i].name \in dirs
      <3>1. CASE i \in 1 .. Len(c.contexts) BY <2>3, <2>5, <3>1 DEF PreparedIn, NameAt
      <3>2. CASE i = Len(c.contexts) + 1 BY <1>2, <2>3, <2>4, <2>5, <3>2
      <3> QED BY <2>3, <3>1, <3>2
    <2> QED BY <2>2, <2>3, <2>5 DEF PreparedIn, NameAt
  <1>3. CASE r.verb = "use"
    <2>1. Changed(c, r).contexts = c.contexts
      BY <1>1, <1>3, UseOK DEF Changed
    <2> QED BY <2>1 DEF PreparedIn, NameAt
  <1>4. CASE r.verb = "delete"
    <2>1. \A i \in DOMAIN Changed(c, r).contexts :
            \E j \in DOMAIN c.contexts : Changed(c, r).contexts[i] = c.contexts[j]
      BY <1>1, <1>4, DeleteOK DEF Changed, Allowed
    <2> QED BY <2>1 DEF PreparedIn, NameAt
  <1> QED BY <1>1, <1>2, <1>3, <1>4

LEMMA SkeletonPrepared == \A dirs : PreparedIn(Skeleton, dirs)
  BY DEF Skeleton, PreparedIn

LEMMA NextPreparedInv ==
  ASSUME SoundInv, PreparedInv, [Next]_vars
  PROVE  PreparedInv'
  <1> USE FileTypes, SkeletonPrepared DEF PreparedInv, At, Goto, Exit, Step, SoundInv, TypeOK
  <1>0. nsDir' = nsDir => Passed' = Passed
    BY DEF Passed
  <1>1. ASSUME NEW p \in Process, Begin(p) PROVE PreparedInv' BY <1>0, <1>1 DEF Begin
  <1>2. ASSUME NEW p \in Process, Leave(p) PROVE PreparedInv' BY <1>0, <1>2 DEF Leave
  <1>3. ASSUME NEW p \in Process, Prepare(p) PROVE PreparedInv'
    <2>0. req[p].name \in AnyName
      BY DEF AllRequests
    <2>1. Passed \subseteq Passed' /\ (req[p].backend = "local" => req[p].name \in Passed')
      BY <1>3, <2>0 DEF Prepare, Passed, Place, AllRequests, Backend
    <2>2. \A c : PreparedIn(c, Passed) => PreparedIn(c, Passed')
      BY <2>1 DEF PreparedIn
    <2> QED BY <1>3, <2>1, <2>2 DEF Prepare
  <1>4. ASSUME NEW p \in Process, Load(p) PROVE PreparedInv' BY <1>0, <1>4 DEF Load
  <1>5. ASSUME NEW p \in Process, Resolve(p) PROVE PreparedInv' BY <1>0, <1>5 DEF Resolve
  <1>6. ASSUME NEW p \in Process, LoadFails(p) PROVE PreparedInv' BY <1>0, <1>6 DEF LoadFails
  <1>7. ASSUME NEW p \in Process, Truncate(p) PROVE PreparedInv' BY <1>0, <1>7 DEF Truncate
  <1>8. ASSUME NEW p \in Process, WriteSkeleton(p) PROVE PreparedInv'
    BY <1>0, <1>8, SkeletonOK DEF WriteSkeleton
  <1>9. ASSUME NEW p \in Process, Ping(p) PROVE PreparedInv' BY <1>0, <1>9 DEF Ping
  <1>10. ASSUME NEW p \in Process, Refuse(p) PROVE PreparedInv' BY <1>0, <1>10 DEF Refuse
  <1>11. ASSUME NEW p \in Process, Save(p) PROVE PreparedInv'
    <2> DEFINE d == Changed(seen[p].config, req[p])
    <2>1. /\ pc[p] = "save" /\ Allowed(seen[p].config, req[p])
          /\ file' = Written(d) /\ nsDir' = nsDir /\ Exit(p)
      BY <1>11 DEF Save
    <2>2. /\ seen[p].config \in Config /\ req[p] \in AllRequests
          /\ req[p].verb # "run" /\ Sound(seen[p].config)
      BY <2>1 DEF HandOK, File
    <2>3. PreparedIn(d, Passed) /\ d \in Config
      BY <2>1, <2>2, ChangedPrepared, ChangedType
    <2> HIDE DEF d
    <2> QED BY <1>0, <2>1, <2>3
  <1>12. ASSUME NEW n \in AnyName, HandEdit(n) PROVE PreparedInv'
    <2>1. /\ file' = Written(UseContext(file.config, n)) /\ UNCHANGED <<nsDir, local>>
          /\ UseContext(file.config, n) \in Config
          /\ UseContext(file.config, n).contexts = file.config.contexts
      BY <1>12, UseOK DEF HandEdit, File
    <2>2. PreparedIn(UseContext(file.config, n), Passed)
      BY <2>1 DEF PreparedIn, NameAt
    <2> QED BY <1>0, <2>1, <2>2 DEF local
  <1>13. CASE UNCHANGED vars
    BY <1>0, <1>13 DEF vars
  <1> QED BY <1>1, <1>2, <1>3, <1>4, <1>5, <1>6, <1>7, <1>8, <1>9, <1>10, <1>11, <1>12, <1>13 DEF Next

(* A local context is in the file only once its data directory has *)
(* namespaces/, or something that passed for it.                             *)
THEOREM LocalContextsPrepared == Spec => []ContextsPrepared
  <1>1. Init => PreparedInv
    BY FileTypes, SkeletonPrepared DEF Init, PreparedInv, Passed, Step
  <1>2. (SoundInv /\ PreparedInv) /\ [Next]_vars => (SoundInv /\ PreparedInv)'
    BY NextSoundInv, NextPreparedInv
  <1>3. PreparedInv => ContextsPrepared
    BY DEF PreparedInv, PreparedIn, ContextsPrepared, LocalNames, Passed
  <1> QED BY InitSoundInv, <1>1, <1>2, <1>3, PTL DEF Spec
=============================================================================
