-------------------------- MODULE Manifests_proofs --------------------------
(***************************************************************************)
(* Proofs about Manifests, for any processes, objects and requests: type   *)
(* correctness, that the commands implement the abstract store, and what   *)
(* an apply, a delete or an export has achieved when it ends.              *)
(***************************************************************************)
EXTENDS Manifests, FiniteSetTheorems, TLAPS

-----------------------------------------------------------------------------
(* The inductive invariant, part one: which command is at which step. *)

Working(p) == pc[p] \in Step \ {"next"}

VerbsAt(step) ==
    CASE step = "exists" -> {"apply", "create", "edit", "delete"}
      [] step = "write" -> {"apply", "create", "edit"}
      [] step = "start" -> {"apply", "edit", "start"}
      [] step \in {"confirm", "stop", "list", "rm"} -> {"delete"}
      [] step \in {"labels", "save"} -> {"label"}
      [] step \in {"open", "edit"} -> {"edit"}
      [] OTHER -> {"export"}

Placed(p) ==
    /\ req[p] \in Offered \union {Nothing}
    /\ Working(p) =>
         /\ cur[p] \in 1..Len(req[p].docs) /\ cur[p] \notin left[p]
         /\ Accepted(req[p], Cur(p))
         /\ req[p].verb \in VerbsAt(pc[p])
    /\ pc[p] \in {"edit", "save"} \/ (pc[p] \in {"exists", "write"} /\ req[p].verb = "edit") =>
         seen[p] # None
    /\ pc[p] \in {"write", "confirm", "stop", "list", "rm", "save"} => ~req[p].dry

TypeInv == TypeOK /\ \A p \in Process : Placed(p)

-----------------------------------------------------------------------------
(* Part two: what the history of a busy process contains. *)

OpOf(p, i) == [do |-> Doing[req[p].verb], obj |-> Target(req[p], req[p].docs[i]),
               version |-> req[p].docs[i].version]
HasOp(p, i) ==
    /\ req[p].verb \in DOMAIN Doing /\ ~req[p].dry
    /\ i \in 1..Len(req[p].docs) /\ req[p].docs[i].kind \in Kind
Handled(p, i) ==
    \/ i \notin left[p] /\ (i # cur[p] \/ At(p, "next"))
    \/ i = cur[p] /\ At(p, "start")
DoneOp(p, i) == Store!Done(p, OpOf(p, i))

UsesSeen(p) == pc[p] \in {"edit", "save"} \/ (pc[p] \in {"exists", "write"} /\ req[p].verb = "edit")

Seeing(p) ==
    /\ \A o \in Object : manifest[o] \in witnessed[p][o]
    /\ UsesSeen(p) => seen[p] \in witnessed[p][Obj(p)]
Removing(p) ==
    At(p, "rm") =>
      /\ \A f \in keys[p] : f[2] \in Inside(Obj(p))
      /\ backend = "s3" /\ ~skipped[p] =>
           \A o \in Inside(Obj(p)) : None \in witnessed[p][o] \/ <<"manifest", o>> \in keys[p]
Doneness(p) ==
    ~skipped[p] => \A i \in 1..Len(req[p].docs) : HasOp(p, i) /\ Handled(p, i) => DoneOp(p, i)

Witnessed(p) == Busy(p) => Seeing(p) /\ Removing(p) /\ Doneness(p)
WitnessInv == \A p \in Process : Witnessed(p)

-----------------------------------------------------------------------------
(* Types of what a request and its documents are made of. *)

LEMMA RequestParts ==
    ASSUME TypeInv, NEW p \in Process
    PROVE  /\ req[p].verb \in Verb /\ req[p].docs \in Seq(Document)
           /\ Len(req[p].docs) \in Nat /\ req[p].dry \in BOOLEAN
           /\ \A i \in 1..Len(req[p].docs) :
                req[p].docs[i] \in Document /\ req[p].docs[i].version \in Version
<1>1. req[p] \in AllRequests
  BY DEF TypeInv, TypeOK
<1>2. /\ req[p].verb \in Verb /\ req[p].docs \in Seq(Document)
      /\ req[p].dry \in BOOLEAN
  BY <1>1 DEF AllRequests
<1>3. \A i \in 1..Len(req[p].docs) : req[p].docs[i] \in Document
  BY <1>2
<1>4. \A d \in Document : d.version \in Version
  BY DEF Document
<1> QED
  BY <1>2, <1>3, <1>4

LEMMA TargetIsObject ==
    ASSUME TypeInv, NEW p \in Process, NEW i \in 1..Len(req[p].docs),
           req[p].docs[i].kind \in Kind
    PROVE  Target(req[p], req[p].docs[i]) \in Object
<1>1. req[p] \in Offered \/ req[p] = Nothing
  BY DEF TypeInv, Placed
<1>2. Len(Nothing.docs) = 0
  BY DEF Nothing
<1> QED
  BY <1>1, <1>2, TargetsAssumption

LEMMA ObjectOfStep ==
    ASSUME TypeInv, NEW p \in Process, Working(p)
    PROVE  Obj(p) \in Object /\ Cur(p).version \in Version
<1>1. cur[p] \in 1..Len(req[p].docs) /\ Cur(p).kind \in Kind
  BY DEF TypeInv, Placed, Accepted
<1> QED
  BY <1>1, TargetIsObject, RequestParts DEF Obj, Cur

LEMMA OthersPlaced ==
    ASSUME NEW q \in Process, Placed(q), pc'[q] = pc[q], req'[q] = req[q],
           left'[q] = left[q], cur'[q] = cur[q], seen'[q] = seen[q]
    PROVE  Placed(q)'
  BY DEF Placed, Working, Cur

LEMMA BeginPlaced ==
    ASSUME TypeInv, NEW p \in Process, Begin(p)
    PROVE  TypeInv'
<1>1. PICK r \in offered[p] : req' = [req EXCEPT ![p] = r]
                              /\ left' = [left EXCEPT ![p] = 1..Len(r.docs)]
  BY DEF Begin
<1>2. r \in Offered /\ r \in AllRequests
  BY ConstantsAssumption DEF Offered, TypeInv, TypeOK
<1>3. Len(r.docs) \in Nat
  BY <1>2 DEF AllRequests
<1>4. TypeOK'
  BY <1>1, <1>2, <1>3 DEF TypeInv, TypeOK, Begin, Goto, Step, tree, containers
<1>5. Placed(p)'
  BY <1>1, <1>2 DEF TypeInv, TypeOK, Begin, Goto, Placed, Working
<1>6. \A q \in Process : q # p => Placed(q)'
  BY <1>1, OthersPlaced DEF TypeInv, TypeOK, Begin, Goto
<1> QED
  BY <1>4, <1>5, <1>6 DEF TypeInv

(* A command that ends leaves nothing behind in its process. *)
LEMMA EndPlaced ==
    ASSUME TypeInv, NEW p \in Process, NEW outcome \in Outcome, End(p, outcome),
           UNCHANGED <<manifest, containers>>, generated' \subseteq Object
    PROVE  TypeInv'
<1>1. TypeOK'
  BY DEF TypeInv, TypeOK, End, Goto, Forget, Keep, Nowhere, Outcome, containers
<1>2. Placed(p)'
  BY DEF TypeInv, TypeOK, End, Goto, Forget, Keep, Placed, Working, Outcome, Step
<1>3. \A q \in Process : q # p => Placed(q)'
  BY OthersPlaced DEF TypeInv, TypeOK, End, Goto, Forget, Keep
<1> QED
  BY <1>1, <1>2, <1>3 DEF TypeInv

LEMMA NextDocumentPlaced ==
    ASSUME TypeInv, NEW p \in Process, NextDocument(p)
    PROVE  TypeInv'
<1>1. CASE End(p, "ok") /\ UNCHANGED tree
  BY <1>1, EndPlaced DEF tree, Outcome, TypeInv, TypeOK
<1>2. CASE End(p, "refused") /\ UNCHANGED tree
  BY <1>2, EndPlaced DEF tree, Outcome, TypeInv, TypeOK
<1>3. ASSUME NEW i \in left[p],
             Accepted(req[p], req[p].docs[i]),
             cur' = [cur EXCEPT ![p] = i], left' = [left EXCEPT ![p] = @ \ {i}],
             Goto(p, FirstStep[req[p].verb]),
             UNCHANGED <<tree, keys, seen, toread, shown, witnessed>>, Keep, At(p, "next")
      PROVE  TypeInv'
  <2>1. FirstStep[req[p].verb] \in Step
    BY RequestParts DEF Verb, FirstStep, Step
  <2>2. TypeOK'
    BY <1>3, <2>1 DEF TypeInv, TypeOK, Goto, Keep, tree, containers
  <2>3. req[p].verb \in VerbsAt(FirstStep[req[p].verb])
    BY RequestParts DEF Verb, FirstStep, VerbsAt
  <2>4. Placed(p)'
    <3>1. /\ pc'[p] = FirstStep[req[p].verb] /\ req' = req /\ cur'[p] = i
          /\ left'[p] = left[p] \ {i} /\ i \in 1..Len(req[p].docs)
      BY <1>3 DEF TypeInv, TypeOK, Goto, Keep
    <3>2. FirstStep[req[p].verb] \notin {"write", "confirm", "stop", "list", "rm", "save", "edit"}
      BY RequestParts DEF Verb, FirstStep
    <3>3. FirstStep[req[p].verb] \in {"exists", "write"} => req[p].verb # "edit"
      BY RequestParts DEF Verb, FirstStep
    <3> QED
      BY <1>3, <2>3, <3>1, <3>2, <3>3 DEF Placed, TypeInv, Cur, Working
  <2>5. \A q \in Process : q # p => Placed(q)'
    BY <1>3, OthersPlaced DEF TypeInv, TypeOK, Goto, Keep
  <2> QED
    BY <2>2, <2>4, <2>5 DEF TypeInv
<1> QED
  BY <1>1, <1>2, <1>3 DEF NextDocument

(* A step after which a command goes on with the same document. *)
SeenAt(p, step) ==
    step \in {"edit", "save"} \/ (step \in {"exists", "write"} /\ req[p].verb = "edit") =>
        seen'[p] # None
InEarnestAt(p, step) ==
    step \in {"write", "confirm", "stop", "list", "rm", "save"} => ~req[p].dry

LEMMA AdvancePlaced ==
    ASSUME TypeInv, NEW p \in Process, Working(p), NEW step \in Step,
           pc' = [pc EXCEPT ![p] = step], UNCHANGED <<left, cur, req>>, TypeOK',
           \A q \in Process \ {p} : seen'[q] = seen[q],
           step # "next" => req[p].verb \in VerbsAt(step),
           SeenAt(p, step), InEarnestAt(p, step)
    PROVE  TypeInv'
<1>1. \A q \in Process : q # p => Placed(q)'
  BY OthersPlaced DEF TypeInv, TypeOK
<1>2. pc'[p] = step
  BY DEF TypeInv, TypeOK
<1>3. Placed(p)
  BY DEF TypeInv
<1>4. Placed(p)'
  BY <1>2, <1>3 DEF Placed, Working, Cur, SeenAt, InEarnestAt
<1> QED
  BY <1>1, <1>4 DEF TypeInv

(* The same when only the step changes. *)
LEMMA PlainPlaced ==
    ASSUME TypeInv, NEW p \in Process, Working(p), NEW step \in Step,
           Goto(p, step), UNCHANGED <<tree, work, witnessed>>, Keep,
           step # "next" => req[p].verb \in VerbsAt(step),
           SeenAt(p, step), InEarnestAt(p, step)
    PROVE  TypeInv'
<1>1. TypeOK'
  BY DEF TypeInv, TypeOK, Goto, Keep, tree, work, containers
<1> QED
  BY <1>1, AdvancePlaced DEF Goto, Keep, work

LEMMA RefusedPlaced ==
    ASSUME TypeInv, NEW p \in Process, NEW outcome \in Outcome, End(p, outcome), UNCHANGED tree
    PROVE  TypeInv'
  BY EndPlaced DEF tree, TypeInv, TypeOK

(* What is known of a command at its step. *)
LEMMA AtStep ==
    ASSUME TypeInv, NEW p \in Process, Working(p)
    PROVE  /\ req[p].verb \in VerbsAt(pc[p])
           /\ pc[p] \in {"edit", "save"} \/ (pc[p] \in {"exists", "write"} /\ req[p].verb = "edit")
                => seen[p] # None
           /\ pc[p] \in {"write", "confirm", "stop", "list", "rm", "save"} => ~req[p].dry
           /\ Obj(p) \in Object /\ Cur(p).version \in Version
           /\ seen[p] \in Value \union {None}
  BY ObjectOfStep DEF TypeInv, Placed, TypeOK

LEMMA ApplyExistsPlaced ==
    ASSUME TypeInv, NEW p \in Process, ApplyExists(p)
    PROVE  TypeInv'
<1>1. Working(p) /\ At(p, "exists") /\ Puts(p)
  BY DEF ApplyExists, At, Working, Step
<1>2. CASE End(p, "refused") /\ UNCHANGED tree
  BY <1>2, RefusedPlaced DEF Outcome
<1>3. CASE /\ IF req[p].dry THEN NextDoc(p) ELSE Goto(p, "write")
           /\ UNCHANGED <<tree, work, witnessed>> /\ Keep
  BY <1>1, <1>3, AtStep, PlainPlaced
     DEF NextDoc, Puts, VerbsAt, SeenAt, InEarnestAt, Step, At, work
<1> QED
  BY <1>2, <1>3 DEF ApplyExists

LEMMA WantedIsValue ==
    ASSUME TypeInv, NEW p \in Process, At(p, "write")
    PROVE  Wanted(p) \in Value
<1>1. Working(p)
  BY DEF At, Working, Step
<1>2. CASE req[p].verb = "edit"
  BY <1>1, <1>2, AtStep DEF Wanted, Value, At
<1>3. CASE req[p].verb # "edit"
  BY <1>1, <1>3, AtStep DEF Wanted, Value, Plain
<1> QED
  BY <1>2, <1>3

LEMMA WatchType ==
    ASSUME TypeInv, Watch, manifest' \in [Object -> Value \union {None}]
    PROVE  witnessed' \in [Process -> [Object -> SUBSET (Value \union {None})]]
  BY DEF TypeInv, TypeOK, Watch

LEMMA WriteManifestPlaced ==
    ASSUME TypeInv, NEW p \in Process, WriteManifest(p)
    PROVE  TypeInv'
<1>1. Working(p) /\ At(p, "write")
  BY DEF WriteManifest, At, Working, Step
<1>2. manifest' \in [Object -> Value \union {None}]
  BY <1>1, WantedIsValue, AtStep DEF WriteManifest, TypeInv, TypeOK
<1>3. PICK step \in {"start", "next"} : Goto(p, step) /\ (step = "start" <=> Obj(p).kind = "app")
  BY DEF WriteManifest, NextDoc
<1>4. TypeOK'
  BY <1>2, <1>3, WatchType DEF WriteManifest, TypeInv, TypeOK, Goto, Keep, work, Step, containers
<1>5. step = "start" => req[p].verb \in VerbsAt("start")
  <2>1. ASSUME req[p].verb = "create" PROVE Obj(p).kind = "namespace"
    <3>1. Accepted(req[p], Cur(p))
      BY <1>1 DEF TypeInv, Placed
    <3> QED
      BY <2>1, <3>1 DEF Accepted, Supports, Obj, Target, Place
  <2> QED
    BY <1>1, <1>3, <2>1, AtStep DEF VerbsAt, At
<1> QED
  BY <1>1, <1>3, <1>4, <1>5, AdvancePlaced
     DEF WriteManifest, Goto, Keep, work, SeenAt, InEarnestAt, Step

LEMMA StartAppPlaced ==
    ASSUME TypeInv, NEW p \in Process, StartApp(p)
    PROVE  TypeInv'
<1>1. Working(p) /\ At(p, "start")
  BY DEF StartApp, At, Working, Step
<1>2. CASE End(p, "refused") /\ UNCHANGED tree
  BY <1>2, RefusedPlaced DEF Outcome
<1>3. generated \union {Obj(p)} \subseteq Object
  BY <1>1, AtStep DEF TypeInv, TypeOK
<1>4. CASE /\ generated' = generated \union {Obj(p)}
           /\ IF req[p].dry THEN UNCHANGED containers
              ELSE running' = running \union {Obj(p)} /\ overlooked' = overlooked \ {Obj(p)}
           /\ NextDoc(p) /\ UNCHANGED <<manifest, work, witnessed>> /\ Keep
  <2>1. running' \subseteq Object /\ overlooked' \subseteq Object
    BY <1>1, <1>4, AtStep DEF TypeInv, TypeOK, containers
  <2>2. TypeOK'
    BY <1>3, <1>4, <2>1 DEF TypeInv, TypeOK, NextDoc, Goto, Keep, work, Step
  <2> QED
    BY <1>1, <1>4, <2>2, AdvancePlaced DEF NextDoc, Goto, Keep, work, SeenAt, InEarnestAt, Step
<1>5. CASE /\ generated' = generated \union {Obj(p)}
           /\ End(p, "broken") /\ UNCHANGED <<manifest, containers>>
  BY <1>3, <1>5, EndPlaced DEF Outcome
<1> QED
  BY <1>2, <1>4, <1>5 DEF StartApp

LEMMA DeleteStepsPlaced ==
    ASSUME TypeInv, NEW p \in Process, DeleteExists(p) \/ Confirm(p) \/ RemoveDone(p)
    PROVE  TypeInv'
<1>1. Working(p)
  BY DEF DeleteExists, Confirm, RemoveDone, At, Working, Step
<1>2. CASE End(p, "refused") /\ UNCHANGED tree
  BY <1>2, RefusedPlaced DEF Outcome
<1>3. CASE /\ DeleteExists(p)
           /\ IF req[p].dry THEN NextDoc(p) ELSE Goto(p, "confirm")
           /\ UNCHANGED <<tree, work, witnessed>> /\ Keep
  BY <1>1, <1>3, PlainPlaced
     DEF DeleteExists, NextDoc, VerbsAt, SeenAt, InEarnestAt, Step, work
<1>4. CASE /\ Confirm(p)
           /\ Goto(p, IF Obj(p).kind = "app" THEN "stop" ELSE "list")
           /\ UNCHANGED <<tree, work, witnessed>> /\ Keep
  BY <1>1, <1>4, AtStep, PlainPlaced DEF Confirm, At, VerbsAt, SeenAt, InEarnestAt, Step, work
<1>5. CASE RemoveDone(p)
  BY <1>1, <1>5, PlainPlaced DEF RemoveDone, NextDoc, SeenAt, InEarnestAt, Step, work
<1> QED
  BY <1>2, <1>3, <1>4, <1>5 DEF DeleteExists, Confirm

LEMMA StopAppPlaced ==
    ASSUME TypeInv, NEW p \in Process, StopApp(p)
    PROVE  TypeInv'
<1>1. Working(p) /\ At(p, "stop")
  BY DEF StopApp, At, Working, Step
<1>2. CASE End(p, "refused") /\ UNCHANGED tree
  BY <1>2, RefusedPlaced DEF Outcome
<1>3. CASE /\ \/ running' = running \ {Obj(p)} /\ overlooked' = overlooked \ {Obj(p)}
              \/ overlooked' = overlooked \union ({Obj(p)} \intersect running) /\ running' = running
           /\ Goto(p, "list") /\ UNCHANGED <<manifest, generated, work, witnessed>> /\ Keep
  <2>1. running' \subseteq Object /\ overlooked' \subseteq Object
    BY <1>3 DEF TypeInv, TypeOK
  <2>2. TypeOK'
    BY <1>3, <2>1 DEF TypeInv, TypeOK, Goto, Keep, work, Step
  <2> QED
    BY <1>1, <1>3, <2>2, AtStep, AdvancePlaced
       DEF Goto, Keep, work, SeenAt, InEarnestAt, VerbsAt, Step, At
<1> QED
  BY <1>2, <1>3 DEF StopApp

LEMMA PresentAreFiles == Present \subseteq File
  BY DEF Present

LEMMA RemovalPlaced ==
    ASSUME TypeInv, NEW p \in Process, ListKeys(p) \/ RemoveFile(p) \/ SkipKey(p)
    PROVE  TypeInv'
<1>1. CASE ListKeys(p)
  <2>1. TypeOK'
    BY <1>1, PresentAreFiles DEF ListKeys, Under, TypeInv, TypeOK, Goto, Keep, tree, Step, containers
  <2> QED
    BY <1>1, <2>1, AtStep, AdvancePlaced
       DEF ListKeys, Goto, Keep, At, Working, SeenAt, InEarnestAt, VerbsAt, Step
<1>2. CASE RemoveFile(p)
  <2>1. PICK f \in Remaining(p) :
           /\ manifest' = IF f[1] = "manifest" THEN [manifest EXCEPT ![f[2]] = None] ELSE manifest
           /\ generated' = IF f[1] = "manifest" THEN generated ELSE generated \ {f[2]}
           /\ keys' = [keys EXCEPT ![p] = @ \ {f}]
    BY <1>2 DEF RemoveFile
  <2>2. manifest' \in [Object -> Value \union {None}]
    BY <2>1 DEF TypeInv, TypeOK
  <2>3. TypeOK'
    BY <1>2, <2>1, <2>2, WatchType DEF RemoveFile, TypeInv, TypeOK, Keep, containers
  <2>4. Working(p) /\ pc[p] = "rm" /\ pc' = [pc EXCEPT ![p] = "rm"]
    BY <1>2 DEF RemoveFile, At, Working, Step, TypeInv, TypeOK
  <2> QED
    BY <1>2, <2>3, <2>4, AtStep, AdvancePlaced DEF RemoveFile, Keep, SeenAt, InEarnestAt, Step
<1>3. CASE SkipKey(p)
  <2>1. TypeOK'
    BY <1>3 DEF SkipKey, TypeInv, TypeOK, tree, containers
  <2>2. Working(p) /\ pc[p] = "rm" /\ pc' = [pc EXCEPT ![p] = "rm"]
    BY <1>3 DEF SkipKey, At, Working, Step, TypeInv, TypeOK
  <2> QED
    BY <1>3, <2>1, <2>2, AtStep, AdvancePlaced DEF SkipKey, SeenAt, InEarnestAt, Step
<1> QED
  BY <1>1, <1>2, <1>3

LEMMA UpdatePlaced ==
    ASSUME TypeInv, NEW p \in Process,
           ReadLabels(p) \/ SaveLabels(p) \/ OpenEditor(p) \/ CloseEditor(p)
    PROVE  TypeInv'
<1>1. Working(p)
  BY DEF ReadLabels, SaveLabels, OpenEditor, CloseEditor, At, Working, Step
<1>2. CASE End(p, "refused") /\ UNCHANGED tree
  BY <1>2, RefusedPlaced DEF Outcome
<1>3. ASSUME pc[p] = "labels" \/ pc[p] = "open", NEW step \in {"save", "edit"},
             pc[p] = "labels" => step = "save" /\ ~req[p].dry, pc[p] = "open" => step = "edit",
             manifest[Obj(p)] # None,
             seen' = [seen EXCEPT ![p] = manifest[Obj(p)]], Goto(p, step),
             UNCHANGED <<tree, left, cur, keys, toread, shown, witnessed>>, Keep
      PROVE  TypeInv'
  <2>1. TypeOK' /\ seen'[p] # None
    BY <1>1, <1>3, AtStep DEF TypeInv, TypeOK, Goto, Keep, tree, Step, containers
  <2> QED
    BY <1>1, <1>3, <2>1, AtStep, AdvancePlaced
       DEF Goto, Keep, SeenAt, InEarnestAt, VerbsAt, Step, TypeInv, TypeOK
<1>4. CASE ReadLabels(p)
  <2>1. CASE NextDoc(p) /\ UNCHANGED <<tree, work, witnessed>> /\ Keep
    BY <1>1, <2>1, PlainPlaced DEF NextDoc, SeenAt, InEarnestAt, Step, work
  <2> QED
    BY <1>2, <1>3, <1>4, <2>1 DEF ReadLabels, Unlabelled, At
<1>5. CASE SaveLabels(p)
  <2>1. [seen[p] EXCEPT !.label = TRUE] \in Value
    BY <1>1, <1>5, AtStep DEF SaveLabels, At, Value
  <2>2. manifest' \in [Object -> Value \union {None}]
    BY <1>5, <2>1 DEF SaveLabels, TypeInv, TypeOK
  <2>3. TypeOK'
    BY <1>5, <2>2, WatchType DEF SaveLabels, TypeInv, TypeOK, NextDoc, Goto, Keep, work, Step, containers
  <2> QED
    BY <1>1, <1>5, <2>3, AdvancePlaced
       DEF SaveLabels, NextDoc, Goto, Keep, work, SeenAt, InEarnestAt, Step
<1>6. CASE OpenEditor(p)
  BY <1>2, <1>3, <1>6 DEF OpenEditor, At
<1>7. CASE CloseEditor(p)
  BY <1>1, <1>2, <1>7, AtStep, PlainPlaced
     DEF CloseEditor, NextDoc, At, VerbsAt, SeenAt, InEarnestAt, Step, work
<1> QED
  BY <1>4, <1>5, <1>6, <1>7

LEMMA ExportPlaced ==
    ASSUME TypeInv, NEW p \in Process,
           ListNamespaces(p) \/ ListOne(p) \/ ReadOne(p) \/ ListedAll(p)
    PROVE  TypeInv'
<1>1. Working(p)
  BY DEF ListNamespaces, ListOne, ReadOne, ListedAll, At, Working, Step
<1>2. CASE ListNamespaces(p)
  <2>1. TypeOK'
    BY <1>2 DEF ListNamespaces, TypeInv, TypeOK, Goto, Keep, tree, Step, containers
  <2> QED
    BY <1>1, <1>2, <2>1, AtStep, AdvancePlaced
       DEF ListNamespaces, Goto, Keep, At, SeenAt, InEarnestAt, VerbsAt, Step
<1>3. ASSUME TypeOK', pc[p] = "read", UNCHANGED <<pc, left, cur, seen>>, Keep PROVE TypeInv'
  <2>1. pc' = [pc EXCEPT ![p] = "read"]
    BY <1>3 DEF TypeInv, TypeOK
  <2> QED
    BY <1>1, <1>3, <2>1, AtStep, AdvancePlaced DEF Keep, SeenAt, InEarnestAt, VerbsAt, Step
<1>4. CASE ListOne(p)
  BY <1>3, <1>4 DEF ListOne, At, TypeInv, TypeOK, Keep, tree, containers
<1>5. CASE ReadOne(p)
  <2>1. PICK o \in Object :
           \/ manifest[o] = None /\ End(p, "refused") /\ UNCHANGED tree
           \/ /\ manifest[o] # None
              /\ shown' = [shown EXCEPT ![p][o] = manifest[o]]
              /\ toread' = [toread EXCEPT ![p] = @ \ {<<"read", o>>}]
              /\ UNCHANGED <<tree, pc, left, cur, keys, seen, witnessed>> /\ Keep
    BY <1>5 DEF ReadOne
  <2>2. CASE End(p, "refused") /\ UNCHANGED tree
    BY <2>2, RefusedPlaced DEF Outcome
  <2>3. CASE /\ shown' = [shown EXCEPT ![p][o] = manifest[o]]
             /\ toread' = [toread EXCEPT ![p] = @ \ {<<"read", o>>}]
             /\ UNCHANGED <<tree, pc, left, cur, keys, seen, witnessed>> /\ Keep
    BY <1>3, <1>5, <2>3 DEF ReadOne, At, TypeInv, TypeOK, Keep, tree, containers
  <2> QED
    BY <2>1, <2>2, <2>3
<1>6. CASE ListedAll(p)
  BY <1>1, <1>6, PlainPlaced DEF ListedAll, NextDoc, SeenAt, InEarnestAt, Step, work
<1> QED
  BY <1>2, <1>4, <1>5, <1>6

LEMMA InitTypeInv == Init => TypeInv
<1> SUFFICES ASSUME Init PROVE TypeInv
  OBVIOUS
<1>1. Nothing \in AllRequests /\ Len(Nothing.docs) = 0
  BY ConstantsAssumption DEF Nothing, AllRequests, Verb
<1>2. TypeOK
  BY <1>1 DEF Init, TypeOK, Nowhere, Outcome
<1>3. \A p \in Process : Placed(p)
  BY DEF Init, Placed, Working, Step
<1> QED
  BY <1>2, <1>3 DEF TypeInv

LEMMA NextTypeInv == TypeInv /\ [Next]_vars => TypeInv'
<1> SUFFICES ASSUME TypeInv, [Next]_vars PROVE TypeInv'
  OBVIOUS
<1>1. CASE UNCHANGED vars
  <2>1. TypeOK'
    BY <1>1 DEF TypeInv, TypeOK, vars
  <2>2. \A p \in Process : Placed(p)'
    BY <1>1, OthersPlaced DEF TypeInv, vars
  <2> QED
    BY <2>1, <2>2 DEF TypeInv
<1>2. ASSUME NEW p \in Process, Begin(p) PROVE TypeInv'
  BY <1>2, BeginPlaced
<1>3. ASSUME NEW p \in Process, Break(p) PROVE TypeInv'
  BY <1>3, RefusedPlaced DEF Break, Outcome
<1>4. ASSUME NEW p \in Process, Change(p) PROVE TypeInv'
  BY <1>4, NextDocumentPlaced, ApplyExistsPlaced, WriteManifestPlaced, StartAppPlaced,
     DeleteStepsPlaced, StopAppPlaced, RemovalPlaced, UpdatePlaced, ExportPlaced DEF Change
<1> QED
  BY <1>1, <1>2, <1>3, <1>4 DEF Next

(* Every variable keeps its type, in every instance of the module. *)
THEOREM TypeCorrect == Spec => []TypeOK
<1>1. TypeInv => TypeOK
  BY DEF TypeInv
<1> QED
  BY <1>1, InitTypeInv, NextTypeInv, PTL DEF Spec

-----------------------------------------------------------------------------
(* The history: what was witnessed stays witnessed, what is done stays done. *)

LEMMA CoversObjects ==
    ASSUME TypeInv, NEW p \in Process, NEW i \in 1..Len(req[p].docs), HasOp(p, i)
    PROVE  Target(req[p], req[p].docs[i]) \in Object /\ Covers(OpOf(p, i)) \subseteq Object
<1>1. Target(req[p], req[p].docs[i]) \in Object
  BY TargetIsObject DEF HasOp
<1> QED
  BY <1>1 DEF Covers, OpOf, Inside

(* Nothing is forgotten while a command is busy. *)
Grows(q) == \A o \in Object : witnessed[q][o] \subseteq witnessed'[q][o]
                              /\ manifest'[o] \in witnessed'[q][o]

LEMMA DoneStays ==
    ASSUME TypeInv, NEW p \in Process, NEW i \in 1..Len(req[p].docs), HasOp(p, i), DoneOp(p, i),
           Grows(p), req'[p] = req[p]
    PROVE  DoneOp(p, i)'
<1>1. Covers(OpOf(p, i)) \subseteq Object
  BY CoversObjects
<1>2. OpOf(p, i)' = OpOf(p, i)
  BY DEF OpOf
<1> QED
  BY <1>1, <1>2 DEF DoneOp, Store!Done, Grows, Covers, Result

LEMMA WatchGrows ==
    ASSUME TypeInv, NEW q \in Process, Busy(q), Seeing(q),
           Watch \/ UNCHANGED <<manifest, witnessed>>
    PROVE  Grows(q)
  BY DEF Grows, Seeing, Watch, TypeInv, TypeOK

(* A step of another process, or one that keeps the step and the document. *)
LEMMA OthersWitnessed ==
    ASSUME TypeInv, NEW q \in Process, Witnessed(q), Busy(q) => Grows(q),
           pc'[q] = pc[q], req'[q] = req[q], left'[q] = left[q], cur'[q] = cur[q],
           seen'[q] = seen[q], keys'[q] = keys[q], skipped'[q] = skipped[q], backend' = backend
    PROVE  Witnessed(q)'
<1> SUFFICES ASSUME Busy(q) PROVE (Seeing(q) /\ Removing(q) /\ Doneness(q))'
  BY DEF Witnessed, Busy
<1>1. Seeing(q) /\ Removing(q) /\ Doneness(q) /\ Grows(q)
  BY DEF Witnessed
<1>2. Obj(q)' = Obj(q)
  BY DEF Obj, Cur
<1>3. UsesSeen(q) \/ At(q, "rm") => Obj(q) \in Object
  BY ObjectOfStep DEF UsesSeen, At, Working, Step
<1>4. Seeing(q)'
  BY <1>1, <1>2, <1>3 DEF Seeing, UsesSeen, Grows
<1>5. Removing(q)'
  BY <1>1, <1>2, <1>3 DEF Removing, At, Grows, Inside
<1>6. Doneness(q)'
  BY <1>1, DoneStays DEF Doneness, HasOp, Handled, At
<1> QED
  BY <1>4, <1>5, <1>6

(* A step of a command after which it is busy still. *)
LEMMA GoesOnWitnessed ==
    ASSUME TypeInv, NEW p \in Process, Busy(p), Witnessed(p),
           Watch \/ UNCHANGED <<manifest, witnessed>>,
           req'[p] = req[p], left'[p] = left[p], cur'[p] = cur[p],
           UsesSeen(p)' => seen'[p] \in witnessed'[p][Obj(p)], Removing(p)',
           ~skipped'[p] => ~skipped[p],
           ~skipped[p] /\ HasOp(p, cur[p]) /\ Handled(p, cur[p])' =>
             Handled(p, cur[p]) \/ DoneOp(p, cur[p])'
    PROVE  Witnessed(p)'
<1>1. Seeing(p) /\ Doneness(p) /\ Grows(p)
  BY WatchGrows DEF Witnessed
<1>2. Seeing(p)'
  BY <1>1 DEF Seeing, Grows, Obj, Cur
<1>3. ASSUME NEW i \in 1..Len(req[p].docs), HasOp(p, i), Handled(p, i)', ~skipped'[p]
      PROVE  DoneOp(p, i)'
  <2>1. CASE Handled(p, i)
    BY <1>1, <1>3, <2>1, DoneStays DEF Doneness
  <2>2. CASE ~Handled(p, i)
    <3>1. i = cur[p]
      BY <1>3, <2>2 DEF Handled
    <3> QED
      BY <1>3, <2>2, <3>1
  <2> QED
    BY <2>1, <2>2
<1>4. Doneness(p)'
  BY <1>3 DEF Doneness, HasOp
<1> QED
  BY <1>2, <1>4 DEF Witnessed

LEMMA BeginWitnessed ==
    ASSUME TypeInv, WitnessInv, NEW p \in Process, Begin(p)
    PROVE  WitnessInv'
<1>1. PICK r \in offered[p] : req' = [req EXCEPT ![p] = r]
                              /\ left' = [left EXCEPT ![p] = 1..Len(r.docs)]
  BY DEF Begin
<1>2. /\ pc'[p] = "next" /\ left'[p] = 1..Len(req'[p].docs)
      /\ \A o \in Object : witnessed'[p][o] = {manifest'[o]}
  BY <1>1 DEF Begin, Goto, tree, TypeInv, TypeOK
<1>3. Witnessed(p)'
  BY <1>2 DEF Witnessed, Seeing, Removing, Doneness, Handled, UsesSeen, At
<1>4. ASSUME NEW q \in Process, q # p PROVE Witnessed(q)'
  <2>1. Busy(q) => Grows(q)
    BY <1>4 DEF Begin, tree, TypeInv, TypeOK, Grows, WitnessInv, Witnessed, Seeing
  <2> QED
    BY <1>1, <1>4, <2>1, OthersWitnessed DEF Begin, Goto, TypeInv, TypeOK, WitnessInv
<1> QED
  BY <1>3, <1>4 DEF WitnessInv

LEMMA EndWitnessed ==
    ASSUME TypeInv, WitnessInv, NEW p \in Process, NEW outcome \in Outcome, End(p, outcome),
           UNCHANGED manifest
    PROVE  WitnessInv'
<1>1. Witnessed(p)'
  BY DEF End, Goto, Outcome, Step, Witnessed, Busy, TypeInv, TypeOK
<1>2. ASSUME NEW q \in Process, q # p PROVE Witnessed(q)'
  <2>1. Busy(q) => Grows(q)
    BY <1>2 DEF End, TypeInv, TypeOK, Grows, WitnessInv, Witnessed, Seeing
  <2> QED
    BY <1>2, <2>1, OthersWitnessed DEF End, Goto, Forget, Keep, TypeInv, TypeOK, WitnessInv
<1> QED
  BY <1>1, <1>2 DEF WitnessInv

LEMMA NextDocumentWitnessed ==
    ASSUME TypeInv, WitnessInv, NEW p \in Process, NextDocument(p)
    PROVE  WitnessInv'
<1>1. CASE \E outcome \in Outcome : End(p, outcome) /\ UNCHANGED tree
  BY <1>1, EndWitnessed DEF tree
<1>2. ASSUME NEW i \in left[p], At(p, "next"),
             cur' = [cur EXCEPT ![p] = i], left' = [left EXCEPT ![p] = @ \ {i}],
             Goto(p, FirstStep[req[p].verb]),
             UNCHANGED <<tree, keys, seen, toread, shown, witnessed>>, Keep
      PROVE  WitnessInv'
  <2>1. Busy(p) /\ Seeing(p) /\ Doneness(p)
    BY <1>2 DEF WitnessInv, Witnessed, Busy, At, Step
  <2>2. /\ pc'[p] = FirstStep[req[p].verb] /\ req' = req /\ cur'[p] = i
        /\ left'[p] = left[p] \ {i} /\ manifest' = manifest /\ witnessed' = witnessed
    BY <1>2 DEF TypeInv, TypeOK, Goto, Keep, tree
  <2>3. ~UsesSeen(p)' /\ pc'[p] # "rm" /\ pc'[p] # "next"
        /\ (pc'[p] = "start" => req[p].verb = "start")
    BY <2>2, RequestParts DEF UsesSeen, FirstStep, Verb
  <2>4. Seeing(p)' /\ Removing(p)'
    BY <2>1, <2>2, <2>3 DEF Seeing, Removing, At
  <2>5. Doneness(p)'
    <3>1. ASSUME NEW j \in 1..Len(req[p].docs), HasOp(p, j), Handled(p, j)', ~skipped[p]
          PROVE  DoneOp(p, j)'
      <4>1. j \notin left[p]
        BY <2>2, <2>3, <3>1 DEF Handled, HasOp, At, Doing
      <4>2. DoneOp(p, j)
        BY <1>2, <2>1, <3>1, <4>1 DEF Doneness, Handled
      <4>3. Grows(p)
        BY <2>1, <2>2 DEF Grows, Seeing
      <4> QED
        BY <2>2, <3>1, <4>2, <4>3, DoneStays
    <3> QED
      BY <1>2, <2>2, <3>1 DEF Doneness, HasOp, Keep
  <2>6. ASSUME NEW q \in Process, q # p PROVE Witnessed(q)'
    <3>1. Busy(q) => Grows(q)
      BY <2>2 DEF Grows, WitnessInv, Witnessed, Seeing
    <3> QED
      BY <1>2, <2>6, <3>1, OthersWitnessed DEF Goto, Keep, TypeInv, TypeOK, WitnessInv
  <2> QED
    BY <2>4, <2>5, <2>6 DEF WitnessInv, Witnessed
<1> QED
  BY <1>1, <1>2 DEF NextDocument, Outcome

(* What a step that neither begins, ends nor turns to a document leaves alone. *)
Within(p) ==
    /\ Watch \/ UNCHANGED <<manifest, witnessed>>
    /\ UNCHANGED <<req, left, cur, backend>>
    /\ \A q \in Process \ {p} : pc'[q] = pc[q] /\ seen'[q] = seen[q] /\ keys'[q] = keys[q]
                                /\ skipped'[q] = skipped[q]
    /\ skipped[p] => skipped'[p]

LEMMA WithinWitnessed ==
    ASSUME TypeInv, WitnessInv, NEW p \in Process, Busy(p), Within(p),
           UsesSeen(p)' => seen'[p] \in witnessed'[p][Obj(p)], Removing(p)',
           ~skipped[p] /\ HasOp(p, cur[p]) /\ Handled(p, cur[p])' =>
             Handled(p, cur[p]) \/ DoneOp(p, cur[p])'
    PROVE  WitnessInv'
<1>1. Witnessed(p)'
  BY GoesOnWitnessed DEF Within, WitnessInv
<1>2. ASSUME NEW q \in Process, q # p PROVE Witnessed(q)'
  <2>1. Busy(q) => Grows(q)
    BY WatchGrows DEF Within, WitnessInv, Witnessed
  <2> QED
    BY <1>2, <2>1, OthersWitnessed DEF Within, WitnessInv
<1> QED
  BY <1>1, <1>2 DEF WitnessInv

LEMMA OperationOfStep ==
    ASSUME TypeInv, NEW p \in Process, Working(p), HasOp(p, cur[p])
    PROVE  OpOf(p, cur[p]) = [do |-> Doing[req[p].verb], obj |-> Obj(p), version |-> Cur(p).version]
  BY DEF OpOf, Obj, Cur

LEMMA SeenWasWitnessed ==
    ASSUME TypeInv, WitnessInv, NEW p \in Process, UsesSeen(p)
    PROVE  /\ Working(p) /\ seen[p] \in witnessed[p][Obj(p)] /\ seen[p] # None
           /\ seen[p] \in Value
<1>1. Working(p) /\ Busy(p)
  BY DEF UsesSeen, Working, Busy, Step
<1>2. seen[p] # None
  BY DEF UsesSeen, TypeInv, Placed
<1> QED
  BY <1>1, <1>2, AtStep DEF WitnessInv, Witnessed, Seeing

LEMMA ApplyExistsWitnessed ==
    ASSUME TypeInv, WitnessInv, NEW p \in Process, ApplyExists(p)
    PROVE  WitnessInv'
<1>1. Busy(p) /\ At(p, "exists") /\ Puts(p)
  BY DEF ApplyExists, Busy, At, Step
<1>2. CASE End(p, "refused") /\ UNCHANGED tree
  BY <1>2, EndWitnessed DEF Outcome, tree
<1>3. CASE /\ IF req[p].dry THEN NextDoc(p) ELSE Goto(p, "write")
           /\ UNCHANGED <<tree, work, witnessed>> /\ Keep
  <2>1. pc'[p] = IF req[p].dry THEN "next" ELSE "write"
    BY <1>3 DEF NextDoc, Goto, TypeInv, TypeOK
  <2>2. Within(p)
    BY <1>3 DEF Within, Keep, tree, work, NextDoc, Goto, TypeInv, TypeOK
  <2>3. UsesSeen(p)' => seen'[p] \in witnessed'[p][Obj(p)]
    <3>1. UsesSeen(p)' => UsesSeen(p)
      BY <1>1, <1>3, <2>1 DEF UsesSeen, At, Keep
    <3> QED
      BY <1>3, <3>1, SeenWasWitnessed DEF work
  <2>4. Removing(p)' /\ ~(HasOp(p, cur[p]) /\ Handled(p, cur[p])')
    BY <1>1, <1>3, <2>1 DEF Removing, At, HasOp, Handled
  <2> QED
    BY <1>1, <2>2, <2>3, <2>4, WithinWitnessed
<1> QED
  BY <1>2, <1>3 DEF ApplyExists

LEMMA WriteManifestWitnessed ==
    ASSUME TypeInv, WitnessInv, NEW p \in Process, WriteManifest(p)
    PROVE  WitnessInv'
<1>1. Working(p) /\ Busy(p) /\ At(p, "write")
  BY DEF WriteManifest, Working, Busy, At, Step
<1>2. pc'[p] \in {"start", "next"} /\ req' = req /\ cur' = cur
  BY DEF WriteManifest, NextDoc, Goto, Keep, work, TypeInv, TypeOK
<1>3. Within(p)
  BY DEF WriteManifest, Within, NextDoc, Goto, Keep, work, TypeInv, TypeOK
<1>4. ~UsesSeen(p)' /\ Removing(p)'
  BY <1>2 DEF UsesSeen, Removing, At
<1>5. ASSUME HasOp(p, cur[p]) PROVE DoneOp(p, cur[p])'
  <2> DEFINE op == OpOf(p, cur[p])
  <2>1. /\ op = [do |-> Doing[req[p].verb], obj |-> Obj(p), version |-> Cur(p).version]
        /\ Obj(p) \in Object /\ req[p].verb \in {"apply", "create", "edit"}
    BY <1>1, <1>5, OperationOfStep, AtStep DEF VerbsAt, At
  <2>2. OpOf(p, cur[p])' = op
    BY <1>2 DEF OpOf
  <2>3. manifest'[Obj(p)] = Wanted(p) /\ Wanted(p) \in witnessed'[p][Obj(p)]
        /\ manifest[Obj(p)] \in witnessed'[p][Obj(p)]
        /\ witnessed[p][Obj(p)] \subseteq witnessed'[p][Obj(p)]
    BY <1>1, <2>1 DEF WriteManifest, Watch, TypeInv, TypeOK, WitnessInv, Witnessed, Seeing
  <2>4. Covers(op) = {Obj(p)}
    BY <2>1 DEF Covers, Doing
  <2>5. \E old \in witnessed'[p][Obj(p)] : Wanted(p) \in Result(op, Obj(p), old)
    <3>1. CASE req[p].verb = "edit"
      <4>1. UsesSeen(p)
        BY <1>1, <3>1 DEF UsesSeen, At
      <4>2. Wanted(p) \in Result(op, Obj(p), seen[p])
        BY <2>1, <3>1, <4>1, SeenWasWitnessed DEF Wanted, Result, Doing
      <4> QED
        BY <2>3, <4>1, <4>2, SeenWasWitnessed
    <3>2. CASE req[p].verb # "edit"
      <4>1. Wanted(p) \in Result(op, Obj(p), manifest[Obj(p)])
        BY <2>1, <3>2 DEF Wanted, Result, Doing
      <4> QED
        BY <2>3, <4>1
    <3> QED
      BY <3>1, <3>2
  <2> QED
    BY <2>2, <2>3, <2>4, <2>5 DEF DoneOp, Store!Done
<1> QED
  BY <1>1, <1>3, <1>4, <1>5, WithinWitnessed

LEMMA StartAppWitnessed ==
    ASSUME TypeInv, WitnessInv, NEW p \in Process, StartApp(p)
    PROVE  WitnessInv'
<1>1. Busy(p) /\ At(p, "start")
  BY DEF StartApp, Busy, At, Step
<1>2. CASE \E outcome \in Outcome : End(p, outcome) /\ UNCHANGED manifest
  BY <1>2, EndWitnessed
<1>3. CASE NextDoc(p) /\ UNCHANGED <<manifest, work, witnessed>> /\ Keep
  <2>1. pc'[p] = "next" /\ Within(p)
    BY <1>3 DEF Within, Keep, work, NextDoc, Goto, TypeInv, TypeOK
  <2>2. ~UsesSeen(p)' /\ Removing(p)' /\ Handled(p, cur[p])
    BY <1>1, <2>1 DEF UsesSeen, Removing, At, Handled
  <2> QED
    BY <1>1, <2>1, <2>2, WithinWitnessed
<1> QED
  BY <1>2, <1>3 DEF StartApp, Outcome, tree

(* Steps of a delete before the first file goes. *)
LEMMA DeleteStepsWitnessed ==
    ASSUME TypeInv, WitnessInv, NEW p \in Process, DeleteExists(p) \/ Confirm(p) \/ StopApp(p)
    PROVE  WitnessInv'
<1>1. Busy(p)
  BY DEF DeleteExists, Confirm, StopApp, Busy, At, Step
<1>2. CASE End(p, "refused") /\ UNCHANGED tree
  BY <1>2, EndWitnessed DEF Outcome, tree
<1>3. ASSUME NEW step \in {"next", "confirm", "stop", "list"}, step = "next" => req[p].dry,
             Goto(p, step), UNCHANGED <<manifest, work, witnessed>>, Keep
      PROVE  WitnessInv'
  <2>1. pc'[p] = step /\ Within(p) /\ req' = req
    BY <1>3 DEF Within, Keep, work, Goto, TypeInv, TypeOK
  <2>2. ~UsesSeen(p)' /\ Removing(p)' /\ ~(HasOp(p, cur[p]) /\ Handled(p, cur[p])')
    BY <1>3, <2>1 DEF UsesSeen, Removing, At, HasOp, Handled, work
  <2> QED
    BY <1>1, <2>1, <2>2, WithinWitnessed
<1>4. CASE DeleteExists(p)
  BY <1>2, <1>3, <1>4 DEF DeleteExists, NextDoc, tree
<1>5. CASE Confirm(p)
  BY <1>2, <1>3, <1>5 DEF Confirm, tree
<1>6. CASE StopApp(p)
  BY <1>2, <1>3, <1>6 DEF StopApp
<1> QED
  BY <1>4, <1>5, <1>6

LEMMA ListKeysWitnessed ==
    ASSUME TypeInv, WitnessInv, NEW p \in Process, ListKeys(p)
    PROVE  WitnessInv'
<1>1. Busy(p) /\ Working(p) /\ At(p, "list")
  BY DEF ListKeys, Busy, Working, At, Step
<1>2. /\ pc'[p] = "rm" /\ Within(p) /\ UNCHANGED <<manifest, witnessed, req, cur, backend>>
      /\ keys'[p] = IF backend = "s3" THEN Under(Obj(p)) ELSE {}
  BY DEF ListKeys, Within, Keep, tree, Goto, TypeInv, TypeOK
<1>3. Removing(p)'
  <2>1. Obj(p)' = Obj(p) /\ Inside(Obj(p))' = Inside(Obj(p)) /\ Inside(Obj(p)) \subseteq Object
    BY <1>1, <1>2, AtStep DEF Obj, Cur, Inside
  <2>2. \A f \in keys'[p] : f[2] \in Inside(Obj(p))
    BY <1>2 DEF Under
  <2>3. ASSUME NEW o \in Inside(Obj(p)), backend = "s3", None \notin witnessed[p][o]
        PROVE  <<"manifest", o>> \in keys'[p]
    <3>1. o \in Object /\ manifest[o] # None
      BY <1>1, <2>1, <2>3 DEF WitnessInv, Witnessed, Seeing
    <3> QED
      BY <1>2, <2>3, <3>1 DEF Under, Present, File
  <2> QED
    BY <1>2, <2>1, <2>2, <2>3 DEF Removing
<1>4. ~UsesSeen(p)' /\ ~Handled(p, cur[p])'
  BY <1>2 DEF UsesSeen, Handled, At
<1> QED
  BY <1>1, <1>2, <1>3, <1>4, WithinWitnessed

LEMMA RemoveFileWitnessed ==
    ASSUME TypeInv, WitnessInv, NEW p \in Process, RemoveFile(p)
    PROVE  WitnessInv'
<1>1. Busy(p) /\ Working(p) /\ At(p, "rm") /\ Removing(p) /\ Seeing(p)
  BY DEF RemoveFile, Busy, Working, At, Step, WitnessInv, Witnessed
<1>2. PICK f \in Remaining(p) :
         /\ manifest' = IF f[1] = "manifest" THEN [manifest EXCEPT ![f[2]] = None] ELSE manifest
         /\ keys' = [keys EXCEPT ![p] = @ \ {f}]
  BY DEF RemoveFile
<1>3. f \in File
  BY DEF Remaining, Under, Present, TypeInv, TypeOK
<1>4. pc' = pc /\ Within(p) /\ UNCHANGED <<req, cur, backend, skipped>> /\ Watch
      /\ keys'[p] = keys[p] \ {f}
  BY <1>2 DEF RemoveFile, Within, Keep, TypeInv, TypeOK
<1>5. Grows(p)
  BY <1>1, <1>4, WatchGrows
<1>6. Removing(p)'
  <2>1. Obj(p)' = Obj(p) /\ Inside(Obj(p))' = Inside(Obj(p)) /\ Inside(Obj(p)) \subseteq Object
    BY <1>1, <1>4, AtStep DEF Obj, Cur, Inside
  <2>2. ASSUME NEW o \in Inside(Obj(p)), backend = "s3", ~skipped[p], <<"manifest", o>> \notin keys'[p]
        PROVE  None \in witnessed'[p][o]
    <3>1. CASE None \in witnessed[p][o]
      BY <1>5, <2>1, <3>1 DEF Grows
    <3>2. CASE <<"manifest", o>> \in keys[p]
      <4>1. f = <<"manifest", o>>
        BY <1>4, <2>2, <3>2
      <4>2. manifest'[o] = None
        BY <1>2, <2>1, <4>1 DEF TypeInv, TypeOK
      <4> QED
        BY <1>5, <2>1, <4>2 DEF Grows
    <3> QED
      BY <1>1, <2>2, <3>1, <3>2 DEF Removing
  <2> QED
    BY <1>1, <1>4, <2>1, <2>2 DEF Removing
<1>7. ~UsesSeen(p)' /\ ~Handled(p, cur[p])'
  BY <1>1, <1>4 DEF UsesSeen, Handled, At
<1> QED
  BY <1>1, <1>4, <1>6, <1>7, WithinWitnessed

LEMMA SkipKeyWitnessed ==
    ASSUME TypeInv, WitnessInv, NEW p \in Process, SkipKey(p)
    PROVE  WitnessInv'
<1>1. Busy(p) /\ At(p, "rm") /\ Removing(p)
  BY DEF SkipKey, Busy, At, Step, WitnessInv, Witnessed
<1>2. /\ pc' = pc /\ skipped'[p] /\ keys'[p] \subseteq keys[p]
      /\ UNCHANGED <<req, cur, witnessed, manifest, left, seen, backend>>
      /\ \A q \in Process \ {p} : keys'[q] = keys[q] /\ skipped'[q] = skipped[q]
  BY DEF SkipKey, TypeInv, TypeOK, tree
<1>3. Within(p)
  BY <1>2 DEF Within
<1>4. Removing(p)' /\ ~UsesSeen(p)' /\ ~Handled(p, cur[p])'
  BY <1>1, <1>2 DEF Removing, UsesSeen, Handled, At, Obj, Cur, Inside
<1> QED
  BY <1>1, <1>3, <1>4, WithinWitnessed

LEMMA RemoveDoneWitnessed ==
    ASSUME TypeInv, WitnessInv, NEW p \in Process, RemoveDone(p)
    PROVE  WitnessInv'
<1>1. Busy(p) /\ Working(p) /\ At(p, "rm") /\ Removing(p) /\ Seeing(p)
  BY DEF RemoveDone, Busy, Working, At, Step, WitnessInv, Witnessed
<1>2. pc'[p] = "next" /\ Within(p) /\ UNCHANGED <<req, cur, witnessed>>
  BY DEF RemoveDone, Within, Keep, work, NextDoc, Goto, TypeInv, TypeOK, tree
<1>3. ~UsesSeen(p)' /\ Removing(p)'
  BY <1>2 DEF UsesSeen, Removing, At
<1>4. ASSUME HasOp(p, cur[p]), ~skipped[p] PROVE DoneOp(p, cur[p])'
  <2> DEFINE op == OpOf(p, cur[p])
  <2>0. OpOf(p, cur[p])' = op
    BY <1>2 DEF OpOf
  <2>1. op.do = "remove" /\ op.obj = Obj(p)
    <3>1. req[p].verb = "delete" /\ Obj(p) \in Object
      BY <1>1, AtStep DEF VerbsAt, At
    <3>2. op = [do |-> Doing["delete"], obj |-> Obj(p), version |-> Cur(p).version]
      BY <1>1, <1>4, <3>1, OperationOfStep
    <3> QED
      BY <3>1, <3>2 DEF Doing
  <2>2. Covers(op) = Inside(Obj(p)) /\ Inside(Obj(p)) \subseteq Object
    BY <1>1, <2>1, AtStep DEF Covers, Inside
  <2>3. ASSUME NEW o \in Inside(Obj(p)) PROVE None \in witnessed[p][o]
    <3>1. CASE backend = "s3"
      BY <1>1, <1>4, <3>1 DEF RemoveDone, Remaining, Removing
    <3>2. CASE backend # "s3"
      <4>1. <<"manifest", o>> \notin Present
        BY <3>2 DEF RemoveDone, Remaining, Under
      <4>2. manifest[o] = None
        BY <2>2, <4>1 DEF Present, File
      <4> QED
        BY <1>1, <2>2, <4>2 DEF Seeing
    <3> QED
      BY <3>1, <3>2
  <2>4. \A o \in Object : \A old : Result(op, o, old) = {None}
    BY <2>1 DEF Result
  <2> QED
    BY <1>2, <2>0, <2>2, <2>3, <2>4 DEF DoneOp, Store!Done
<1> QED
  BY <1>1, <1>2, <1>3, <1>4, WithinWitnessed

LEMMA ReadLabelsWitnessed ==
    ASSUME TypeInv, WitnessInv, NEW p \in Process, ReadLabels(p)
    PROVE  WitnessInv'
<1>1. Busy(p) /\ Working(p) /\ At(p, "labels") /\ Seeing(p)
  BY DEF ReadLabels, Busy, Working, At, Step, WitnessInv, Witnessed
<1>2. CASE End(p, "refused") /\ UNCHANGED tree
  BY <1>2, EndWitnessed DEF Outcome, tree
<1>3. CASE req[p].dry /\ NextDoc(p) /\ UNCHANGED <<tree, work, witnessed>> /\ Keep
  <2>1. pc'[p] = "next" /\ Within(p)
    BY <1>3 DEF Within, Keep, work, NextDoc, Goto, TypeInv, TypeOK, tree
  <2>2. ~UsesSeen(p)' /\ Removing(p)' /\ ~HasOp(p, cur[p])
    BY <1>3, <2>1 DEF UsesSeen, Removing, At, HasOp
  <2> QED
    BY <1>1, <2>1, <2>2, WithinWitnessed
<1>4. CASE /\ seen' = [seen EXCEPT ![p] = manifest[Obj(p)]] /\ Goto(p, "save")
           /\ UNCHANGED <<tree, left, cur, keys, toread, shown, witnessed>> /\ Keep
  <2>1. pc'[p] = "save" /\ Within(p) /\ seen'[p] = manifest[Obj(p)] /\ witnessed' = witnessed
    BY <1>4 DEF Within, Keep, Goto, TypeInv, TypeOK, tree
  <2>2. Obj(p) \in Object
    BY <1>1, AtStep
  <2>3. seen'[p] \in witnessed'[p][Obj(p)]
    BY <1>1, <2>1, <2>2 DEF Seeing
  <2>4. Removing(p)' /\ ~Handled(p, cur[p])'
    BY <1>4, <2>1 DEF Removing, At, Handled
  <2> QED
    BY <1>1, <2>1, <2>3, <2>4, WithinWitnessed
<1> QED
  BY <1>2, <1>3, <1>4 DEF ReadLabels

LEMMA SaveLabelsWitnessed ==
    ASSUME TypeInv, WitnessInv, NEW p \in Process, SaveLabels(p)
    PROVE  WitnessInv'
<1>1. Working(p) /\ Busy(p) /\ At(p, "save") /\ UsesSeen(p)
  BY DEF SaveLabels, Working, Busy, At, Step, UsesSeen
<1>2. pc'[p] = "next" /\ req' = req /\ cur' = cur /\ Within(p)
  BY DEF SaveLabels, Within, NextDoc, Goto, Keep, work, TypeInv, TypeOK
<1>3. ~UsesSeen(p)' /\ Removing(p)'
  BY <1>2 DEF UsesSeen, Removing, At
<1>4. ASSUME HasOp(p, cur[p]) PROVE DoneOp(p, cur[p])'
  <2> DEFINE op == OpOf(p, cur[p])
             new == [seen[p] EXCEPT !.label = TRUE]
  <2>0. OpOf(p, cur[p])' = op
    BY <1>2 DEF OpOf
  <2>1. op.do = "relabel" /\ op.obj = Obj(p) /\ Obj(p) \in Object
    <3>1. req[p].verb = "label" /\ Obj(p) \in Object
      BY <1>1, AtStep DEF VerbsAt, At
    <3>2. op = [do |-> Doing["label"], obj |-> Obj(p), version |-> Cur(p).version]
      BY <1>1, <1>4, <3>1, OperationOfStep
    <3> QED
      BY <3>1, <3>2 DEF Doing
  <2>2. new \in witnessed'[p][Obj(p)] /\ seen[p] \in witnessed'[p][Obj(p)]
    BY <1>1, <2>1, SeenWasWitnessed DEF SaveLabels, Watch, TypeInv, TypeOK
  <2>3. Covers(op) = {Obj(p)} /\ new \in Result(op, Obj(p), seen[p])
    BY <1>1, <2>1, SeenWasWitnessed DEF Covers, Result
  <2> QED
    BY <2>0, <2>2, <2>3 DEF DoneOp, Store!Done
<1> QED
  BY <1>1, <1>2, <1>3, <1>4, WithinWitnessed

LEMMA OpenEditorWitnessed ==
    ASSUME TypeInv, WitnessInv, NEW p \in Process, OpenEditor(p)
    PROVE  WitnessInv'
<1>1. Busy(p) /\ Working(p) /\ At(p, "open") /\ Seeing(p) /\ Obj(p) \in Object
  BY AtStep DEF OpenEditor, Busy, Working, At, Step, WitnessInv, Witnessed
<1>2. CASE End(p, "refused") /\ UNCHANGED tree
  BY <1>2, EndWitnessed DEF Outcome, tree
<1>3. CASE /\ seen' = [seen EXCEPT ![p] = manifest[Obj(p)]] /\ Goto(p, "edit")
           /\ UNCHANGED <<tree, left, cur, keys, toread, shown, witnessed>> /\ Keep
  <2>1. pc'[p] = "edit" /\ Within(p) /\ seen'[p] = manifest[Obj(p)] /\ witnessed' = witnessed
    BY <1>3 DEF Within, Keep, Goto, TypeInv, TypeOK, tree
  <2>2. seen'[p] \in witnessed'[p][Obj(p)]
    BY <1>1, <2>1 DEF Seeing
  <2>3. Removing(p)' /\ ~Handled(p, cur[p])'
    BY <1>3, <2>1 DEF Removing, At, Handled
  <2> QED
    BY <1>1, <2>1, <2>2, <2>3, WithinWitnessed
<1> QED
  BY <1>2, <1>3 DEF OpenEditor

(* Saved unchanged, what edit saw is what it was to make of it. *)
LEMMA CloseEditorWitnessed ==
    ASSUME TypeInv, WitnessInv, NEW p \in Process, CloseEditor(p)
    PROVE  WitnessInv'
<1>1. Busy(p) /\ Working(p) /\ At(p, "edit") /\ UsesSeen(p)
  BY DEF CloseEditor, Busy, Working, At, Step, UsesSeen
<1>2. CASE End(p, "refused") /\ UNCHANGED tree
  BY <1>2, EndWitnessed DEF Outcome, tree
<1>3. CASE /\ IF seen[p].version = Cur(p).version THEN NextDoc(p) ELSE Goto(p, "exists")
           /\ UNCHANGED <<tree, work, witnessed>> /\ Keep
  <2>1. /\ pc'[p] = IF seen[p].version = Cur(p).version THEN "next" ELSE "exists"
        /\ Within(p) /\ UNCHANGED <<req, cur, seen, witnessed>>
    BY <1>3 DEF Within, Keep, work, NextDoc, Goto, TypeInv, TypeOK, tree
  <2>2. UsesSeen(p)' => seen'[p] \in witnessed'[p][Obj(p)]
    BY <1>1, <2>1, SeenWasWitnessed
  <2>3. Removing(p)'
    BY <2>1 DEF Removing, At
  <2>4. ASSUME HasOp(p, cur[p]), Handled(p, cur[p])' PROVE DoneOp(p, cur[p])'
    <3> DEFINE op == OpOf(p, cur[p])
    <3>1. seen[p].version = Cur(p).version
      BY <2>1, <2>4 DEF Handled, At
    <3>0. OpOf(p, cur[p])' = op
      BY <2>1 DEF OpOf
    <3>2. /\ op.do = "update" /\ op.obj = Obj(p) /\ op.version = Cur(p).version
          /\ Obj(p) \in Object
      <4>1. req[p].verb = "edit" /\ Obj(p) \in Object
        BY <1>1, AtStep DEF VerbsAt, At
      <4>2. op = [do |-> Doing["edit"], obj |-> Obj(p), version |-> Cur(p).version]
        BY <1>1, <2>4, <4>1, OperationOfStep
      <4> QED
        BY <4>1, <4>2 DEF Doing
    <3>3. [seen[p] EXCEPT !.version = Cur(p).version] = seen[p]
      BY <1>1, <3>1, SeenWasWitnessed DEF Value
    <3>4. Covers(op) = {Obj(p)} /\ seen[p] \in Result(op, Obj(p), seen[p])
      BY <1>1, <3>2, <3>3, SeenWasWitnessed DEF Covers, Result
    <3> QED
      BY <1>1, <2>1, <3>0, <3>2, <3>4, SeenWasWitnessed DEF DoneOp, Store!Done
  <2> QED
    BY <1>1, <2>1, <2>2, <2>3, <2>4, WithinWitnessed
<1> QED
  BY <1>2, <1>3 DEF CloseEditor

(* The steps of export, which has no operations. *)
LEMMA ExportWitnessed ==
    ASSUME TypeInv, WitnessInv, NEW p \in Process,
           ListNamespaces(p) \/ ListOne(p) \/ ReadOne(p) \/ ListedAll(p)
    PROVE  WitnessInv'
<1>1. Busy(p) /\ Working(p) /\ pc[p] \in {"names", "read"}
  BY DEF ListNamespaces, ListOne, ReadOne, ListedAll, Busy, Working, At, Step
<1>2. CASE End(p, "refused") /\ UNCHANGED tree
  BY <1>2, EndWitnessed DEF Outcome, tree
<1>3. ASSUME NEW step \in {"read", "next"}, pc' = [pc EXCEPT ![p] = step],
             UNCHANGED <<tree, left, cur, keys, seen, witnessed>>, Keep
      PROVE  WitnessInv'
  <2>1. pc'[p] = step /\ Within(p)
    BY <1>3 DEF Within, Keep, TypeInv, TypeOK, tree
  <2>2. ~UsesSeen(p)' /\ Removing(p)'
    BY <1>3, <2>1 DEF UsesSeen, Removing, At
  <2>3. ~HasOp(p, cur[p])
    BY <1>1, AtStep DEF HasOp, VerbsAt, Doing
  <2> QED
    BY <1>1, <2>1, <2>2, <2>3, WithinWitnessed
<1>4. ASSUME pc' = pc, At(p, "read") PROVE pc' = [pc EXCEPT ![p] = "read"]
  BY <1>4 DEF At, TypeInv, TypeOK
<1>5. CASE ListNamespaces(p)
  BY <1>3, <1>5 DEF ListNamespaces, Goto
<1>6. CASE ListOne(p)
  BY <1>3, <1>4, <1>6 DEF ListOne
<1>7. CASE ReadOne(p)
  BY <1>2, <1>3, <1>4, <1>7 DEF ReadOne
<1>8. CASE ListedAll(p)
  BY <1>3, <1>8 DEF ListedAll, NextDoc, Goto, work
<1> QED
  BY <1>5, <1>6, <1>7, <1>8

LEMMA NextWitnessInv == TypeInv /\ WitnessInv /\ [Next]_vars => WitnessInv'
<1> SUFFICES ASSUME TypeInv, WitnessInv, [Next]_vars PROVE WitnessInv'
  OBVIOUS
<1>1. CASE UNCHANGED vars
  <2>1. ASSUME NEW q \in Process PROVE Witnessed(q)'
    <3>1. Busy(q) => Grows(q)
      BY <1>1, WatchGrows DEF vars, WitnessInv, Witnessed
    <3> QED
      BY <1>1, <3>1, OthersWitnessed DEF vars, WitnessInv
  <2> QED
    BY <2>1 DEF WitnessInv
<1>2. ASSUME NEW p \in Process, Begin(p) PROVE WitnessInv'
  BY <1>2, BeginWitnessed
<1>3. ASSUME NEW p \in Process, Break(p) PROVE WitnessInv'
  BY <1>3, EndWitnessed DEF Break, Outcome, tree
<1>4. ASSUME NEW p \in Process, Change(p) PROVE WitnessInv'
  BY <1>4, NextDocumentWitnessed, ApplyExistsWitnessed, WriteManifestWitnessed,
     StartAppWitnessed, DeleteStepsWitnessed, ListKeysWitnessed, RemoveFileWitnessed,
     SkipKeyWitnessed, RemoveDoneWitnessed, ReadLabelsWitnessed, SaveLabelsWitnessed,
     OpenEditorWitnessed, CloseEditorWitnessed, ExportWitnessed DEF Change
<1> QED
  BY <1>1, <1>2, <1>3, <1>4 DEF Next

LEMMA InitWitnessInv == Init => WitnessInv
  BY DEF Init, WitnessInv, Witnessed, Busy, Step

-----------------------------------------------------------------------------
(* The refinement: each step is one of the store's, or changes nothing in it. *)

LEMMA BatchIsOps ==
    ASSUME TypeInv, NEW p \in Process
    PROVE  /\ Batch(req[p]) \subseteq Operation
           /\ \A i \in 1..Len(req[p].docs) : HasOp(p, i) => OpOf(p, i) \in Batch(req[p])
           /\ \A op \in Batch(req[p]) :
                \E i \in 1..Len(req[p].docs) : HasOp(p, i) /\ op = OpOf(p, i)
<1> DEFINE Named == {j \in 1..Len(req[p].docs) : req[p].docs[j].kind \in Kind}
<1>1. CASE req[p].verb \notin DOMAIN Doing \/ req[p].dry
  BY <1>1 DEF Batch, HasOp
<1>2. CASE req[p].verb \in DOMAIN Doing /\ ~req[p].dry
  <2>1. Batch(req[p]) = {[do |-> Doing[req[p].verb], obj |-> Target(req[p], d), version |-> d.version] :
                           d \in {req[p].docs[i] : i \in Named}}
    BY <1>2 DEF Batch
  <2>2. \A i \in 1..Len(req[p].docs) : HasOp(p, i) => OpOf(p, i) \in Batch(req[p])
    BY <2>1 DEF HasOp, OpOf
  <2>3. ASSUME NEW op \in Batch(req[p])
        PROVE  \E i \in 1..Len(req[p].docs) : HasOp(p, i) /\ op = OpOf(p, i)
    <3>1. PICK i \in Named : op = [do |-> Doing[req[p].verb], obj |-> Target(req[p], req[p].docs[i]),
                                   version |-> req[p].docs[i].version]
      BY <2>1
    <3> QED
      BY <1>2, <3>1 DEF HasOp, OpOf
  <2>4. ASSUME NEW i \in 1..Len(req[p].docs), HasOp(p, i) PROVE OpOf(p, i) \in Operation
    <3>1. Doing[req[p].verb] \in {"put", "update", "relabel", "remove"}
      BY <1>2 DEF Doing
    <3>2. Target(req[p], req[p].docs[i]) \in Object /\ req[p].docs[i].version \in Version
      BY <2>4, TargetIsObject, RequestParts DEF HasOp
    <3> QED
      BY <3>1, <3>2 DEF OpOf, Operation
  <2> QED
    BY <2>2, <2>3, <2>4
<1> QED
  BY <1>1, <1>2

StatusFn == [p \in Process |-> Status(p)]
BatchFn == [p \in Process |-> Batch(req[p])]

LEMMA BusyStatus ==
    ASSUME TypeInv, NEW p \in Process
    PROVE  Status(p) = "busy" <=> Busy(p)
  BY DEF Status, Busy, Step, Outcome, TypeInv, TypeOK

LEMMA OthersStatus ==
    ASSUME NEW p \in Process, pc'[p] = pc[p], skipped'[p] = skipped[p] \/ Busy(p)
    PROVE  Status(p)' = Status(p)
  BY DEF Status, Busy

LEMMA InitRefines == Init => Store!Init
<1> SUFFICES ASSUME Init PROVE Store!Init
  OBVIOUS
<1>1. \A p \in Process : Batch(req[p]) = {}
  BY DEF Init, Batch, Nothing, Doing
<1>2. \A p \in Process : Status(p) = "idle"
  BY DEF Init, Status, Busy, Step
<1>3. manifest \in [Object -> Value \union {None}] /\ witnessed = [p \in Process |-> Store!Nowhere]
  BY DEF Init, Store!Nowhere, Nowhere
<1> QED
  BY <1>1, <1>2, <1>3 DEF Store!Init

LEMMA BeginRefines ==
    ASSUME TypeInv, TypeInv', NEW p \in Process, Begin(p)
    PROVE  Store!Begin(p)
<1>1. ~Busy(p) /\ Busy(p)' /\ UNCHANGED manifest
  BY DEF Begin, Busy, Goto, Step, tree, TypeInv, TypeOK
<1>2. Status(p) # "busy" /\ Status(p)' = "busy"
  <2>1. Status(p) # "busy"
    BY <1>1, BusyStatus
  <2>2. (Status(p) = "busy")'
    BY <1>1, BusyStatus, PTL
  <2> QED
    BY <2>1, <2>2
<1>3. ASSUME NEW q \in Process, q # p PROVE Status(q)' = Status(q) /\ req'[q] = req[q]
  BY <1>3, OthersStatus DEF Begin, Goto, TypeInv, TypeOK
<1>4. StatusFn' = [StatusFn EXCEPT ![p] = "busy"]
  BY <1>2, <1>3 DEF StatusFn
<1>5. BatchFn' = [BatchFn EXCEPT ![p] = BatchFn'[p]]
  <2>1. \A q \in Process : q # p => Batch(req[q])' = Batch(req[q])
    BY <1>3 DEF Batch
  <2> QED
    BY <2>1 DEF BatchFn
<1>6. Batch(req[p])' \subseteq Operation
  <2>1. (Batch(req[p]) \subseteq Operation)'
    BY BatchIsOps, PTL
  <2> QED
    BY <2>1 DEF Operation
<1>7. witnessed' = [witnessed EXCEPT ![p] = Store!Contents]
  BY DEF Begin, Store!Contents
<1> QED
  BY <1>1, <1>2, <1>4, <1>5, <1>6, <1>7 DEF Store!Begin, StatusFn, BatchFn

(* A command that ends: it has failed, or all it was asked to do is done. *)
LEMMA EndRefines ==
    ASSUME TypeInv, NEW p \in Process, NEW outcome \in Outcome, End(p, outcome), Busy(p),
           UNCHANGED manifest,
           outcome # "idle",
           outcome = "ok" /\ ~skipped[p] => \A op \in Batch(req[p]) : Store!Done(p, op)
    PROVE  Store!Finish(p) \/ Store!Fail(p)
<1>1. /\ pc'[p] = outcome /\ UNCHANGED <<req, skipped>>
      /\ witnessed' = [witnessed EXCEPT ![p] = Store!Nowhere]
  BY DEF End, Goto, Keep, Nowhere, Store!Nowhere, TypeInv, TypeOK
<1>2. Status(p)' = IF outcome = "ok" /\ ~skipped[p] THEN "ok" ELSE "failed"
  BY <1>1 DEF Status, Busy, Outcome, Step
<1>3. ASSUME NEW q \in Process, q # p PROVE Status(q)' = Status(q)
  BY <1>1, <1>3, OthersStatus DEF End, Goto, TypeInv, TypeOK
<1>4. StatusFn' = [StatusFn EXCEPT ![p] = IF outcome = "ok" /\ ~skipped[p] THEN "ok" ELSE "failed"]
  BY <1>2, <1>3 DEF StatusFn
<1>5. BatchFn' = BatchFn /\ Status(p) = "busy"
  BY <1>1, BusyStatus DEF BatchFn, Batch
<1>6. CASE outcome = "ok" /\ ~skipped[p]
  BY <1>1, <1>4, <1>5, <1>6 DEF Store!Finish, StatusFn, BatchFn
<1>7. CASE ~(outcome = "ok" /\ ~skipped[p])
  BY <1>1, <1>4, <1>5, <1>7 DEF Store!Fail, StatusFn, BatchFn
<1> QED
  BY <1>6, <1>7

LEMMA RefusedRefines ==
    ASSUME TypeInv, NEW p \in Process, NEW outcome \in {"refused", "broken"}, End(p, outcome),
           Busy(p), UNCHANGED manifest
    PROVE  Store!Next
<1>1. outcome \in Outcome /\ outcome \notin {"ok", "idle"}
  BY DEF Outcome
<1> QED
  BY <1>1, EndRefines DEF Store!Next

(* What a step within a document does to the store. *)
LEMMA WithinKeeps ==
    ASSUME TypeInv, TypeInv', NEW p \in Process, Within(p), Busy(p), Busy(p)'
    PROVE  StatusFn' = StatusFn /\ BatchFn' = BatchFn
<1>1. ASSUME NEW q \in Process PROVE Status(q)' = Status(q)
  <2>1. CASE q = p
    <3>1. (Status(p) = "busy")'
      BY BusyStatus, PTL
    <3> QED
      BY <2>1, <3>1, BusyStatus
  <2>2. CASE q # p
    BY <2>2, OthersStatus DEF Within
  <2> QED
    BY <2>1, <2>2
<1> QED
  BY <1>1 DEF StatusFn, BatchFn, Batch, Within

LEMMA StutterRefines ==
    ASSUME TypeInv, TypeInv', NEW p \in Process, Within(p), Busy(p), Busy(p)',
           UNCHANGED <<manifest, witnessed>>
    PROVE  UNCHANGED Store!vars
  BY WithinKeeps DEF Store!vars, StatusFn, BatchFn

LEMMA ChangeRefines ==
    ASSUME TypeInv, TypeInv', NEW p \in Process, Within(p), Busy(p), Busy(p)', Watch,
           cur[p] \in 1..Len(req[p].docs), HasOp(p, cur[p]), NEW o \in Covers(OpOf(p, cur[p])),
           NEW old \in witnessed[p][o],
           NEW v \in Result(OpOf(p, cur[p]), o, old), manifest' = [manifest EXCEPT ![o] = v]
    PROVE  Store!Change(p)
<1>1. OpOf(p, cur[p]) \in BatchFn[p]
  BY BatchIsOps DEF BatchFn
<1>2. StatusFn' = StatusFn /\ BatchFn' = BatchFn /\ StatusFn[p] = "busy"
  BY WithinKeeps, BusyStatus DEF StatusFn
<1>3. witnessed' = [q \in Process |-> [x \in Object |->
                      IF StatusFn[q] = "busy" THEN witnessed[q][x] \union {manifest'[x]}
                      ELSE witnessed[q][x]]]
  BY BusyStatus DEF Watch, StatusFn
<1> QED
  BY <1>1, <1>2, <1>3 DEF Store!Change, StatusFn, BatchFn

LEMMA NextDocumentRefines ==
    ASSUME TypeInv, TypeInv', WitnessInv, NEW p \in Process, NextDocument(p)
    PROVE  Store!Next \/ UNCHANGED Store!vars
<1>1. At(p, "next") /\ Busy(p)
  BY DEF NextDocument, At, Busy, Step
<1>2. CASE left[p] = {} /\ End(p, "ok") /\ UNCHANGED tree
  <2>1. ASSUME ~skipped[p], NEW op \in Batch(req[p]) PROVE Store!Done(p, op)
    <3>1. PICK i \in 1..Len(req[p].docs) : HasOp(p, i) /\ op = OpOf(p, i)
      BY BatchIsOps
    <3> QED
      BY <1>1, <1>2, <2>1, <3>1 DEF WitnessInv, Witnessed, Doneness, Handled, DoneOp
  <2>2. Store!Finish(p) \/ Store!Fail(p)
    BY <1>1, <1>2, <2>1, EndRefines DEF Outcome, tree
  <2> QED
    BY <2>2 DEF Store!Next
<1>3. CASE End(p, "refused") /\ UNCHANGED tree
  BY <1>1, <1>3, RefusedRefines DEF tree
<1>4. CASE /\ Goto(p, FirstStep[req[p].verb])
           /\ UNCHANGED <<tree, keys, seen, toread, shown, witnessed>> /\ Keep
  <2>1. FirstStep[req[p].verb] \in Step
    BY RequestParts DEF Verb, FirstStep, Step
  <2>2. Busy(p)' /\ UNCHANGED <<req, skipped, manifest, witnessed>>
        /\ \A q \in Process : q # p => pc'[q] = pc[q]
    BY <1>4, <2>1 DEF Busy, Goto, Keep, tree, TypeInv, TypeOK
  <2>3. ASSUME NEW q \in Process PROVE Status(q)' = Status(q)
    <3>1. (Status(p) = "busy")' /\ Status(p) = "busy"
      BY <1>1, <2>2, BusyStatus, PTL
    <3> QED
      BY <2>2, <3>1, OthersStatus
  <2> QED
    BY <2>2, <2>3 DEF Store!vars, Batch
<1> QED
  BY <1>2, <1>3, <1>4 DEF NextDocument

LEMMA WriteManifestRefines ==
    ASSUME TypeInv, TypeInv', WitnessInv, NEW p \in Process, WriteManifest(p)
    PROVE  Store!Next
<1>1. Working(p) /\ Busy(p) /\ At(p, "write") /\ Seeing(p)
  BY DEF WriteManifest, Working, Busy, At, Step, WitnessInv, Witnessed
<1>2. Within(p) /\ Busy(p)' /\ Watch
  BY DEF WriteManifest, Within, NextDoc, Goto, Keep, work, TypeInv, TypeOK, Busy, Step
<1>3. cur[p] \in 1..Len(req[p].docs) /\ Accepted(req[p], Cur(p)) /\ ~req[p].dry
      /\ req[p].verb \in {"apply", "create", "edit"} /\ Obj(p) \in Object
  BY <1>1, AtStep DEF TypeInv, Placed, At, VerbsAt
<1>4. HasOp(p, cur[p])
  BY <1>3 DEF HasOp, Accepted, Cur, Doing
<1>5. OpOf(p, cur[p]) = [do |-> Doing[req[p].verb], obj |-> Obj(p), version |-> Cur(p).version]
  BY <1>1, <1>4, OperationOfStep
<1>6. Obj(p) \in Covers(OpOf(p, cur[p]))
  BY <1>3, <1>5 DEF Covers, Doing
<1>7. PICK old \in witnessed[p][Obj(p)] : Wanted(p) \in Result(OpOf(p, cur[p]), Obj(p), old)
  <2>1. CASE req[p].verb = "edit"
    <3>1. UsesSeen(p)
      BY <1>1, <2>1 DEF UsesSeen, At
    <3>2. Wanted(p) \in Result(OpOf(p, cur[p]), Obj(p), seen[p])
      BY <1>5, <2>1, <3>1, SeenWasWitnessed DEF Wanted, Result, Doing
    <3> QED
      BY <3>1, <3>2, SeenWasWitnessed
  <2>2. CASE req[p].verb # "edit"
    BY <1>1, <1>3, <1>5, <2>2 DEF Wanted, Result, Doing, Seeing
  <2> QED
    BY <2>1, <2>2
<1> QED
  BY <1>1, <1>2, <1>3, <1>4, <1>6, <1>7, ChangeRefines DEF WriteManifest, Store!Next

LEMMA SaveLabelsRefines ==
    ASSUME TypeInv, TypeInv', WitnessInv, NEW p \in Process, SaveLabels(p)
    PROVE  Store!Next
<1>1. Working(p) /\ Busy(p) /\ At(p, "save") /\ UsesSeen(p)
  BY DEF SaveLabels, Working, Busy, At, Step, UsesSeen
<1>2. Within(p) /\ Busy(p)' /\ Watch
  BY DEF SaveLabels, Within, NextDoc, Goto, Keep, work, TypeInv, TypeOK, Busy, Step
<1>3. cur[p] \in 1..Len(req[p].docs) /\ Accepted(req[p], Cur(p)) /\ ~req[p].dry
      /\ req[p].verb = "label" /\ Obj(p) \in Object
  BY <1>1, AtStep DEF TypeInv, Placed, At, VerbsAt
<1>4. HasOp(p, cur[p])
  BY <1>3 DEF HasOp, Accepted, Cur, Doing
<1>5. OpOf(p, cur[p]) = [do |-> "relabel", obj |-> Obj(p), version |-> Cur(p).version]
  BY <1>1, <1>3, <1>4, OperationOfStep DEF Doing
<1>6. /\ Obj(p) \in Covers(OpOf(p, cur[p])) /\ seen[p] \in witnessed[p][Obj(p)]
      /\ [seen[p] EXCEPT !.label = TRUE] \in Result(OpOf(p, cur[p]), Obj(p), seen[p])
  BY <1>1, <1>5, SeenWasWitnessed DEF Covers, Result
<1> QED
  BY <1>1, <1>2, <1>3, <1>4, <1>6, ChangeRefines DEF SaveLabels, Store!Next

(* A generated file is not in the store. *)
LEMMA RemoveFileRefines ==
    ASSUME TypeInv, TypeInv', WitnessInv, NEW p \in Process, RemoveFile(p)
    PROVE  Store!Next \/ UNCHANGED Store!vars
<1>1. Busy(p) /\ Working(p) /\ At(p, "rm") /\ Removing(p)
  BY DEF RemoveFile, Busy, Working, At, Step, WitnessInv, Witnessed
<1>2. PICK f \in Remaining(p) :
         manifest' = IF f[1] = "manifest" THEN [manifest EXCEPT ![f[2]] = None] ELSE manifest
  BY DEF RemoveFile
<1>3. f \in File /\ f[2] \in Inside(Obj(p))
  BY <1>1 DEF Remaining, Under, Present, TypeInv, TypeOK, Removing
<1>4. Within(p) /\ Watch /\ Busy(p)'
  BY <1>1 DEF RemoveFile, Within, Keep, TypeInv, TypeOK, Busy
<1>5. CASE f[1] = "manifest"
  <2>1. cur[p] \in 1..Len(req[p].docs) /\ Accepted(req[p], Cur(p)) /\ ~req[p].dry
        /\ req[p].verb = "delete" /\ f[2] \in Object
    BY <1>1, <1>3, AtStep DEF TypeInv, Placed, At, VerbsAt, File
  <2>2. HasOp(p, cur[p])
    BY <2>1 DEF HasOp, Accepted, Cur, Doing
  <2>3. OpOf(p, cur[p]) = [do |-> "remove", obj |-> Obj(p), version |-> Cur(p).version]
    BY <1>1, <2>1, <2>2, OperationOfStep DEF Doing
  <2>4. f[2] \in Covers(OpOf(p, cur[p])) /\ manifest[f[2]] \in witnessed[p][f[2]]
        /\ None \in Result(OpOf(p, cur[p]), f[2], manifest[f[2]])
    BY <1>1, <1>3, <2>1, <2>3 DEF Covers, Result, WitnessInv, Witnessed, Seeing
  <2> QED
    BY <1>1, <1>2, <1>4, <1>5, <2>1, <2>2, <2>4, ChangeRefines DEF Store!Next
<1>6. CASE f[1] # "manifest"
  <2>1. UNCHANGED manifest
    BY <1>2, <1>6
  <2>2. \A q \in Process, o \in Object :
           witnessed'[q][o] = witnessed[q][o]
    BY <1>4, <2>1 DEF Watch, WitnessInv, Witnessed, Seeing
  <2>3. witnessed' = witnessed
    BY <1>4, <2>2 DEF Watch, TypeInv, TypeOK
  <2> QED
    BY <1>1, <1>4, <2>1, <2>3, StutterRefines
<1> QED
  BY <1>5, <1>6

(* The other steps leave the store alone, or end the command. *)
LEMMA QuietRefines ==
    ASSUME TypeInv, TypeInv', NEW p \in Process,
           \/ ApplyExists(p) \/ StartApp(p) \/ DeleteExists(p) \/ Confirm(p) \/ StopApp(p)
           \/ ListKeys(p) \/ SkipKey(p) \/ RemoveDone(p) \/ ReadLabels(p) \/ OpenEditor(p)
           \/ CloseEditor(p) \/ ListNamespaces(p) \/ ListOne(p) \/ ReadOne(p) \/ ListedAll(p)
    PROVE  Store!Next \/ UNCHANGED Store!vars
<1>1. Busy(p)
  BY DEF ApplyExists, StartApp, DeleteExists, Confirm, StopApp, ListKeys, SkipKey, RemoveDone,
         ReadLabels, OpenEditor, CloseEditor, ListNamespaces, ListOne, ReadOne, ListedAll,
         Busy, At, Step
<1>2. ASSUME NEW outcome \in {"refused", "broken"}, End(p, outcome), UNCHANGED manifest
      PROVE  Store!Next
  BY <1>1, <1>2, RefusedRefines
<1>3. ASSUME NEW step \in Step, Goto(p, step) \/ (pc' = pc /\ pc[p] = step),
             UNCHANGED <<manifest, witnessed, req, left, cur, backend>>,
             \A q \in Process \ {p} : seen'[q] = seen[q] /\ keys'[q] = keys[q]
                                      /\ skipped'[q] = skipped[q],
             skipped[p] => skipped'[p]
      PROVE  UNCHANGED Store!vars
  <2>1. Within(p) /\ Busy(p)'
    BY <1>3 DEF Within, Goto, Busy, TypeInv, TypeOK
  <2> QED
    BY <1>1, <1>3, <2>1, StutterRefines
<1>4. CASE ApplyExists(p)
  BY <1>2, <1>3, <1>4 DEF ApplyExists, NextDoc, tree, work, Keep, Step
<1>5. CASE StartApp(p)
  BY <1>2, <1>3, <1>5 DEF StartApp, NextDoc, tree, work, Keep, Step
<1>6. CASE DeleteExists(p)
  BY <1>2, <1>3, <1>6 DEF DeleteExists, NextDoc, tree, work, Keep, Step
<1>7. CASE Confirm(p)
  BY <1>2, <1>3, <1>7 DEF Confirm, tree, work, Keep, Step
<1>8. CASE StopApp(p)
  BY <1>2, <1>3, <1>8 DEF StopApp, tree, work, Keep, Step
<1>9. CASE ListKeys(p)
  BY <1>3, <1>9 DEF ListKeys, tree, Keep, Step, TypeInv, TypeOK
<1>10. CASE SkipKey(p)
  BY <1>1, <1>3, <1>10 DEF SkipKey, tree, Busy, TypeInv, TypeOK
<1>11. CASE RemoveDone(p)
  BY <1>3, <1>11 DEF RemoveDone, NextDoc, tree, work, Keep, Step
<1>12. CASE ReadLabels(p)
  BY <1>2, <1>3, <1>12 DEF ReadLabels, NextDoc, tree, work, Keep, Step, TypeInv, TypeOK
<1>13. CASE OpenEditor(p)
  BY <1>2, <1>3, <1>13 DEF OpenEditor, tree, Keep, Step, TypeInv, TypeOK
<1>14. CASE CloseEditor(p)
  BY <1>2, <1>3, <1>14 DEF CloseEditor, NextDoc, tree, work, Keep, Step
<1>15. CASE ListNamespaces(p)
  BY <1>3, <1>15 DEF ListNamespaces, tree, Keep, Step
<1>16. CASE ListOne(p)
  BY <1>1, <1>3, <1>16 DEF ListOne, tree, Keep, Busy
<1>17. CASE ReadOne(p)
  BY <1>1, <1>2, <1>3, <1>17 DEF ReadOne, tree, Keep, Busy
<1>18. CASE ListedAll(p)
  BY <1>3, <1>18 DEF ListedAll, NextDoc, tree, work, Keep, Step
<1> QED
  BY <1>4, <1>5, <1>6, <1>7, <1>8, <1>9, <1>10, <1>11, <1>12, <1>13, <1>14, <1>15, <1>16,
     <1>17, <1>18

LEMMA StepRefines ==
    ASSUME TypeInv, TypeInv', WitnessInv, [Next]_vars
    PROVE  [Store!Next]_(Store!vars)
<1>1. CASE UNCHANGED vars
  BY <1>1 DEF vars, Store!vars, Status, Busy, Batch
<1>2. ASSUME NEW p \in Process, Begin(p) PROVE Store!Next
  BY <1>2, BeginRefines DEF Store!Next
<1>3. ASSUME NEW p \in Process, Break(p) PROVE Store!Next
  BY <1>3, RefusedRefines DEF Break, tree
<1>4. ASSUME NEW p \in Process, Change(p) PROVE Store!Next \/ UNCHANGED Store!vars
  BY <1>4, NextDocumentRefines, WriteManifestRefines, SaveLabelsRefines, RemoveFileRefines,
     QuietRefines DEF Change
<1> QED
  BY <1>1, <1>2, <1>3, <1>4 DEF Next

(* Whatever the commands and however they overlap, fail and are killed, they *)
(* implement the store: each changes only what it was asked to change, and   *)
(* reports success only when all of it was done.                             *)
THEOREM Refines == Spec => StoreSpec
<1>1. TypeInv /\ WitnessInv /\ [Next]_vars => (TypeInv /\ WitnessInv)'
  BY NextTypeInv, NextWitnessInv
<1>2. Spec => [](TypeInv /\ WitnessInv)
  BY <1>1, InitTypeInv, InitWitnessInv, PTL DEF Spec
<1>3. TypeInv /\ WitnessInv /\ TypeInv' /\ [Next]_vars => [Store!Next]_(Store!vars)
  BY StepRefines
<1> QED
  BY <1>2, <1>3, InitRefines, PTL DEF Spec, StoreSpec, Store!Spec

-----------------------------------------------------------------------------
(* What commands achieve.  Part three of the invariant: the documents taken  *)
(* so far were accepted, and come before the ones still to come.             *)

Doc(p, i) == req[p].docs[i]
Subject(p, i) == Target(req[p], req[p].docs[i])
Taken(p) == 1..Len(req[p].docs) \ left[p]

Ordered(p) ==
    Busy(p) =>
      /\ \A i \in Taken(p) : Accepted(req[p], Doc(p, i))
      /\ \A i \in Taken(p) : \A j \in left[p] : Before(req[p], i, j)
      /\ Working(p) => \A i \in Taken(p) \ {cur[p]} : Before(req[p], i, cur[p])
OrderInv == \A p \in Process : Ordered(p)

(* While a process is marked as alone, no other is busy. *)
AloneInv == \A p, q \in Process : alone[p] /\ p # q => ~Busy(q)

(* Only Apps have containers, and only Apps are started. *)
RunningInv ==
    /\ \A o \in running : o.kind = "app"
    /\ \A p \in Process : At(p, "start") => Obj(p).kind = "app"

(* Documents dealt with up to some step, counting the current one there. *)
Past(p, steps) == {i \in Taken(p) : i # cur[p] \/ pc[p] \in steps}

(* An apply: the manifests it has written are there, each as in the last     *)
(* document about it, and the Apps it is through with run.                   *)
Written(p) == Past(p, {"next", "start"})
LatestOf(p, i, D) == \A j \in D : j > i => Subject(p, j) # Subject(p, i)
Applied(p) ==
    Busy(p) /\ alone[p] /\ req[p].verb = "apply" =>
      /\ At(p, "start") => ~req[p].dry
      /\ ~req[p].dry =>
           /\ \A i \in Written(p) : manifest[Subject(p, i)] # None
           /\ \A i \in Written(p) : LatestOf(p, i, Written(p)) =>
                manifest[Subject(p, i)] = Plain(Doc(p, i).version)
           /\ \A i \in Past(p, {"next"}) : Doc(p, i).kind = "app" => Subject(p, i) \in running
AppliedInv == \A p \in Process : Applied(p)

(* A delete: what it is through with, or is removing, does not run, or has *)
(* been overlooked.                                                        *)
Deleted(p) ==
    Busy(p) /\ alone[p] /\ req[p].verb = "delete" /\ ~req[p].dry =>
        \A i \in Past(p, {"next", "list", "rm"}) : Subject(p, i) \notin running \ overlooked
DeletedInv == \A p \in Process : Deleted(p)

(* An export: what it shows was stored; what it passed over was absent.      *)
Absent(p, o) == \E n \in {o, Place("namespace", o.ns)} : None \in witnessed[p][n]
ToRead(p, o) == <<"list", o>> \in toread[p] \/ <<"read", o>> \in toread[p]
Exported(p) ==
    /\ ~Busy(p) => \A o \in Object : shown[p][o] = None
    /\ Busy(p) /\ req[p].verb = "export" =>
         /\ \A o \in Object : shown[p][o] # None => shown[p][o] \in witnessed[p][o]
         /\ \A i \in Past(p, {"next"}) : \A o \in Object :
              o.kind = Doc(p, i).kind => shown[p][o] # None \/ Absent(p, o)
         /\ At(p, "read") => \A o \in Object :
              o.kind = Cur(p).kind => ToRead(p, o) \/ shown[p][o] # None \/ Absent(p, o)
ExportInv == \A p \in Process : Exported(p)

-----------------------------------------------------------------------------
(* The order of documents. *)

LEMMA StretchGrows ==
    ASSUME NEW ds \in Seq(Document), NEW i \in 1..Len(ds), NEW j \in 1..Len(ds), i <= j
    PROVE  Stretch(ds, i) \in Nat /\ Stretch(ds, i) <= Stretch(ds, j)
<1> DEFINE U(n) == {k \in 1..(n - 1) : ds[k].kind \notin Kind}
<1>1. U(i) \subseteq U(j) /\ U(i) \subseteq 1..(i - 1) /\ U(j) \subseteq 1..(j - 1)
  OBVIOUS
<1>2. IsFiniteSet(1..(i - 1)) /\ IsFiniteSet(1..(j - 1))
  BY FS_Interval
<1>3. IsFiniteSet(U(i)) /\ IsFiniteSet(U(j))
  BY <1>1, <1>2, FS_Subset
<1>4. Cardinality(U(i)) <= Cardinality(U(j)) /\ Cardinality(U(i)) \in Nat
  BY <1>1, <1>3, FS_Subset, FS_CardinalityType
<1> QED
  BY <1>4 DEF Stretch

(* Documents of one kind keep the order they are written in. *)
LEMMA SameKindInOrder ==
    ASSUME NEW r \in AllRequests, NEW i \in 1..Len(r.docs), NEW j \in 1..Len(r.docs),
           Before(r, i, j), r.docs[i].kind = r.docs[j].kind
    PROVE  i < j
<1>1. r.docs \in Seq(Document) /\ Len(r.docs) \in Nat
  BY DEF AllRequests
<1>2. ASSUME j <= i PROVE FALSE
  <2>1. Stretch(r.docs, j) <= Stretch(r.docs, i) /\ Stretch(r.docs, j) \in Nat
    BY <1>1, <1>2, StretchGrows
  <2>2. Stretch(r.docs, i) \in Nat
    BY <1>1, StretchGrows
  <2> HIDE DEF Stretch
  <2>3. Rank(r.docs[i].kind) = Rank(r.docs[j].kind)
    BY DEF Rank
  <2>4. Rank(r.docs[i].kind) \in Nat
    BY DEF Rank, ApplyOrder, Kind
  <2> QED
    BY <1>1, <1>2, <2>1, <2>2, <2>3, <2>4 DEF Before, Sorted
<1> QED
  BY <1>1, <1>2

(* When every kind is known, a document does not come before one whose kind  *)
(* ranks lower.                                                              *)
LEMMA KnownInRankOrder ==
    ASSUME NEW r \in AllRequests, NEW i \in 1..Len(r.docs), NEW j \in 1..Len(r.docs),
           r.verb = "apply", \A k \in 1..Len(r.docs) : r.docs[k].kind \in Kind, Before(r, i, j)
    PROVE  Rank(r.docs[i].kind) <= Rank(r.docs[j].kind)
<1>1. r.docs \in Seq(Document) /\ Len(r.docs) \in Nat
  BY DEF AllRequests
<1>2. ASSUME NEW n \in 1..Len(r.docs) PROVE Stretch(r.docs, n) = 0
  <2>1. {k \in 1..(n - 1) : r.docs[k].kind \notin Kind} = {}
    BY <1>1
  <2> QED
    BY <2>1, FS_EmptySet DEF Stretch
<1>3. \A n \in 1..Len(r.docs) : Rank(r.docs[n].kind) \in Nat
  BY DEF Rank, ApplyOrder, Kind
<1> QED
  BY <1>2, <1>3 DEF Before, Sorted

-----------------------------------------------------------------------------
(* What a step of one process does to another. *)

Apart(p) ==
    /\ pc'[p] = pc[p] /\ req'[p] = req[p] /\ left'[p] = left[p] /\ cur'[p] = cur[p]
    /\ toread'[p] = toread[p] /\ shown'[p] = shown[p]
    /\ Busy(p) => Grows(p)

LEMMA EndApart ==
    ASSUME TypeInv, WitnessInv, NEW p \in Process, NEW q \in Process, p # q,
           NEW outcome \in Outcome, End(q, outcome), UNCHANGED manifest
    PROVE  Apart(p) /\ alone'[p] = alone[p]
  BY DEF Apart, End, Goto, Forget, Keep, Grows, WitnessInv, Witnessed, Seeing, TypeInv, TypeOK

LEMMA StepApart ==
    ASSUME TypeInv, WitnessInv, NEW p \in Process, NEW q \in Process, p # q,
           Begin(q) \/ Break(q) \/ Change(q)
    PROVE  /\ Apart(p)
           /\ alone'[p] => alone[p] /\ Busy(q)
<1>1. CASE Begin(q)
  <2>1. ~alone'[p]
    BY <1>1 DEF Begin
  <2>2. Grows(p) \/ ~Busy(p)
    BY <1>1 DEF Begin, tree, Grows, WitnessInv, Witnessed, Seeing, TypeInv, TypeOK
  <2> QED
    BY <1>1, <2>1, <2>2 DEF Apart, Begin, Goto, tree, TypeInv, TypeOK
<1>2. CASE Break(q)
  BY <1>2, EndApart DEF Break, Outcome, tree
<1>3. CASE Change(q)
  <2>1. Busy(q)
    BY <1>3 DEF Change, NextDocument, ApplyExists, WriteManifest, StartApp, DeleteExists,
                Confirm, StopApp, ListKeys, RemoveFile, SkipKey, RemoveDone, ReadLabels, SaveLabels,
                OpenEditor, CloseEditor, ListNamespaces, ListOne, ReadOne, ListedAll, At, Busy, Step
  <2>2. ASSUME NEW outcome \in {"ok", "refused", "broken"}, End(q, outcome), UNCHANGED manifest
        PROVE  Apart(p) /\ alone'[p] = alone[p]
    BY <2>2, EndApart DEF Outcome
  <2>3. ASSUME pc'[p] = pc[p], req'[p] = req[p], left'[p] = left[p], cur'[p] = cur[p],
               toread'[p] = toread[p], shown'[p] = shown[p],
               Watch \/ UNCHANGED <<manifest, witnessed>>
        PROVE  Apart(p)
    BY <2>3, WatchGrows DEF Apart, WitnessInv, Witnessed
  <2> HIDE DEF Apart
  <2> USE DEF TypeInv, TypeOK, Keep, work, tree, Goto
  <2>4. CASE NextDocument(q)
    BY <2>1, <2>2, <2>3, <2>4 DEF NextDocument
  <2>5. CASE ApplyExists(q) \/ DeleteExists(q)
    BY <2>1, <2>2, <2>3, <2>5 DEF ApplyExists, DeleteExists, NextDoc
  <2>6. CASE WriteManifest(q) \/ SaveLabels(q)
    BY <2>1, <2>2, <2>3, <2>6 DEF WriteManifest, SaveLabels, NextDoc
  <2>7. CASE StartApp(q) \/ StopApp(q)
    BY <2>1, <2>2, <2>3, <2>7 DEF StartApp, StopApp, NextDoc
  <2>8. CASE Confirm(q) \/ RemoveDone(q) \/ CloseEditor(q) \/ ListedAll(q)
    BY <2>1, <2>2, <2>3, <2>8 DEF Confirm, RemoveDone, CloseEditor, ListedAll, NextDoc
  <2>9. CASE ListKeys(q) \/ RemoveFile(q) \/ SkipKey(q)
    BY <2>1, <2>2, <2>3, <2>9 DEF ListKeys, RemoveFile, SkipKey
  <2>10. CASE ReadLabels(q) \/ OpenEditor(q)
    BY <2>1, <2>2, <2>3, <2>10 DEF ReadLabels, OpenEditor, NextDoc
  <2>11. CASE ListNamespaces(q) \/ ListOne(q)
    BY <2>1, <2>2, <2>3, <2>11 DEF ListNamespaces, ListOne
  <2>12. CASE ReadOne(q)
    BY <2>1, <2>2, <2>3, <2>12 DEF ReadOne
  <2> QED
    BY <1>3, <2>4, <2>5, <2>6, <2>7, <2>8, <2>9, <2>10, <2>11, <2>12 DEF Change
<1> QED
  BY <1>1, <1>2, <1>3

(* What a process itself does: it turns to a document, ends, or goes on with *)
(* the one it is handling.                                                   *)
TurnsTo(p, i) ==
    /\ At(p, "next") /\ i \in left[p] /\ Accepted(req[p], Doc(p, i))
    /\ \A j \in left[p] \ {i} : Before(req[p], i, j)
    /\ cur'[p] = i /\ left'[p] = left[p] \ {i} /\ pc'[p] = FirstStep[req[p].verb]
    /\ UNCHANGED <<tree, req, toread, shown, witnessed, alone>>
EndsAs(p, outcome) ==
    /\ pc'[p] = outcome /\ req'[p] = req[p]
    /\ \A o \in Object : shown'[p][o] = None
GoesOn(p) ==
    Working(p) /\ pc'[p] \in Step /\ UNCHANGED <<req, left, cur, alone>>

LEMMA EndEnds ==
    ASSUME TypeInv, NEW p \in Process, NEW outcome \in Outcome, End(p, outcome)
    PROVE  EndsAs(p, outcome)
  BY DEF EndsAs, End, Goto, Forget, Keep, TypeInv, TypeOK

LEMMA NextDocumentCases ==
    ASSUME TypeInv, NEW p \in Process, NextDocument(p)
    PROVE  /\ At(p, "next")
           /\ \/ left[p] = {} /\ EndsAs(p, "ok") /\ UNCHANGED tree
              \/ /\ EndsAs(p, "refused") /\ UNCHANGED tree
                 /\ \E i \in left[p] : ~Accepted(req[p], Doc(p, i))
              \/ \E i \in left[p] : TurnsTo(p, i)
<1>1. CASE left[p] = {} /\ End(p, "ok") /\ UNCHANGED tree
  BY <1>1, EndEnds DEF Outcome, NextDocument
<1>2. ASSUME NEW i \in left[p], \A j \in left[p] \ {i} : Before(req[p], i, j),
             ~Accepted(req[p], req[p].docs[i]), End(p, "refused"), UNCHANGED tree
      PROVE  EndsAs(p, "refused") /\ \E k \in left[p] : ~Accepted(req[p], Doc(p, k))
  BY <1>2, EndEnds DEF Outcome, Doc
<1>3. ASSUME NEW i \in left[p], \A j \in left[p] \ {i} : Before(req[p], i, j), At(p, "next"),
             Accepted(req[p], req[p].docs[i]),
             cur' = [cur EXCEPT ![p] = i], left' = [left EXCEPT ![p] = @ \ {i}],
             Goto(p, FirstStep[req[p].verb]),
             UNCHANGED <<tree, keys, seen, toread, shown, witnessed>>, Keep
      PROVE  TurnsTo(p, i)
  BY <1>3 DEF TurnsTo, Doc, Goto, Keep, tree, TypeInv, TypeOK
<1> QED
  BY <1>1, <1>2, <1>3 DEF NextDocument

LEMMA ChangeCases ==
    ASSUME TypeInv, NEW p \in Process, Change(p)
    PROVE  Busy(p) /\ (NextDocument(p) \/ EndsAs(p, "refused") \/ EndsAs(p, "broken") \/ GoesOn(p))
<1>1. ASSUME NEW outcome \in {"refused", "broken"}, End(p, outcome) PROVE EndsAs(p, outcome)
  BY <1>1, EndEnds DEF Outcome
<1>2. ASSUME Working(p), pc'[p] \in Step, Keep \/ UNCHANGED <<req, alone>>,
             UNCHANGED work \/ UNCHANGED <<left, cur>>
      PROVE  GoesOn(p)
  BY <1>2 DEF GoesOn, Keep, work
<1>3. ASSUME NEW step \in Step, Goto(p, step) PROVE pc'[p] = step
  BY <1>3 DEF Goto, TypeInv, TypeOK
<1>4. ASSUME NextDocument(p) PROVE Busy(p)
  BY <1>4 DEF NextDocument, At, Busy, Step
<1>5. ASSUME NEW step \in Step \ {"next"}, At(p, step)
      PROVE  Working(p) /\ Busy(p)
  BY <1>5 DEF At, Working, Busy, Step
<1> DEFINE Case == Busy(p) /\ (EndsAs(p, "refused") \/ EndsAs(p, "broken") \/ GoesOn(p))
<1>6. CASE ApplyExists(p) \/ DeleteExists(p)
  BY <1>1, <1>2, <1>3, <1>5, <1>6 DEF ApplyExists, DeleteExists, NextDoc, Step
<1>7. CASE WriteManifest(p) \/ SaveLabels(p)
  BY <1>2, <1>3, <1>5, <1>7 DEF WriteManifest, SaveLabels, NextDoc, Step
<1>8. CASE StartApp(p) \/ StopApp(p)
  BY <1>1, <1>2, <1>3, <1>5, <1>8 DEF StartApp, StopApp, NextDoc, Step
<1>9. CASE Confirm(p) \/ RemoveDone(p) \/ CloseEditor(p) \/ ListedAll(p)
  BY <1>1, <1>2, <1>3, <1>5, <1>9 DEF Confirm, RemoveDone, CloseEditor, ListedAll, NextDoc, Step
<1>10. CASE ListKeys(p) \/ RemoveFile(p) \/ SkipKey(p)
  BY <1>2, <1>3, <1>5, <1>10 DEF ListKeys, RemoveFile, SkipKey, Step, At
<1>11. CASE ReadLabels(p) \/ OpenEditor(p)
  BY <1>1, <1>2, <1>3, <1>5, <1>11 DEF ReadLabels, OpenEditor, NextDoc, Step
<1>12. CASE ListNamespaces(p) \/ ListOne(p) \/ ReadOne(p)
  BY <1>1, <1>2, <1>3, <1>5, <1>12 DEF ListNamespaces, ListOne, ReadOne, Step, At
<1> QED
  BY <1>4, <1>6, <1>7, <1>8, <1>9, <1>10, <1>11, <1>12 DEF Change

LEMMA BeginsWith ==
    ASSUME TypeInv, NEW p \in Process, Begin(p)
    PROVE  /\ ~Busy(p) /\ pc'[p] = "next" /\ left'[p] = 1..Len(req'[p].docs)
           /\ \A o \in Object : shown'[p][o] = shown[p][o]
           /\ \A q \in Process \ {p} : alone'[p] => ~Busy(q)
           /\ UNCHANGED tree
  BY DEF Begin, Goto, tree, TypeInv, TypeOK

-----------------------------------------------------------------------------
(* The three general parts are invariants. *)

LEMMA OrderStep ==
    ASSUME TypeInv, OrderInv, NEW p \in Process,
           Begin(p) \/ Break(p) \/ Change(p) \/ Apart(p)
    PROVE  Ordered(p)'
<1>1. CASE Begin(p)
  BY <1>1, BeginsWith DEF Ordered, Taken, Working
<1>2. ASSUME NEW outcome \in Outcome, EndsAs(p, outcome) PROVE Ordered(p)'
  BY <1>2 DEF EndsAs, Ordered, Busy, Outcome, Step
<1>3. CASE Break(p)
  BY <1>2, <1>3, EndEnds DEF Break, Outcome
<1>4. CASE Apart(p)
  BY <1>4 DEF Apart, OrderInv, Ordered, Busy, Working, Taken, Doc
<1>5. CASE GoesOn(p)
  BY <1>5 DEF GoesOn, OrderInv, Ordered, Busy, Working, Taken, Doc
<1>6. ASSUME NEW i \in left[p], TurnsTo(p, i) PROVE Ordered(p)'
  <2>1. /\ Busy(p) /\ Busy(p)' => Ordered(p)
        /\ left[p] \subseteq 1..Len(req[p].docs)
    BY <1>6 DEF OrderInv, TypeInv, TypeOK
  <2>2. /\ Taken(p)' = Taken(p) \union {i} /\ i \notin Taken(p) /\ cur'[p] = i /\ req' = req
        /\ left'[p] = left[p] \ {i}
    BY <1>6, <2>1 DEF TurnsTo, Taken
  <2>3. Busy(p)
    BY <1>6 DEF TurnsTo, Busy, At, Step
  <2>4. ASSUME NEW k \in Taken(p)' PROVE Accepted(req[p], Doc(p, k))
    BY <1>6, <2>2, <2>3, <2>4 DEF OrderInv, Ordered, TurnsTo
  <2>5. ASSUME NEW k \in Taken(p)', NEW j \in left'[p] PROVE Before(req[p], k, j)
    BY <1>6, <2>2, <2>3, <2>5 DEF OrderInv, Ordered, TurnsTo
  <2>6. ASSUME NEW k \in Taken(p)' \ {i} PROVE Before(req[p], k, i)
    BY <1>6, <2>2, <2>3, <2>6 DEF OrderInv, Ordered
  <2> QED
    BY <2>2, <2>4, <2>5, <2>6 DEF Ordered, Doc
<1>7. CASE Change(p)
  BY <1>2, <1>5, <1>6, <1>7, ChangeCases, NextDocumentCases DEF Outcome
<1> QED
  BY <1>1, <1>3, <1>4, <1>7

LEMMA AloneStep ==
    ASSUME TypeInv, AloneInv, [Next]_vars
    PROVE  AloneInv'
<1>1. CASE UNCHANGED vars
  BY <1>1 DEF AloneInv, Busy, vars
<1>2. ASSUME NEW q \in Process, Begin(q) PROVE AloneInv'
  BY <1>2 DEF Begin, AloneInv, Busy, Goto, TypeInv, TypeOK
<1>3. ASSUME NEW q \in Process, Busy(q), alone' = alone, \A p \in Process \ {q} : pc'[p] = pc[p]
      PROVE  AloneInv'
  BY <1>3 DEF AloneInv, Busy
<1>4. ASSUME NEW q \in Process, Break(q) PROVE AloneInv'
  BY <1>3, <1>4 DEF Break, End, Goto, Keep, TypeInv, TypeOK
<1>5. ASSUME NEW q \in Process, Change(q) PROVE AloneInv'
  <2>1. Busy(q)
    BY <1>5, ChangeCases
  <2>2. alone' = alone
    BY <1>5 DEF Change, NextDocument, ApplyExists, WriteManifest, StartApp, DeleteExists,
                Confirm, StopApp, ListKeys, RemoveFile, SkipKey, RemoveDone, ReadLabels, SaveLabels,
                OpenEditor, CloseEditor, ListNamespaces, ListOne, ReadOne, ListedAll, Keep, End
  <2>3. \A p \in Process \ {q} : pc'[p] = pc[p]
    BY <1>5 DEF Change, NextDocument, ApplyExists, WriteManifest, StartApp, DeleteExists, NextDoc, Goto,
                Confirm, StopApp, ListKeys, RemoveFile, SkipKey, RemoveDone, ReadLabels, SaveLabels,
                OpenEditor, CloseEditor, ListNamespaces, ListOne, ReadOne, ListedAll, Keep, End,
                TypeInv, TypeOK
  <2> QED
    BY <1>3, <2>1, <2>2, <2>3
<1> QED
  BY <1>1, <1>2, <1>4, <1>5 DEF Next

LEMMA KindOfTarget ==
    ASSUME NEW r, NEW d
    PROVE  Target(r, d).kind = d.kind
  BY DEF Target, Place

LEMMA StartsAndStops ==
    ASSUME TypeInv, NEW p \in Process, Change(p)
    PROVE  /\ \/ running' \subseteq running
              \/ At(p, "start") /\ running' = running \union {Obj(p)}
           /\ pc'[p] = "start" =>
                NextDocument(p) \/ (WriteManifest(p) /\ Obj(p).kind = "app")
<1>1. \/ running' \subseteq running
      \/ At(p, "start") /\ running' = running \union {Obj(p)}
  BY DEF Change, NextDocument, ApplyExists, WriteManifest, StartApp, DeleteExists,
         Confirm, StopApp, ListKeys, RemoveFile, SkipKey, RemoveDone, ReadLabels, SaveLabels,
         OpenEditor, CloseEditor, ListNamespaces, ListOne, ReadOne, ListedAll, tree, containers
<1>2. ASSUME pc'[p] = "start" PROVE NextDocument(p) \/ (WriteManifest(p) /\ Obj(p).kind = "app")
  BY <1>2 DEF Change, ApplyExists, WriteManifest, StartApp, DeleteExists, NextDoc, Goto, At, Keep, End,
              Confirm, StopApp, ListKeys, RemoveFile, SkipKey, RemoveDone, ReadLabels, SaveLabels,
              OpenEditor, CloseEditor, ListNamespaces, ListOne, ReadOne, ListedAll, TypeInv, TypeOK
<1> QED
  BY <1>1, <1>2

LEMMA RunningStep ==
    ASSUME TypeInv, WitnessInv, RunningInv, [Next]_vars
    PROVE  RunningInv'
<1>1. ASSUME UNCHANGED running \/ running' \subseteq running
              \/ \E p \in Process : At(p, "start") /\ running' = running \union {Obj(p)}
      PROVE  \A o \in running' : o.kind = "app"
  BY <1>1 DEF RunningInv
<1>2. ASSUME NEW p \in Process, Apart(p) PROVE At(p, "start")' => (Obj(p).kind = "app")'
  BY <1>2 DEF Apart, RunningInv, Obj, Cur, At
<1>3. CASE UNCHANGED vars
  BY <1>3 DEF RunningInv, vars, Obj, Cur, At
<1>4. ASSUME NEW p \in Process, Begin(p) \/ Break(p) PROVE RunningInv'
  <2>1. ~At(p, "start")' /\ UNCHANGED running
    BY <1>4, BeginsWith, EndEnds DEF Break, EndsAs, Outcome, At, tree, containers
  <2>2. \A q \in Process \ {p} : Apart(q)
    BY <1>4, StepApart
  <2> QED
    BY <1>1, <1>2, <2>1, <2>2 DEF RunningInv
<1>5. ASSUME NEW p \in Process, Change(p) PROVE RunningInv'
  <2>1. \A o \in running' : o.kind = "app"
    BY <1>1, <1>5, StartsAndStops
  <2>2. \A q \in Process \ {p} : Apart(q)
    BY <1>5, StepApart
  <2>3. ASSUME At(p, "start")' PROVE (Obj(p).kind = "app")'
    <3>1. CASE WriteManifest(p) /\ Obj(p).kind = "app"
      BY <3>1 DEF WriteManifest, Keep, work, Obj, Cur
    <3>2. CASE NextDocument(p)
      <4>1. PICK i \in left[p] : TurnsTo(p, i)
        BY <2>3, <3>2, NextDocumentCases DEF EndsAs, At
      <4>2. req[p].verb = "start"
        BY <2>3, <4>1, RequestParts DEF TurnsTo, At, FirstStep, Verb
      <4>3. Doc(p, i).kind = "app"
        BY <4>1, <4>2 DEF TurnsTo, Accepted, Supports
      <4>4. Cur(p)' = Doc(p, i) /\ req' = req
        BY <4>1 DEF TurnsTo, Cur, Doc
      <4> QED
        BY <4>3, <4>4, KindOfTarget DEF Obj
    <3> QED
      BY <1>5, <2>3, <3>1, <3>2, StartsAndStops DEF At
  <2> QED
    BY <1>2, <2>1, <2>2, <2>3 DEF RunningInv
<1> QED
  BY <1>3, <1>4, <1>5 DEF Next

(* What is disturbed is no longer marked as alone. *)
LEMMA Undisturbed ==
    ASSUME TypeInv, WitnessInv, AloneInv, [Next]_vars, NEW p \in Process, alone'[p]
    PROVE  Begin(p) \/ Break(p) \/ Change(p) \/ UNCHANGED vars
<1>1. ASSUME NEW q \in Process, q # p PROVE ~(Begin(q) \/ Break(q) \/ Change(q))
  BY <1>1, StepApart DEF AloneInv
<1> QED
  BY <1>1 DEF Next

LEMMA VerbCases ==
    ASSUME TypeInv, NEW p \in Process, Change(p)
    PROVE  /\ req[p].verb = "apply" =>
                NextDocument(p) \/ ApplyExists(p) \/ WriteManifest(p) \/ StartApp(p)
           /\ req[p].verb = "delete" =>
                \/ NextDocument(p) \/ DeleteExists(p) \/ Confirm(p) \/ StopApp(p)
                \/ ListKeys(p) \/ RemoveFile(p) \/ SkipKey(p) \/ RemoveDone(p)
           /\ req[p].verb = "export" =>
                NextDocument(p) \/ ListNamespaces(p) \/ ListOne(p) \/ ReadOne(p) \/ ListedAll(p)
<1> DEFINE verb == req[p].verb
<1>1. ASSUME NEW step \in Step \ {"next"}, At(p, step) PROVE verb \in VerbsAt(step)
  BY <1>1, AtStep DEF At, Working
<1> HIDE DEF verb
<1>2. ASSUME ApplyExists(p) \/ WriteManifest(p) PROVE verb \notin {"delete", "export"}
  BY <1>1, <1>2 DEF ApplyExists, WriteManifest, Puts, VerbsAt, Step, verb
<1>3. ASSUME StartApp(p) PROVE verb \notin {"delete", "export"}
  BY <1>1, <1>3 DEF StartApp, VerbsAt, Step
<1>4. ASSUME \/ DeleteExists(p) \/ Confirm(p) \/ StopApp(p)
             \/ ListKeys(p) \/ RemoveFile(p) \/ SkipKey(p) \/ RemoveDone(p)
      PROVE  verb = "delete"
  BY <1>1, <1>4 DEF DeleteExists, Confirm, StopApp, ListKeys, RemoveFile, SkipKey, RemoveDone,
                    VerbsAt, Step, verb
<1>5. ASSUME ReadLabels(p) \/ SaveLabels(p) \/ OpenEditor(p) \/ CloseEditor(p)
      PROVE  verb \in {"label", "edit"}
  BY <1>1, <1>5 DEF ReadLabels, SaveLabels, OpenEditor, CloseEditor, VerbsAt, Step
<1>6. ASSUME ListNamespaces(p) \/ ListOne(p) \/ ReadOne(p) \/ ListedAll(p)
      PROVE  verb = "export"
  BY <1>1, <1>6 DEF ListNamespaces, ListOne, ReadOne, ListedAll, VerbsAt, Step
<1>7. verb = req[p].verb
  BY DEF verb
<1> QED
  BY <1>2, <1>3, <1>4, <1>5, <1>6, <1>7 DEF Change

-----------------------------------------------------------------------------
(* Apply. *)

(* Turning to a document, a process has dealt with those taken before it. *)
LEMMA PastWhenTurning ==
    ASSUME TypeInv, NEW p \in Process, NEW i, TurnsTo(p, i), NEW steps, FirstStep[req[p].verb] \notin steps,
           "next" \in steps
    PROVE  {k \in Taken(p)' : k # cur'[p] \/ pc'[p] \in steps} = Past(p, steps)
<1>1. Taken(p)' = Taken(p) \union {i} /\ i \notin Taken(p) /\ cur'[p] = i
      /\ pc'[p] \notin steps /\ pc[p] = "next"
  BY DEF TurnsTo, Taken, TypeInv, TypeOK, At
<1> QED
  BY <1>1 DEF Past

LEMMA AppliedTurning ==
    ASSUME TypeInv, AppliedInv, NEW p \in Process, NEW i, TurnsTo(p, i)
    PROVE  Applied(p)'
<1> SUFFICES ASSUME alone[p], req[p].verb = "apply" PROVE Applied(p)'
  BY DEF Applied, TurnsTo
<1>1. FirstStep[req[p].verb] = "exists"
  BY DEF FirstStep
<1>2. Written(p)' = Written(p) /\ Past(p, {"next"})' = Past(p, {"next"})
  BY <1>1, PastWhenTurning DEF Past, Written
<1>3. /\ Busy(p) /\ ~At(p, "start")'
      /\ req' = req /\ manifest' = manifest /\ running' = running
  BY <1>1 DEF TurnsTo, At, Busy, Step, tree, containers
<1> QED
  BY <1>2, <1>3 DEF AppliedInv, Applied, LatestOf, Subject, Doc

(* Another document about the object of the current one was written before.  *)
LEMMA SameSubjectEarlier ==
    ASSUME TypeInv, OrderInv, NEW p \in Process, Working(p), Busy(p), NEW i \in Taken(p) \ {cur[p]},
           Subject(p, i) = Obj(p)
    PROVE  i < cur[p]
<1>1. Before(req[p], i, cur[p]) /\ cur[p] \in 1..Len(req[p].docs) /\ i \in 1..Len(req[p].docs)
  BY DEF OrderInv, Ordered, TypeInv, Placed, Taken
<1>2. req[p].docs[i].kind = req[p].docs[cur[p]].kind
  BY KindOfTarget DEF Subject, Obj, Cur
<1>3. req[p] \in AllRequests
  BY DEF TypeInv, TypeOK
<1> QED
  BY <1>1, <1>2, <1>3, SameKindInOrder

LEMMA AppliedWriting ==
    ASSUME TypeInv, OrderInv, AppliedInv, NEW p \in Process, WriteManifest(p)
    PROVE  Applied(p)'
<1> SUFFICES ASSUME alone[p], req[p].verb = "apply", ~req[p].dry PROVE Applied(p)'
  <2>1. Working(p) /\ ~req[p].dry /\ UNCHANGED <<alone, req>>
    BY DEF WriteManifest, Keep, At, Working, Step, TypeInv, Placed
  <2> QED
    BY <2>1 DEF Applied
<1>1. /\ Working(p) /\ Busy(p) /\ At(p, "write") /\ cur[p] \in Taken(p)
      /\ req' = req /\ running' = running /\ left' = left /\ cur' = cur
  BY DEF WriteManifest, Keep, work, At, Working, Busy, Step, TypeInv, Placed, Taken, containers
<1>2. pc'[p] = IF Obj(p).kind = "app" THEN "start" ELSE "next"
  BY DEF WriteManifest, NextDoc, Goto, TypeInv, TypeOK
<1>3. /\ Obj(p) \in Object /\ manifest' = [manifest EXCEPT ![Obj(p)] = Plain(Cur(p).version)]
      /\ Plain(Cur(p).version) # None
  <2>1. Plain(Cur(p).version) \in Value
    BY <1>1, AtStep DEF Plain, Value
  <2> QED
    BY <1>1, <2>1, AtStep, ConstantsAssumption DEF WriteManifest, Wanted
<1>4. /\ Taken(p)' = Taken(p) /\ Written(p)' = Taken(p) /\ Written(p) = Taken(p) \ {cur[p]}
  BY <1>1, <1>2 DEF Taken, Written, Past, At
<1>5. \A i \in Taken(p) : Subject(p, i)' = Subject(p, i) /\ Doc(p, i)' = Doc(p, i)
                          /\ Subject(p, i) \in Object
  <2>1. \A i \in Taken(p) : Accepted(req[p], Doc(p, i)) /\ i \in 1..Len(req[p].docs)
    BY <1>1 DEF OrderInv, Ordered, Taken
  <2> QED
    BY <1>1, <2>1, TargetIsObject DEF Subject, Doc, Accepted
<1>6. Subject(p, cur[p]) = Obj(p) /\ Doc(p, cur[p]) = Cur(p)
  BY DEF Subject, Obj, Cur, Doc
<1>7. Applied(p)
  BY DEF AppliedInv
<1>8. \A i \in Taken(p) : manifest'[Subject(p, i)] # None
  BY <1>1, <1>3, <1>4, <1>5, <1>6, <1>7 DEF Applied, TypeInv, TypeOK
<1>9. ASSUME NEW i \in Taken(p), \A j \in Taken(p) : j > i => Subject(p, j) # Subject(p, i)
      PROVE  manifest'[Subject(p, i)] = Plain(Doc(p, i).version)
  <2>1. CASE i = cur[p]
    BY <1>3, <1>6, <2>1 DEF TypeInv, TypeOK
  <2>2. CASE i # cur[p]
    <3>1. Subject(p, i) # Obj(p)
      BY <1>1, <1>6, <1>9, <2>2, SameSubjectEarlier
    <3>2. manifest[Subject(p, i)] = Plain(Doc(p, i).version)
      BY <1>1, <1>4, <1>7, <1>9, <2>2 DEF Applied, LatestOf
    <3> QED
      BY <1>3, <1>5, <3>1, <3>2 DEF TypeInv, TypeOK
  <2> QED
    BY <2>1, <2>2
<1>10. ASSUME NEW i \in Past(p, {"next"})', Doc(p, i).kind = "app"
       PROVE  Subject(p, i) \in running
  <2>1. i \in Taken(p) /\ i # cur[p]
    BY <1>1, <1>2, <1>4, <1>6, <1>10, KindOfTarget DEF Past, Obj
  <2> QED
    BY <1>1, <1>7, <1>10, <2>1 DEF Applied, Past
<1>11. Past(p, {"next"})' \subseteq Taken(p)
  BY <1>4 DEF Past
<1> QED
  BY <1>1, <1>4, <1>5, <1>8, <1>9, <1>10, <1>11 DEF Applied, LatestOf

LEMMA AppliedStarting ==
    ASSUME TypeInv, AppliedInv, RunningInv, NEW p \in Process, StartApp(p), GoesOn(p)
    PROVE  Applied(p)'
<1> SUFFICES ASSUME alone[p], req[p].verb = "apply", ~req[p].dry PROVE Applied(p)'
  <2>1. At(p, "start") /\ UNCHANGED <<alone, req>> /\ Busy(p)
    BY DEF StartApp, GoesOn, At, Busy, Step
  <2>2. pc'[p] # "start"
    BY DEF StartApp, GoesOn, NextDoc, Goto, End, Step, TypeInv, TypeOK
  <2> QED
    BY <2>1, <2>2 DEF Applied, AppliedInv, At
<1>1. /\ Busy(p) /\ At(p, "start") /\ pc'[p] = "next" /\ cur[p] \in Taken(p)
      /\ UNCHANGED <<req, left, cur, manifest>> /\ running' = running \union {Obj(p)}
  BY DEF StartApp, GoesOn, NextDoc, Goto, End, At, Busy, Working, Step, TypeInv, TypeOK, Placed, Taken
<1>2. /\ Written(p)' = Taken(p) /\ Written(p) = Taken(p)
      /\ Past(p, {"next"})' = Taken(p) /\ Past(p, {"next"}) = Taken(p) \ {cur[p]}
  BY <1>1 DEF Written, Past, Taken, At
<1>3. Applied(p) /\ Subject(p, cur[p]) = Obj(p)
  BY DEF AppliedInv, Subject, Obj, Cur
<1>4. \A i \in Taken(p) : Doc(p, i).kind = "app" => Subject(p, i) \in running'
  BY <1>1, <1>2, <1>3 DEF Applied
<1> QED
  BY <1>1, <1>2, <1>3, <1>4 DEF Applied, Subject, Doc, LatestOf, At

LEMMA AppliedStep ==
    ASSUME TypeInv, WitnessInv, OrderInv, AloneInv, RunningInv, AppliedInv, [Next]_vars
    PROVE  AppliedInv'
<1> SUFFICES ASSUME NEW p \in Process, alone'[p] PROVE Applied(p)'
  BY DEF AppliedInv, Applied
<1>1. CASE UNCHANGED vars
  BY <1>1 DEF vars, AppliedInv, Applied, Busy, At, Written, Past, Taken, LatestOf, Subject, Doc
<1>2. CASE Begin(p)
  <2>1. Taken(p)' = {} /\ ~At(p, "start")'
    BY <1>2, BeginsWith DEF Taken, At
  <2> QED
    BY <2>1 DEF Applied, Written, Past
<1>3. ASSUME NEW outcome \in Outcome, EndsAs(p, outcome) PROVE Applied(p)'
  BY <1>3 DEF EndsAs, Applied, Busy, Outcome, Step
<1>4. CASE Break(p)
  BY <1>3, <1>4, EndEnds DEF Break, Outcome
<1>5. CASE Change(p) /\ req[p].verb = "apply"
  <2>1. CASE NextDocument(p)
    BY <1>3, <2>1, NextDocumentCases, AppliedTurning DEF Outcome
  <2>2. CASE EndsAs(p, "refused") \/ EndsAs(p, "broken")
    BY <1>3, <2>2 DEF Outcome
  <2>3. CASE ApplyExists(p) /\ GoesOn(p)
    <3>1. /\ At(p, "exists") /\ Busy(p) /\ UNCHANGED <<tree, req, left, cur, alone>>
          /\ pc'[p] = IF req[p].dry THEN "next" ELSE "write"
      BY <1>5, <2>3
         DEF ApplyExists, GoesOn, NextDoc, Goto, End, Keep, work, At, Busy, Step, TypeInv, TypeOK
    <3>2. ~req[p].dry => Written(p)' = Written(p) /\ Past(p, {"next"})' = Past(p, {"next"})
      BY <3>1 DEF Written, Past, Taken, At
    <3> QED
      BY <1>5, <3>1, <3>2 DEF AppliedInv, Applied, LatestOf, Subject, Doc, At, tree, containers
  <2> QED
    BY <1>5, <2>1, <2>2, <2>3, ChangeCases, VerbCases, AppliedWriting, AppliedStarting
<1>6. CASE Change(p) /\ req[p].verb # "apply"
  <2>1. EndsAs(p, "ok") \/ EndsAs(p, "refused") \/ EndsAs(p, "broken") \/ req'[p] = req[p]
    BY <1>6, ChangeCases, NextDocumentCases DEF GoesOn, TurnsTo
  <2> QED
    BY <1>3, <1>6, <2>1 DEF Applied, Outcome
<1> QED
  BY <1>1, <1>2, <1>4, <1>5, <1>6, Undisturbed

(* A success is reported when every document was taken and handled. *)
LEMMA OkAtTheEnd ==
    ASSUME TypeInv, WitnessInv, AloneInv, [Next]_vars, NEW p \in Process, alone'[p], pc'[p] = "ok"
    PROVE  \/ UNCHANGED vars
           \/ NextDocument(p) /\ left[p] = {} /\ Busy(p) /\ At(p, "next") /\ alone[p]
              /\ UNCHANGED tree /\ req'[p] = req[p]
<1>1. ~Begin(p) /\ ~Break(p)
  BY BeginsWith, EndEnds DEF Break, EndsAs, Outcome
<1>2. CASE Change(p)
  <2>1. NextDocument(p)
    BY <1>2, ChangeCases DEF EndsAs, GoesOn, Step
  <2>2. left[p] = {} /\ UNCHANGED tree /\ At(p, "next") /\ req'[p] = req[p]
    BY <2>1, NextDocumentCases, RequestParts DEF EndsAs, TurnsTo, FirstStep, Verb
  <2>3. alone' = alone
    BY <2>1 DEF NextDocument, End, Keep
  <2> QED
    BY <2>1, <2>2, <2>3 DEF At, Busy, Step
<1> QED
  BY <1>1, <1>2, Undisturbed

LEMMA AppliedAllStep ==
    ASSUME TypeInv, WitnessInv, AloneInv, AppliedInv, AppliedAll, [Next]_vars
    PROVE  AppliedAll'
<1>1. CASE UNCHANGED vars
  BY <1>1 DEF vars, AppliedAll
<1>2. ASSUME NEW p \in Process, NextDocument(p), left[p] = {}, Busy(p), At(p, "next"), alone[p],
             req[p].verb = "apply", ~req[p].dry, NEW i \in 1..Len(req[p].docs)
      PROVE  /\ (\A j \in (i + 1)..Len(req[p].docs) : Subject(p, j) # Subject(p, i)) =>
                   manifest[Subject(p, i)] = Plain(Doc(p, i).version)
             /\ Doc(p, i).kind = "app" => Subject(p, i) \in running
  <2>1. Taken(p) = 1..Len(req[p].docs) /\ Written(p) = Taken(p) /\ Past(p, {"next"}) = Taken(p)
    BY <1>2 DEF Taken, Written, Past, At
  <2>2. Applied(p) /\ Len(req[p].docs) \in Nat
    BY RequestParts DEF AppliedInv
  <2> QED
    BY <1>2, <2>1, <2>2 DEF Applied, LatestOf
<1>3. ASSUME NEW p \in Process, pc'[p] = "ok", alone'[p], req'[p].verb = "apply", ~req'[p].dry,
             NextDocument(p), left[p] = {}, Busy(p), At(p, "next"), alone[p],
             UNCHANGED tree, req'[p] = req[p],
             NEW i \in 1..Len(req'[p].docs)
      PROVE  LET d == req'[p].docs[i]  o == Target(req'[p], d)
             IN  /\ (\A j \in (i + 1)..Len(req'[p].docs) : Target(req'[p], req'[p].docs[j]) # o) =>
                     manifest'[o] = Plain(d.version)
                 /\ d.kind = "app" => o \in running'
  BY <1>2, <1>3 DEF Subject, Doc, tree, containers
<1>4. ASSUME ~UNCHANGED vars PROVE AppliedAll'
  BY <1>3, <1>4, OkAtTheEnd DEF AppliedAll
<1> QED
  BY <1>1, <1>4

(* When an App is refused, what it lacks is in none of the documents: one    *)
(* about its namespace or secret would have come first.                      *)
LEMMA RefusedForLack ==
    ASSUME TypeInv, OrderInv, AppliedInv, RunningInv, NEW p \in Process, StartApp(p), alone[p],
           req[p].verb = "apply", \A k \in 1..Len(req[p].docs) : Accepted(req[p], Doc(p, k)),
           NEW o \in Needs(Obj(p)), manifest[o] = None, NEW j \in 1..Len(req[p].docs)
    PROVE  Subject(p, j) # o
<1> SUFFICES ASSUME Subject(p, j) = o PROVE FALSE
  OBVIOUS
<1>1. /\ Busy(p) /\ Working(p) /\ At(p, "start") /\ cur[p] \in Taken(p) /\ Obj(p).kind = "app"
      /\ cur[p] \in 1..Len(req[p].docs)
  BY DEF StartApp, At, Working, Busy, Step, TypeInv, Placed, Taken, RunningInv
<1>2. Written(p) = Taken(p) /\ Applied(p) /\ ~req[p].dry
  BY <1>1 DEF Written, Past, At, AppliedInv, Applied
<1>3. j \notin Taken(p)
  BY <1>1, <1>2 DEF Applied
<1>4. j \in left[p] /\ Before(req[p], cur[p], j)
  BY <1>1, <1>3 DEF Taken, OrderInv, Ordered
<1>5. Rank(req[p].docs[cur[p]].kind) <= Rank(req[p].docs[j].kind)
  <2>1. req[p] \in AllRequests /\ \A k \in 1..Len(req[p].docs) : req[p].docs[k].kind \in Kind
    BY DEF TypeInv, TypeOK, Accepted, Doc
  <2> QED
    BY <1>1, <1>4, <2>1, KnownInRankOrder
<1>6. req[p].docs[cur[p]].kind = "app" /\ req[p].docs[j].kind = o.kind
  BY <1>1, KindOfTarget DEF Obj, Cur, Subject
<1>7. o # Obj(p)
  <2>1. Subject(p, cur[p]) = Obj(p)
    BY DEF Subject, Obj, Cur
  <2> QED
    BY <1>1, <1>2, <2>1 DEF Applied
<1>8. o.kind \in {"namespace", "secret"}
  BY <1>7 DEF Needs, Place
<1> QED
  BY <1>5, <1>6, <1>8 DEF Rank, Kind, ApplyOrder

LEMMA RefusedFrom ==
    ASSUME TypeInv, WitnessInv, AloneInv, [Next]_vars, NEW p \in Process, alone'[p],
           pc'[p] = "refused", req'[p].verb = "apply"
    PROVE  \/ UNCHANGED vars
           \/ /\ req'[p] = req[p] /\ alone[p] /\ UNCHANGED manifest
              /\ \/ NextDocument(p) /\ \E i \in left[p] : ~Accepted(req[p], Doc(p, i))
                 \/ StartApp(p) /\ \E o \in Needs(Obj(p)) : manifest[o] = None
<1>1. ~Begin(p) /\ ~Break(p)
  BY BeginsWith, EndEnds DEF Break, EndsAs, Outcome
<1>2. CASE Change(p)
  <2>1. req'[p] = req[p]
    BY <1>2, ChangeCases, NextDocumentCases DEF EndsAs, TurnsTo, GoesOn
  <2>2. CASE NextDocument(p)
    <3>1. ~\E i \in left[p] : TurnsTo(p, i)
      BY RequestParts DEF TurnsTo, FirstStep, Verb
    <3>2. alone' = alone
      BY <2>2 DEF NextDocument, End, Keep
    <3> QED
      BY <2>1, <2>2, <3>1, <3>2, NextDocumentCases DEF EndsAs, tree
  <2>3. CASE StartApp(p)
    <3>1. ~(NextDoc(p) \/ End(p, "broken"))
      BY DEF NextDoc, End, Goto, TypeInv, TypeOK
    <3>2. alone' = alone
      BY <2>3 DEF StartApp, End, Keep
    <3> QED
      BY <2>1, <2>3, <3>1, <3>2 DEF StartApp, tree
  <2>4. ~WriteManifest(p) /\ ~ApplyExists(p)
    BY <2>1 DEF WriteManifest, ApplyExists, NextDoc, Goto, TypeInv, TypeOK
  <2> QED
    BY <1>2, <2>1, <2>2, <2>3, <2>4, VerbCases
<1> QED
  BY <1>1, <1>2, Undisturbed

LEMMA CompleteSetsStep ==
    ASSUME TypeInv, WitnessInv, OrderInv, AloneInv, RunningInv, AppliedInv, CompleteSetsApply,
           [Next]_vars
    PROVE  CompleteSetsApply'
<1>1. CASE UNCHANGED vars
  <2>1. UNCHANGED <<pc, alone, req, manifest>>
    BY <1>1 DEF vars
  <2> QED
    BY <2>1 DEF CompleteSetsApply, DocsOf
<1>2. ASSUME NEW p \in Process, StartApp(p), alone[p], req[p].verb = "apply",
             \A d \in DocsOf(p) : Accepted(req[p], d), NEW o \in Needs(Obj(p)), manifest[o] = None
      PROVE  /\ Cur(p) \in DocsOf(p) /\ Cur(p).kind = "app" /\ o \in Needs(Target(req[p], Cur(p)))
             /\ \A e \in DocsOf(p) : Target(req[p], e) # o
  <2>1. At(p, "start") /\ cur[p] \in 1..Len(req[p].docs)
    BY <1>2 DEF StartApp, At, Working, Step, TypeInv, Placed
  <2>2. Cur(p) \in DocsOf(p) /\ Cur(p).kind = "app"
    BY <2>1, KindOfTarget DEF DocsOf, Cur, Obj, RunningInv
  <2>3. \A k \in 1..Len(req[p].docs) : Accepted(req[p], Doc(p, k))
    BY <1>2 DEF DocsOf, Doc
  <2> QED
    BY <1>2, <2>2, <2>3, RefusedForLack DEF DocsOf, Subject, Obj
<1>3. ASSUME NEW p \in Process, alone'[p], pc'[p] = "refused", req'[p].verb = "apply",
             \A d \in DocsOf(p)' : Accepted(req'[p], d), ~UNCHANGED vars
      PROVE  \E d \in DocsOf(p)' : d.kind = "app" /\
               \E o \in Needs(Target(req'[p], d)) :
                  manifest'[o] = None /\ \A e \in DocsOf(p)' : Target(req'[p], e) # o
  <2>1. /\ req'[p] = req[p] /\ alone[p] /\ manifest' = manifest
        /\ \/ NextDocument(p) /\ \E i \in left[p] : ~Accepted(req[p], Doc(p, i))
           \/ StartApp(p) /\ \E o \in Needs(Obj(p)) : manifest[o] = None
    BY <1>3, RefusedFrom
  <2>2. DocsOf(p)' = DocsOf(p)
    BY <2>1 DEF DocsOf
  <2>3. \A i \in left[p] : Accepted(req[p], Doc(p, i))
    BY <1>3, <2>1, <2>2 DEF DocsOf, Doc, TypeInv, TypeOK
  <2>4. StartApp(p) /\ \E o \in Needs(Obj(p)) : manifest[o] = None
    BY <2>1, <2>3
  <2> QED
    BY <1>2, <1>3, <2>1, <2>2, <2>4
<1> QED
  BY <1>1, <1>3 DEF CompleteSetsApply

-----------------------------------------------------------------------------
(* Delete. *)

LEMMA DeletedStep ==
    ASSUME TypeInv, WitnessInv, OrderInv, AloneInv, RunningInv, DeletedInv, [Next]_vars
    PROVE  DeletedInv'
<1> SUFFICES ASSUME NEW p \in Process, alone'[p] PROVE Deleted(p)'
  BY DEF DeletedInv, Deleted
<1> DEFINE steps == {"next", "list", "rm"}
<1>1. CASE UNCHANGED vars
  BY <1>1 DEF vars, DeletedInv, Deleted, Busy, Past, Taken, Subject
<1>2. CASE Begin(p)
  <2>1. Taken(p)' = {}
    BY <1>2, BeginsWith DEF Taken
  <2> QED
    BY <2>1 DEF Deleted, Past
<1>3. ASSUME NEW outcome \in Outcome, EndsAs(p, outcome) PROVE Deleted(p)'
  BY <1>3 DEF EndsAs, Deleted, Busy, Outcome, Step
<1>4. CASE Break(p)
  BY <1>3, <1>4, EndEnds DEF Break, Outcome
<1>5. ASSUME NEW i, TurnsTo(p, i), req[p].verb = "delete" PROVE Deleted(p)'
  <2>1. FirstStep[req[p].verb] \notin steps
    BY <1>5 DEF FirstStep
  <2>2. Past(p, steps)' = Past(p, steps)
    BY <1>5, <2>1, PastWhenTurning DEF Past
  <2> QED
    BY <1>5, <2>2 DEF TurnsTo, tree, containers, DeletedInv, Deleted, Busy, At, Step, Subject
<1>6. ASSUME GoesOn(p), (running \ overlooked)' \subseteq running \ overlooked, alone[p],
             \/ pc'[p] \notin steps \/ pc[p] \in steps
             \/ (req[p].verb = "delete" /\ ~req[p].dry => Obj(p) \notin (running \ overlooked)')
      PROVE  Deleted(p)'
  <2>1. /\ Busy(p) /\ req' = req /\ Taken(p)' = Taken(p) /\ cur' = cur
        /\ Subject(p, cur[p]) = Obj(p)
    BY <1>6 DEF GoesOn, Busy, Working, Taken, Subject, Obj, Cur
  <2> QED
    BY <1>6, <2>1 DEF DeletedInv, Deleted, Past, Subject
<1>7. CASE Change(p) /\ req[p].verb = "delete"
  <2>1. CASE NextDocument(p)
    BY <1>3, <1>5, <1>7, <2>1, NextDocumentCases DEF Outcome
  <2>2. CASE EndsAs(p, "refused") \/ EndsAs(p, "broken")
    BY <1>3, <2>2 DEF Outcome
  <2>3. CASE GoesOn(p) /\ alone[p]
    <3>1. CASE DeleteExists(p)
      <4>1. UNCHANGED <<running, overlooked>>
        BY <3>1 DEF DeleteExists, tree, containers
      <4>2. req[p].dry \/ pc'[p] = "confirm"
        BY <2>3, <3>1 DEF DeleteExists, Goto, End, GoesOn, Step, TypeInv, TypeOK
      <4> QED
        BY <1>6, <2>3, <4>1, <4>2
    <3>2. CASE Confirm(p)
      <4>1. UNCHANGED <<running, overlooked>>
        BY <3>2 DEF Confirm, tree, containers
      <4>2. Obj(p).kind = "app" => pc'[p] = "stop"
        BY <2>3, <3>2 DEF Confirm, Goto, End, GoesOn, Step, TypeInv, TypeOK
      <4>3. Obj(p) \notin running \/ pc'[p] = "stop"
        BY <4>2 DEF RunningInv
      <4> QED
        BY <1>6, <2>3, <4>1, <4>3
    <3>3. CASE StopApp(p)
      BY <1>6, <2>3, <3>3 DEF StopApp, End, Goto, GoesOn, Step, TypeInv, TypeOK
    <3>4. CASE ListKeys(p) \/ RemoveFile(p) \/ SkipKey(p) \/ RemoveDone(p)
      BY <1>6, <2>3, <3>4 DEF ListKeys, RemoveFile, SkipKey, RemoveDone, At, tree, containers
    <3> QED
      BY <1>7, <2>1, <3>1, <3>2, <3>3, <3>4, VerbCases
  <2>4. GoesOn(p) => alone[p]
    BY DEF GoesOn
  <2> QED
    BY <1>7, <2>1, <2>2, <2>3, <2>4, ChangeCases
<1>8. CASE Change(p) /\ req[p].verb # "delete"
  <2>1. EndsAs(p, "ok") \/ EndsAs(p, "refused") \/ EndsAs(p, "broken") \/ req'[p] = req[p]
    BY <1>8, ChangeCases, NextDocumentCases DEF GoesOn, TurnsTo
  <2> QED
    BY <1>3, <1>8, <2>1 DEF Deleted, Outcome
<1> QED
  BY <1>1, <1>2, <1>4, <1>7, <1>8, Undisturbed

LEMMA DeletedIsStoppedStep ==
    ASSUME TypeInv, WitnessInv, AloneInv, DeletedInv, DeletedIsStopped, [Next]_vars
    PROVE  DeletedIsStopped'
<1>1. CASE UNCHANGED vars
  BY <1>1 DEF vars, DeletedIsStopped, DocsOf
<1>2. ASSUME NEW p \in Process, pc'[p] = "ok", alone'[p], req'[p].verb = "delete", ~req'[p].dry,
             ~UNCHANGED vars, NEW i \in 1..Len(req'[p].docs)
      PROVE  Target(req'[p], req'[p].docs[i]) \notin (running \ overlooked)'
  <2>1. left[p] = {} /\ Busy(p) /\ At(p, "next") /\ alone[p] /\ UNCHANGED tree /\ req'[p] = req[p]
    BY <1>2, OkAtTheEnd
  <2>2. Past(p, {"next", "list", "rm"}) = 1..Len(req[p].docs)
    BY <2>1 DEF Past, Taken, At
  <2> QED
    BY <1>2, <2>1, <2>2 DEF DeletedInv, Deleted, Subject, tree, containers
<1> QED
  BY <1>1, <1>2 DEF DeletedIsStopped, DocsOf

-----------------------------------------------------------------------------
(* Export. *)

LEMMA NamespaceIsObject ==
    ASSUME NEW o \in Object
    PROVE  Place("namespace", o.ns) \in Object
  BY ConstantsAssumption DEF Place

LEMMA AbsentStays ==
    ASSUME NEW p \in Process, NEW o \in Object, Absent(p, o), Grows(p)
    PROVE  Absent(p, o)'
  BY NamespaceIsObject DEF Absent, Grows

LEMMA ExportedApart ==
    ASSUME TypeInv, ExportInv, NEW p \in Process, Apart(p)
    PROVE  Exported(p)'
<1>1. /\ Exported(p) /\ req'[p] = req[p] /\ shown'[p] = shown[p] /\ toread'[p] = toread[p]
      /\ pc'[p] = pc[p] /\ cur'[p] = cur[p] /\ left'[p] = left[p]
  BY DEF Apart, ExportInv
<1>2. Busy(p)' = Busy(p)
  BY <1>1 DEF Busy
<1>3. CASE ~Busy(p)
  BY <1>1, <1>2, <1>3 DEF Exported
<1>4. CASE Busy(p)
  <2>1. Grows(p) /\ \A o \in Object : Absent(p, o) => Absent(p, o)'
    BY <1>4, AbsentStays DEF Apart
  <2>2. Past(p, {"next"})' = Past(p, {"next"})
    BY <1>1 DEF Past, Taken
  <2> QED
    BY <1>1, <1>2, <1>4, <2>1, <2>2 DEF Exported, Grows, ToRead, Cur, Doc, At
<1> QED
  BY <1>3, <1>4

(* A step that shows or lists something. *)
LEMMA ExportedReading ==
    ASSUME TypeInv, WitnessInv, ExportInv, NEW p \in Process, req[p].verb = "export",
           ListNamespaces(p) \/ ListOne(p) \/ ReadOne(p) \/ ListedAll(p), GoesOn(p)
    PROVE  Exported(p)'
<1>1. /\ Busy(p) /\ Exported(p) /\ UNCHANGED <<req, left, cur>> /\ Busy(p)'
      /\ cur[p] \in Taken(p)
  BY DEF GoesOn, Working, Busy, ExportInv, TypeInv, Placed, Taken
<1>2. \A o \in Object : manifest[o] \in witnessed[p][o]
  BY <1>1 DEF WitnessInv, Witnessed, Seeing
<1>3. CASE ListNamespaces(p)
  <2> DEFINE Listed(o) == o.kind = "namespace" \/ manifest[Place("namespace", o.ns)] # None
  <2>1. /\ pc[p] = "names" /\ pc'[p] = "read" /\ shown' = shown /\ witnessed' = witnessed
        /\ \A o \in Object : o.kind = Cur(p).kind /\ Listed(o) => <<"list", o>> \in toread'[p]
    BY <1>3 DEF ListNamespaces, Goto, At, TypeInv, TypeOK
  <2>2. Past(p, {"next"})' = Past(p, {"next"})
    BY <1>1, <2>1 DEF Past, Taken
  <2>3. ASSUME NEW o \in Object, o.kind = Cur(p).kind
        PROVE  <<"list", o>> \in toread'[p] \/ Absent(p, o)
    <3>1. CASE Listed(o)
      BY <2>1, <2>3, <3>1
    <3>2. CASE manifest[Place("namespace", o.ns)] = None
      BY <1>2, <3>2, NamespaceIsObject DEF Absent
    <3> QED
      BY <3>1, <3>2
  <2>4. \A o \in Object : Absent(p, o)' = Absent(p, o)
    BY <2>1 DEF Absent
  <2> QED
    BY <1>1, <2>1, <2>2, <2>3, <2>4 DEF Exported, ToRead, Cur, Doc
<1>4. CASE ListOne(p)
  <2>1. PICK o \in Object :
          toread' = [toread EXCEPT ![p] = (@ \ {<<"list", o>>}) \union
                       (IF manifest[o] = None THEN {} ELSE {<<"read", o>>})]
    BY <1>4 DEF ListOne
  <2>2. pc[p] = "read" /\ pc' = pc /\ shown' = shown /\ witnessed' = witnessed
    BY <1>4 DEF ListOne, At
  <2>3. Past(p, {"next"})' = Past(p, {"next"}) /\ \A x \in Object : Absent(p, x)' = Absent(p, x)
    BY <1>1, <2>2 DEF Past, Taken, Absent
  <2>4. toread'[p] = (toread[p] \ {<<"list", o>>}) \union
                       (IF manifest[o] = None THEN {} ELSE {<<"read", o>>})
    BY <2>1 DEF TypeInv, TypeOK
  <2>5. ASSUME NEW x \in Object, ToRead(p, x) PROVE ToRead(p, x)' \/ Absent(p, x)
    <3>1. CASE x # o
      BY <2>4, <2>5, <3>1 DEF ToRead
    <3>2. CASE x = o /\ manifest[o] # None
      BY <2>4, <3>2 DEF ToRead
    <3>3. CASE x = o /\ manifest[o] = None
      BY <1>2, <3>3 DEF Absent
    <3> QED
      BY <3>1, <3>2, <3>3
  <2> QED
    BY <1>1, <2>2, <2>3, <2>5 DEF Exported, Cur, Doc, At
<1>5. CASE ReadOne(p)
  <2>1. PICK o \in Object :
          /\ shown' = [shown EXCEPT ![p][o] = manifest[o]] /\ manifest[o] # None
          /\ toread' = [toread EXCEPT ![p] = @ \ {<<"read", o>>}]
          /\ UNCHANGED <<pc, witnessed>>
    BY <1>5 DEF ReadOne, GoesOn, End, Goto, Step, TypeInv, TypeOK
  <2>2. Past(p, {"next"})' = Past(p, {"next"}) /\ \A x \in Object : Absent(p, x)' = Absent(p, x)
    BY <1>1, <2>1 DEF Past, Taken, Absent
  <2>3. /\ shown'[p] = [shown[p] EXCEPT ![o] = manifest[o]]
        /\ shown'[p][o] = manifest[o] /\ \A x \in Object \ {o} : shown'[p][x] = shown[p][x]
        /\ toread'[p] = toread[p] \ {<<"read", o>>}
    BY <2>1 DEF TypeInv, TypeOK
  <2>4. \A x \in Object : ToRead(p, x) => ToRead(p, x)' \/ x = o
    BY <2>3 DEF ToRead
  <2>5. pc[p] = "read"
    BY <1>5 DEF ReadOne, At
  <2>6. \A x \in Object : shown'[p][x] # None => shown'[p][x] \in witnessed'[p][x]
    BY <1>1, <1>2, <2>1, <2>3 DEF Exported
  <2>7. \A x \in Object : shown[p][x] # None => shown'[p][x] # None
    BY <2>1, <2>3
  <2> QED
    BY <1>1, <2>1, <2>2, <2>3, <2>4, <2>5, <2>6, <2>7 DEF Exported, Cur, Doc, At
<1>6. CASE ListedAll(p)
  <2>1. /\ pc[p] = "read" /\ toread[p] = {} /\ pc'[p] = "next" /\ shown' = shown
        /\ witnessed' = witnessed
    BY <1>6 DEF ListedAll, NextDoc, Goto, At, work, TypeInv, TypeOK
  <2>2. Past(p, {"next"})' \subseteq Past(p, {"next"}) \union {cur[p]}
    BY <1>1 DEF Past, Taken
  <2>3. \A x \in Object : ~ToRead(p, x) /\ Absent(p, x)' = Absent(p, x)
    BY <2>1 DEF ToRead, Absent
  <2> QED
    BY <1>1, <2>1, <2>2, <2>3 DEF Exported, Cur, Doc, At
<1> QED
  BY <1>3, <1>4, <1>5, <1>6

LEMMA ExportStep ==
    ASSUME TypeInv, WitnessInv, ExportInv, [Next]_vars
    PROVE  ExportInv'
<1> SUFFICES ASSUME NEW p \in Process PROVE Exported(p)'
  BY DEF ExportInv
<1>1. CASE UNCHANGED vars
  BY <1>1 DEF vars, ExportInv, Exported, Busy, At, Past, Taken, Doc, Cur, Absent, ToRead
<1>2. CASE Begin(p)
  <2>1. Taken(p)' = {} /\ pc'[p] = "next" /\ \A o \in Object : shown'[p][o] = None
    BY <1>2, BeginsWith DEF Taken, ExportInv, Exported
  <2> QED
    BY <2>1 DEF Exported, Past, Busy, Step, At
<1>3. ASSUME NEW outcome \in Outcome, EndsAs(p, outcome) PROVE Exported(p)'
  BY <1>3 DEF EndsAs, Exported, Busy, Outcome, Step
<1>4. CASE Break(p)
  BY <1>3, <1>4, EndEnds DEF Break, Outcome
<1>5. ASSUME NEW i, TurnsTo(p, i) PROVE Exported(p)'
  <2>1. CASE req[p].verb = "export"
    <3>1. FirstStep[req[p].verb] = "names"
      BY <2>1 DEF FirstStep
    <3>2. Past(p, {"next"})' = Past(p, {"next"})
      BY <1>5, <3>1, PastWhenTurning DEF Past
    <3>3. /\ Busy(p) /\ pc'[p] = "names" /\ Exported(p)
          /\ UNCHANGED <<req, toread, shown, witnessed>>
      BY <1>5, <3>1 DEF TurnsTo, Busy, At, Step, ExportInv
    <3> QED
      BY <2>1, <3>2, <3>3 DEF Exported, Busy, Step, At, Doc, Absent
  <2>2. CASE req[p].verb # "export"
    <3>1. pc'[p] \in Step /\ req'[p] = req[p]
      BY <1>5, RequestParts DEF TurnsTo, FirstStep, Step, Verb
    <3> QED
      BY <2>2, <3>1 DEF Exported, Busy
  <2> QED
    BY <2>1, <2>2
<1>6. CASE Change(p)
  <2>1. CASE NextDocument(p)
    BY <1>3, <1>5, <2>1, NextDocumentCases DEF Outcome
  <2>2. CASE EndsAs(p, "refused") \/ EndsAs(p, "broken")
    BY <1>3, <2>2 DEF Outcome
  <2>3. CASE GoesOn(p) /\ req[p].verb # "export"
    BY <2>3 DEF GoesOn, Exported, Busy
  <2> QED
    BY <1>6, <2>1, <2>2, <2>3, ChangeCases, VerbCases, ExportedReading
<1>7. ASSUME NEW q \in Process, q # p, Begin(q) \/ Break(q) \/ Change(q) PROVE Exported(p)'
  BY <1>7, StepApart, ExportedApart
<1> QED
  BY <1>1, <1>2, <1>4, <1>6, <1>7 DEF Next

LEMMA ExportEnds ==
    ASSUME TypeInv, WitnessInv, ExportInv, [Next]_vars, NEW p \in Process, Busy(p), pc'[p] = "ok",
           req[p].verb = "export"
    PROVE  ExportTrue(p)
<1>1. left[p] = {} /\ At(p, "next")
  <2>1. ~UNCHANGED vars /\ ~Begin(p) /\ ~Break(p)
    BY EndEnds DEF vars, Busy, Step, Begin, Break, EndsAs, Outcome
  <2>2. ASSUME NEW q \in Process, q # p PROVE ~(Begin(q) \/ Break(q) \/ Change(q))
    BY <2>2, StepApart DEF Apart, Busy, Step
  <2>3. Change(p)
    BY <2>1, <2>2 DEF Next
  <2>4. NextDocument(p)
    BY <2>3, ChangeCases DEF EndsAs, GoesOn, Step
  <2> QED
    BY <2>4, NextDocumentCases DEF EndsAs, TurnsTo, FirstStep
<1>2. Past(p, {"next"}) = 1..Len(req[p].docs) /\ Exported(p)
  BY <1>1 DEF Past, Taken, At, ExportInv
<1>3. ASSUME NEW o \in Object, shown[p][o] = None, NEW d \in DocsOf(p), d.kind = o.kind
      PROVE  Absent(p, o)
  BY <1>2, <1>3 DEF Exported, DocsOf, Doc
<1> QED
  BY <1>2, <1>3 DEF ExportTrue, Exported, Absent

-----------------------------------------------------------------------------
IInv ==
    /\ TypeInv /\ WitnessInv /\ OrderInv /\ AloneInv /\ RunningInv
    /\ AppliedInv /\ DeletedInv /\ ExportInv
    /\ CompleteSetsApply /\ AppliedAll /\ DeletedIsStopped

LEMMA InitIInv == Init => IInv
<1> SUFFICES ASSUME Init PROVE IInv
  OBVIOUS
<1>1. \A p \in Process : ~Busy(p) /\ pc[p] = "idle" /\ ~alone[p]
  BY DEF Init, Busy, Step
<1>2. OrderInv /\ AloneInv /\ AppliedInv /\ DeletedInv
  BY <1>1 DEF OrderInv, Ordered, AloneInv, AppliedInv, Applied, DeletedInv, Deleted
<1>3. RunningInv
  BY <1>1 DEF RunningInv, Init, At
<1>4. ExportInv
  BY <1>1 DEF ExportInv, Exported, Init
<1>5. CompleteSetsApply /\ AppliedAll /\ DeletedIsStopped
  BY <1>1 DEF CompleteSetsApply, AppliedAll, DeletedIsStopped
<1> QED
  BY <1>2, <1>3, <1>4, <1>5, InitTypeInv, InitWitnessInv DEF IInv

LEMMA NextIInv == IInv /\ [Next]_vars => IInv'
<1> SUFFICES ASSUME IInv, [Next]_vars PROVE IInv'
  OBVIOUS
<1>1. TypeInv' /\ WitnessInv' /\ AloneInv' /\ RunningInv' /\ ExportInv'
  BY NextTypeInv, NextWitnessInv, AloneStep, RunningStep, ExportStep DEF IInv
<1>2. OrderInv'
  <2>1. CASE UNCHANGED vars
    BY <2>1 DEF vars, IInv, OrderInv, Ordered, Busy, Working, Taken, Doc
  <2>2. ASSUME NEW q \in Process, Begin(q) \/ Break(q) \/ Change(q), NEW p \in Process
        PROVE  Ordered(p)'
    BY <2>2, StepApart, OrderStep DEF IInv
  <2> QED
    BY <2>1, <2>2 DEF Next, OrderInv
<1>3. AppliedInv' /\ DeletedInv'
  BY AppliedStep, DeletedStep DEF IInv
<1>4. CompleteSetsApply' /\ AppliedAll' /\ DeletedIsStopped'
  BY CompleteSetsStep, AppliedAllStep, DeletedIsStoppedStep DEF IInv
<1> QED
  BY <1>1, <1>2, <1>3, <1>4 DEF IInv

LEMMA Invariance == Spec => []IInv
  BY InitIInv, NextIInv, PTL DEF Spec

(* An apply that nothing disturbs is refused only for a document it does not *)
(* accept, or for an App whose needs are neither there nor in the documents. *)
THEOREM CompleteSetsAreApplied == Spec => []CompleteSetsApply
<1>1. IInv => CompleteSetsApply
  BY DEF IInv
<1> QED
  BY <1>1, Invariance, PTL

(* An apply that reports success, with nothing done since it began, has      *)
(* stored the last document about each object, and each App in it runs.      *)
THEOREM SuccessIsApplied == Spec => []AppliedAll
<1>1. IInv => AppliedAll
  BY DEF IInv
<1> QED
  BY <1>1, Invariance, PTL

(* A delete that reports success, with nothing done since it began, has      *)
(* stopped every App it names, except those a failing probe has overlooked.  *)
THEOREM SuccessIsStopped == Spec => []DeletedIsStopped
<1>1. IInv => DeletedIsStopped
  BY DEF IInv
<1> QED
  BY <1>1, Invariance, PTL

(* Whatever goes on meanwhile, an export that ends well shows what was       *)
(* stored, and leaves out only what was absent at some instant.              *)
THEOREM ExportsAreTrue == Spec => ExportIsTrue
<1>1. IInv /\ [Next]_vars =>
        [\A p \in Process : Busy(p) /\ pc'[p] = "ok" /\ req[p].verb = "export" => ExportTrue(p)]_vars
  BY ExportEnds DEF IInv
<1> QED
  BY <1>1, Invariance, PTL DEF Spec, ExportIsTrue
=============================================================================
