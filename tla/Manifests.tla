------------------------------ MODULE Manifests ------------------------------
(***************************************************************************)
(* The commands on the tree of manifests: apply, delete and start with -f  *)
(* (a sequence of documents, sorted by kind and then handled one by one),  *)
(* create namespace, label, edit and context export.  Processes overlap    *)
(* and take no locks; calls to the data directory fail; processes are      *)
(* killed.  The tree is a directory or a bucket: the two remove a          *)
(* directory differently.                                                  *)
(*                                                                         *)
(* An object is a kind in a namespace: one name per kind, and a namespace  *)
(* is the object of kind "namespace" there.  Its value is the version of   *)
(* the document last applied and whether it carries the label; the label   *)
(* is only set by the label command.  Starting and stopping an App is one  *)
(* step here (AppLifecycle has the details).  Empty directories are left   *)
(* out: every reader looks for the manifest in them.                       *)
(***************************************************************************)
EXTENDS Naturals, Sequences, FiniteSets

CONSTANTS
    Process,    \* slots for whctl processes
    Namespace,  \* names of namespaces
    Version,    \* what a document says, beyond its kind and namespace
    None,       \* no value
    Object,     \* the objects there are, records of kind and ns
    Offers,     \* functions from Process to the commands it may be given
    Faults      \* TRUE: calls may fail and processes may be killed

(* registry.go: lower is applied first. *)
ApplyOrder == [namespace |-> 1, secret |-> 4, configmap |-> 4, app |-> 5, job |-> 5]
Kind == DOMAIN ApplyOrder

Document == [kind : Kind \union {"unknown"}, ns : Namespace, version : Version]
Verb == {"apply", "delete", "start", "create", "label", "edit", "export"}
AllRequests == [verb : Verb, docs : Seq(Document), override : Namespace \union {None}, dry : BOOLEAN]
Value == [version : Version, label : BOOLEAN]

ASSUME ConstantsAssumption ==
    /\ None \notin Namespace /\ None \notin Value
    /\ Object \subseteq [kind : Kind, ns : Namespace]
    /\ \A o \in Object : [kind |-> "namespace", ns |-> o.ns] \in Object
    /\ \A offer \in Offers : offer \in [Process -> SUBSET AllRequests]
    /\ Faults \in BOOLEAN

Step == {"next", "exists", "write", "start", "confirm", "stop", "list", "rm",
         "labels", "save", "open", "edit", "names", "read"}
Outcome == {"idle", "ok", "refused", "broken"}

VARIABLES
    backend,    \* "local" or "s3"
    manifest,   \* manifest[o]: its value, or None
    generated,  \* objects with generated files beside the manifest
    running,    \* Apps with containers
    offered,    \* the commands each process may be given
    pc,         \* pc[p]: the step p takes next, or how its last command ended
    req,        \* req[p]: its command
    left,       \* left[p]: the documents (for export, the kinds) still to come
    cur,        \* cur[p]: the document p is handling, or has handled last
    keys,       \* keys[p]: files a removal has listed and not deleted (s3)
    seen,       \* seen[p]: the value label or edit has read
    toread,     \* toread[p]: what export has to look for, or to read
    shown,      \* shown[p]: what export has written out
    witnessed,  \* history: witnessed[p][o], every value o had since p began
    alone,      \* history: no other command since p began
    skipped,    \* history: a key was not deleted and p did not notice
    overlooked  \* history: Apps that a stop took for not deployed while they ran

containers == <<running, overlooked>>
tree == <<manifest, generated, containers>>
work == <<left, cur, keys, seen, toread, shown>>
vars == <<backend, manifest, generated, running, offered, pc, req, left, cur, keys,
          seen, toread, shown, witnessed, alone, skipped, overlooked>>

Plain(v) == [version |-> v, label |-> FALSE]
Place(kind, ns) == [kind |-> kind, ns |-> ns]
Busy(p) == pc[p] \in Step

(* A file is the manifest of an object, or what was generated beside it. *)
File == {"manifest", "generated"} \X Object
Present == {f \in File : IF f[1] = "manifest" THEN manifest[f[2]] # None
                         ELSE f[2] \in generated}
Inside(o) == IF o.kind = "namespace" THEN {i \in Object : i.ns = o.ns} ELSE {o}

Nowhere == [o \in Object |-> {}]
Nothing == [verb |-> "export", docs |-> <<>>, override |-> None, dry |-> FALSE]

TypeOK ==
    /\ backend \in {"local", "s3"} /\ offered \in Offers
    /\ manifest \in [Object -> Value \union {None}]
    /\ generated \subseteq Object /\ running \subseteq Object /\ overlooked \subseteq Object
    /\ pc \in [Process -> Step \union Outcome]
    /\ req \in [Process -> AllRequests] 
    /\ left \in [Process -> SUBSET Nat] /\ cur \in [Process -> Nat]
    /\ \A p \in Process : left[p] \subseteq 1..Len(req[p].docs)
    /\ keys \in [Process -> SUBSET File]
    /\ seen \in [Process -> Value \union {None}]
    /\ toread \in [Process -> SUBSET ({"list", "read"} \X Object)]
    /\ shown \in [Process -> [Object -> Value \union {None}]]
    /\ witnessed \in [Process -> [Object -> SUBSET (Value \union {None})]]
    /\ alone \in [Process -> BOOLEAN] /\ skipped \in [Process -> BOOLEAN]

Init ==
    /\ backend \in {"local", "s3"} /\ offered \in Offers
    /\ manifest = [o \in Object |-> None] /\ generated = {} /\ running = {}
    /\ pc = [p \in Process |-> "idle"] /\ req = [p \in Process |-> Nothing]
    /\ left = [p \in Process |-> {}] /\ cur = [p \in Process |-> 0] /\ keys = [p \in Process |-> {}]
    /\ seen = [p \in Process |-> None] /\ toread = [p \in Process |-> {}]
    /\ shown = [p \in Process |-> [o \in Object |-> None]]
    /\ witnessed = [p \in Process |-> Nowhere] /\ alone = [p \in Process |-> FALSE]
    /\ skipped = [p \in Process |-> FALSE] /\ overlooked = {}

-----------------------------------------------------------------------------
(* The documents of a command and the order they are handled in. *)

(* Mutant: all kinds have the same rank. *)
RankFlat(kind) == 0

(* Documents of unknown kind are neither less nor greater than any other, so *)
(* the stable sort (insertion, for up to 20 documents) moves none past them: *)
(* it sorts each stretch between two of them by kind, then by place.         *)
Rank(kind) == IF kind \in Kind THEN ApplyOrder[kind] ELSE 6
Stretch(ds, i) == Cardinality({k \in 1..(i - 1) : ds[k].kind \notin Kind})

(* Mutant: the sort is not stable. *)
SortedUnstable(ds, i, j) ==
    \/ Stretch(ds, i) < Stretch(ds, j)
    \/ /\ Stretch(ds, i) = Stretch(ds, j)
       /\ \/ Rank(ds[i].kind) < Rank(ds[j].kind)
          \/ Rank(ds[i].kind) = Rank(ds[j].kind) /\ i > j

Sorted(ds, i, j) ==
    \/ Stretch(ds, i) < Stretch(ds, j)
    \/ /\ Stretch(ds, i) = Stretch(ds, j)
       /\ \/ Rank(ds[i].kind) < Rank(ds[j].kind)
          \/ Rank(ds[i].kind) = Rank(ds[j].kind) /\ i < j

(* Only -f sorts its documents; export takes its kinds as they are listed. *)
Before(r, i, j) == IF r.verb \in {"apply", "delete", "start"} THEN Sorted(r.docs, i, j) ELSE i < j

(* -n replaces the namespace of the document; apply then insists they agree. *)
Target(r, d) ==
    Place(d.kind, IF r.override # None /\ d.kind # "namespace" THEN r.override ELSE d.ns)
Supports(verb, kind) ==
    CASE verb = "start" -> kind = "app" [] verb = "create" -> kind = "namespace" [] OTHER -> TRUE
Accepted(r, d) ==
    /\ d.kind \in Kind
    /\ Supports(r.verb, d.kind)
    /\ r.verb = "apply" => Target(r, d) = Place(d.kind, d.ns)

Offered == UNION {offer[p] : offer \in Offers, p \in Process}

ASSUME TargetsAssumption ==
    \A r \in Offered : \A i \in 1..Len(r.docs) :
        r.docs[i].kind \in Kind => Target(r, r.docs[i]) \in Object

Cur(p) == req[p].docs[cur[p]]
Obj(p) == Target(req[p], Cur(p))
FirstStep == [apply |-> "exists", create |-> "exists", delete |-> "exists", start |-> "start",
              label |-> "labels", edit |-> "open", export |-> "names"]

-----------------------------------------------------------------------------
(* What steps have in common. *)

At(p, step) == pc[p] = step
Goto(p, step) == pc' = [pc EXCEPT ![p] = step]
NextDoc(p) == Goto(p, "next")
Keep == UNCHANGED <<backend, offered, req, alone, skipped>>

Watch == witnessed' = [q \in Process |-> [o \in Object |->
             IF Busy(q) THEN witnessed[q][o] \union {manifest'[o]} ELSE witnessed[q][o]]]

Forget(p) ==
    /\ keys' = [keys EXCEPT ![p] = {}] /\ seen' = [seen EXCEPT ![p] = None]
    /\ toread' = [toread EXCEPT ![p] = {}]
    /\ shown' = [shown EXCEPT ![p] = [o \in Object |-> None]]
    /\ left' = [left EXCEPT ![p] = {}] /\ cur' = [cur EXCEPT ![p] = 0]
End(p, outcome) ==
    /\ Goto(p, outcome) /\ Forget(p)
    /\ witnessed' = [witnessed EXCEPT ![p] = Nowhere]
    /\ Keep

Begin(p) ==
    /\ ~Busy(p)
    /\ \E r \in offered[p] :
         /\ req' = [req EXCEPT ![p] = r]
         /\ left' = [left EXCEPT ![p] = 1..Len(r.docs)]
    /\ Goto(p, "next")
    /\ witnessed' = [witnessed EXCEPT ![p] = [o \in Object |-> {manifest[o]}]]
    /\ alone' = [q \in Process |-> q = p /\ \A o \in Process \ {p} : ~Busy(o)]
    /\ skipped' = [skipped EXCEPT ![p] = FALSE]
    /\ UNCHANGED <<backend, offered, tree, cur, keys, seen, toread, shown>>

(* A call fails or the process is killed. *)
Break(p) ==
    /\ Busy(p) /\ Faults
    /\ End(p, "broken") /\ UNCHANGED tree

NextDocument(p) ==
    /\ At(p, "next")
    /\ \/ left[p] = {} /\ End(p, "ok") /\ UNCHANGED tree
       \/ \E i \in left[p] :
            /\ \A j \in left[p] \ {i} : Before(req[p], i, j)
            /\ \/ ~Accepted(req[p], req[p].docs[i]) /\ End(p, "refused") /\ UNCHANGED tree
               \/ /\ Accepted(req[p], req[p].docs[i])
                  /\ cur' = [cur EXCEPT ![p] = i] /\ left' = [left EXCEPT ![p] = @ \ {i}]
                  /\ Goto(p, FirstStep[req[p].verb])
                  /\ UNCHANGED <<tree, keys, seen, toread, shown, witnessed>> /\ Keep

-----------------------------------------------------------------------------
(* apply, create and the end of edit; start. *)

Puts(p) == req[p].verb \in {"apply", "create", "edit"}

ApplyExists(p) ==
    /\ At(p, "exists") /\ Puts(p)
    /\ \/ /\ req[p].verb = "create" /\ manifest[Obj(p)] # None
          /\ End(p, "refused") /\ UNCHANGED tree
       \/ /\ req[p].verb = "create" => manifest[Obj(p)] = None
          /\ IF req[p].dry THEN NextDoc(p) ELSE Goto(p, "write")
          /\ UNCHANGED <<tree, work, witnessed>> /\ Keep

Wanted(p) == IF req[p].verb = "edit" THEN [seen[p] EXCEPT !.version = Cur(p).version]
             ELSE Plain(Cur(p).version)

WriteManifest(p) ==
    /\ At(p, "write")
    /\ manifest' = [manifest EXCEPT ![Obj(p)] = Wanted(p)] /\ Watch
    /\ IF Obj(p).kind = "app" THEN Goto(p, "start") ELSE NextDoc(p)
    /\ UNCHANGED <<generated, containers, work>> /\ Keep

(* An App reads its own manifest, its namespace, and the secret if there is one. *)
Needs(o) == {o, Place("namespace", o.ns)} \union ({Place("secret", o.ns)} \intersect Object)

StartApp(p) ==
    /\ At(p, "start")
    /\ \/ /\ \E o \in Needs(Obj(p)) : manifest[o] = None
          /\ End(p, "refused") /\ UNCHANGED tree
       \/ /\ \A o \in Needs(Obj(p)) : manifest[o] # None
          /\ generated' = generated \union {Obj(p)}
          /\ \/ /\ IF req[p].dry THEN UNCHANGED containers
                   ELSE /\ running' = running \union {Obj(p)}
                        /\ overlooked' = overlooked \ {Obj(p)}
                /\ NextDoc(p) /\ UNCHANGED <<manifest, work, witnessed>> /\ Keep
             \/ Faults /\ End(p, "broken") /\ UNCHANGED <<manifest, containers>>

-----------------------------------------------------------------------------
(* delete *)

(* Mutant: what is not there counts as deleted. *)
DeleteExistsLenient(p) ==
    /\ At(p, "exists") /\ req[p].verb = "delete"
    /\ IF manifest[Obj(p)] = None \/ req[p].dry THEN NextDoc(p) ELSE Goto(p, "confirm")
    /\ UNCHANGED <<tree, work, witnessed>> /\ Keep

DeleteExists(p) ==
    /\ At(p, "exists") /\ req[p].verb = "delete"
    /\ \/ manifest[Obj(p)] = None /\ End(p, "refused") /\ UNCHANGED tree
       \/ /\ manifest[Obj(p)] # None
          /\ IF req[p].dry THEN NextDoc(p) ELSE Goto(p, "confirm")
          /\ UNCHANGED <<tree, work, witnessed>> /\ Keep

Confirm(p) ==
    /\ At(p, "confirm")
    /\ \/ End(p, "refused") /\ UNCHANGED tree
       \/ /\ Goto(p, IF Obj(p).kind = "app" THEN "stop" ELSE "list")
          /\ UNCHANGED <<tree, work, witnessed>> /\ Keep

(* The pre-delete hook of an App.  It reads the namespace, and not the App. *)
(* A probe that fails reads as "not deployed": the containers run on, with  *)
(* the files on the host gone.                                              *)
StopApp(p) ==
    /\ At(p, "stop")
    /\ \/ /\ manifest[Place("namespace", Obj(p).ns)] = None
          /\ End(p, "refused") /\ UNCHANGED tree
       \/ /\ manifest[Place("namespace", Obj(p).ns)] # None
          /\ \/ running' = running \ {Obj(p)} /\ overlooked' = overlooked \ {Obj(p)}
             \/ Faults /\ overlooked' = overlooked \union ({Obj(p)} \intersect running) /\ running' = running
          /\ Goto(p, "list")
          /\ UNCHANGED <<manifest, generated, work, witnessed>> /\ Keep

(* Mutant: the prefix of a directory is taken without its slash. *)
UnderPrefix(o) == {f \in Present : o.kind = "namespace" \/ f[2] = o}

(* A bucket is listed once; a directory is walked until it is empty. *)
Under(o) == {f \in Present : f[2] \in Inside(o)}
ListKeys(p) ==
    /\ At(p, "list")
    /\ keys' = [keys EXCEPT ![p] = IF backend = "s3" THEN Under(Obj(p)) ELSE {}]
    /\ Goto(p, "rm")
    /\ UNCHANGED <<tree, left, cur, seen, toread, shown, witnessed>> /\ Keep
Remaining(p) == IF backend = "s3" THEN keys[p] ELSE Under(Obj(p))

RemoveFile(p) ==
    /\ At(p, "rm")
    /\ \E f \in Remaining(p) :
         /\ manifest' = IF f[1] = "manifest" THEN [manifest EXCEPT ![f[2]] = None] ELSE manifest
         /\ generated' = IF f[1] = "manifest" THEN generated ELSE generated \ {f[2]}
         /\ keys' = [keys EXCEPT ![p] = @ \ {f}]
    /\ Watch
    /\ UNCHANGED <<containers, pc, left, cur, seen, toread, shown>> /\ Keep

(* DeleteObjects answers per key, and the answer is not looked at. *)
SkipKey(p) ==
    /\ At(p, "rm") /\ Faults
    /\ \E f \in keys[p] : keys' = [keys EXCEPT ![p] = @ \ {f}]
    /\ skipped' = [skipped EXCEPT ![p] = TRUE]
    /\ UNCHANGED <<backend, offered, tree, pc, req, left, cur, seen, toread, shown, witnessed, alone>>

RemoveDone(p) ==
    /\ At(p, "rm") /\ Remaining(p) = {}
    /\ NextDoc(p) /\ UNCHANGED <<tree, work, witnessed>> /\ Keep

-----------------------------------------------------------------------------
(* label and edit: read the manifest, and later write all of it. *)

Unlabelled(v) == v # None /\ ~v.label

ReadLabels(p) ==
    /\ At(p, "labels")
    /\ \/ req[p].dry /\ NextDoc(p) /\ UNCHANGED <<tree, work, witnessed>> /\ Keep
       \/ /\ ~req[p].dry /\ ~Unlabelled(manifest[Obj(p)])
          /\ End(p, "refused") /\ UNCHANGED tree
       \/ /\ ~req[p].dry /\ Unlabelled(manifest[Obj(p)])
          /\ seen' = [seen EXCEPT ![p] = manifest[Obj(p)]]
          /\ Goto(p, "save")
          /\ UNCHANGED <<tree, left, cur, keys, toread, shown, witnessed>> /\ Keep

SaveLabels(p) ==
    /\ At(p, "save")
    /\ manifest' = [manifest EXCEPT ![Obj(p)] = [seen[p] EXCEPT !.label = TRUE]] /\ Watch
    /\ NextDoc(p) /\ UNCHANGED <<generated, containers, work>> /\ Keep

OpenEditor(p) ==
    /\ At(p, "open")
    /\ \/ manifest[Obj(p)] = None /\ End(p, "refused") /\ UNCHANGED tree
       \/ /\ manifest[Obj(p)] # None
          /\ seen' = [seen EXCEPT ![p] = manifest[Obj(p)]]
          /\ Goto(p, "edit")
          /\ UNCHANGED <<tree, left, cur, keys, toread, shown, witnessed>> /\ Keep

(* Saved unchanged, emptied, or changed. *)
CloseEditor(p) ==
    /\ At(p, "edit")
    /\ \/ End(p, "refused") /\ UNCHANGED tree
       \/ /\ IF seen[p].version = Cur(p).version THEN NextDoc(p)
             ELSE Goto(p, "exists")
          /\ UNCHANGED <<tree, work, witnessed>> /\ Keep

-----------------------------------------------------------------------------
(* context export: for each kind, the valid namespaces, the names, the bytes. *)

(* Mutant: the directories of a namespace are taken for granted. *)
ListNamespacesBlind(p) ==
    /\ At(p, "names")
    /\ toread' = [toread EXCEPT ![p] = {"list"} \X {Place(Cur(p).kind, ns) : ns \in Namespace}]
    /\ Goto(p, "read")
    /\ UNCHANGED <<tree, left, cur, keys, seen, shown, witnessed>> /\ Keep

ListNamespaces(p) ==
    /\ At(p, "names")
    /\ LET kind == Cur(p).kind
           valid == {o \in Object : /\ o.kind = kind
                                    /\ kind = "namespace" \/ manifest[Place("namespace", o.ns)] # None}
       IN  toread' = [toread EXCEPT ![p] = {"list"} \X valid]
    /\ Goto(p, "read")
    /\ UNCHANGED <<tree, left, cur, keys, seen, shown, witnessed>> /\ Keep

ListOne(p) ==
    /\ At(p, "read")
    /\ \E o \in Object :
         /\ <<"list", o>> \in toread[p]
         /\ toread' = [toread EXCEPT ![p] = (@ \ {<<"list", o>>}) \union
                          (IF manifest[o] = None THEN {} ELSE {<<"read", o>>})]
    /\ UNCHANGED <<tree, pc, left, cur, keys, seen, shown, witnessed>> /\ Keep

ReadOne(p) ==
    /\ At(p, "read")
    /\ \E o \in Object :
         /\ <<"read", o>> \in toread[p]
         /\ \/ manifest[o] = None /\ End(p, "refused") /\ UNCHANGED tree
            \/ /\ manifest[o] # None
               /\ shown' = [shown EXCEPT ![p][o] = manifest[o]]
               /\ toread' = [toread EXCEPT ![p] = @ \ {<<"read", o>>}]
               /\ UNCHANGED <<tree, pc, left, cur, keys, seen, witnessed>> /\ Keep

(* Mutant: the listing ends before everything in it was read. *)
ListedAllEarly(p) ==
    /\ At(p, "read")
    /\ NextDoc(p) /\ UNCHANGED <<tree, work, witnessed>> /\ Keep

ListedAll(p) ==
    /\ At(p, "read") /\ toread[p] = {}
    /\ NextDoc(p) /\ UNCHANGED <<tree, work, witnessed>> /\ Keep

-----------------------------------------------------------------------------
Change(p) ==
    \/ NextDocument(p) \/ ApplyExists(p) \/ WriteManifest(p) \/ StartApp(p)
    \/ DeleteExists(p) \/ Confirm(p) \/ StopApp(p) \/ ListKeys(p) \/ RemoveFile(p)
    \/ SkipKey(p) \/ RemoveDone(p)
    \/ ReadLabels(p) \/ SaveLabels(p) \/ OpenEditor(p) \/ CloseEditor(p)
    \/ ListNamespaces(p) \/ ListOne(p) \/ ReadOne(p) \/ ListedAll(p)

Next == \E p \in Process : Begin(p) \/ Break(p) \/ Change(p)

Spec == Init /\ [][Next]_vars

-----------------------------------------------------------------------------
(* Properties *)

DocsOf(p) == {req[p].docs[i] : i \in 1..Len(req[p].docs)}

(* An apply -f that nothing disturbs is not refused when its documents name  *)
(* known kinds and the needs of each App are among them or already there, in *)
(* whatever order the documents are written and whatever earlier commands    *)
(* broke off: main.go sorts them by ApplyOrder, so running it again          *)
(* completes it.                                                             *)
CompleteSetsApply ==
    \A p \in Process :
        /\ pc[p] = "refused" /\ alone[p] /\ req[p].verb = "apply"
        /\ \A d \in DocsOf(p) : Accepted(req[p], d)
        => \E d \in DocsOf(p) : d.kind = "app" /\
             \E o \in Needs(Target(req[p], d)) :
                manifest[o] = None /\ \A e \in DocsOf(p) : Target(req[p], e) # o

(* An apply -f that reports success, with nothing done since, has stored for *)
(* every object the last document about it, and every App in it runs.        *)
AppliedAll ==
    \A p \in Process :
        pc[p] = "ok" /\ alone[p] /\ req[p].verb = "apply" /\ ~req[p].dry =>
        \A i \in 1..Len(req[p].docs) :
            LET d == req[p].docs[i]  o == Target(req[p], d)
            IN  /\ (\A j \in (i + 1)..Len(req[p].docs) : Target(req[p], req[p].docs[j]) # o) =>
                     manifest[o] = Plain(d.version)
                /\ d.kind = "app" => o \in running

(* A delete -f that reports success has stopped the Apps it names, except    *)
(* those a failing probe has overlooked (app_deploy.go:72).  The namespaces  *)
(* of a file go first and their Apps are then not found (main.go:434): that  *)
(* must not pass for success while containers run.                           *)
DeletedIsStopped ==
    \A p \in Process :
        pc[p] = "ok" /\ alone[p] /\ req[p].verb = "delete" /\ ~req[p].dry =>
        \A d \in DocsOf(p) : Target(req[p], d) \notin running \ overlooked

(* An export that ends well shows only what was stored at some instant since *)
(* it began, and misses an object of the kinds it is for only if it, or its  *)
(* namespace, was absent at some instant since it began.                     *)
ExportTrue(p) ==
    \A o \in Object :
        IF shown[p][o] # None THEN shown[p][o] \in witnessed[p][o]
        ELSE (\E d \in DocsOf(p) : d.kind = o.kind) =>
                 \E n \in {o, Place("namespace", o.ns)} : None \in witnessed[p][n]
ExportIsTrue ==
    [][\A p \in Process : Busy(p) /\ pc'[p] = "ok" /\ req[p].verb = "export" => ExportTrue(p)]_vars

-----------------------------------------------------------------------------
(* The commands implement the store. *)

Operation == [do : {"put", "update", "relabel", "remove"}, obj : Object, version : Version]
Covers(op) == IF op.do = "remove" THEN Inside(op.obj) ELSE {op.obj}
Result(op, o, old) ==
    CASE op.do = "remove" -> {None}
      [] op.do = "put" -> {Plain(op.version)}
      [] op.do = "update" -> IF old = None THEN {} ELSE {[old EXCEPT !.version = op.version]}
      [] op.do = "relabel" -> IF old = None THEN {} ELSE {[old EXCEPT !.label = TRUE]}

Doing == [apply |-> "put", create |-> "put", edit |-> "update", label |-> "relabel",
          delete |-> "remove"]
Batch(r) ==
    IF r.verb \notin DOMAIN Doing \/ r.dry THEN {}
    ELSE {[do |-> Doing[r.verb], obj |-> Target(r, d), version |-> d.version] :
            d \in {r.docs[i] : i \in {j \in 1..Len(r.docs) : r.docs[j].kind \in Kind}}}

(* A removal that left a key behind has failed, whatever it reported. *)
Status(p) ==
    CASE Busy(p) -> "busy"
      [] pc[p] \in {"refused", "broken"} \/ (pc[p] = "ok" /\ skipped[p]) -> "failed"
      [] OTHER -> pc[p]

Store == INSTANCE ResourceStore WITH
    store <- manifest,
    batch <- [p \in Process |-> Batch(req[p])],
    status <- [p \in Process |-> Status(p)]

(* Every command changes the manifests only as its operations say, and       *)
(* reports success only when each of them was done: the abstract store.      *)
(* Excepted is a removal from a bucket that skipped a key (s3.go:181).       *)
StoreSpec == Store!Spec
=============================================================================
