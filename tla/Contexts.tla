------------------------------ MODULE Contexts ------------------------------
(***************************************************************************)
(* The configuration file (~/.walheim/config) and the commands that use    *)
(* it: context new, use and delete read it, change what they read and      *)
(* write all of it back; every other command reads it once to find the     *)
(* store it acts on.  Processes overlap, no lock is taken.                 *)
(*                                                                         *)
(* A change is saved by renaming a temporary file.  context new writes a   *)
(* skeleton first when it cannot read the file, for whatever reason, and   *)
(* that write is in place: truncate, then write.  The file is a sequence   *)
(* of contexts and the name of the current one.                            *)
(***************************************************************************)
EXTENDS Naturals, Sequences

CONSTANTS
    Process,    \* slots for whctl processes
    Name,       \* names a context can be given
    NoName,     \* the empty string: no current context, or an empty argument
    Requests,   \* the commands that are issued, see AllRequests
    Faults,     \* TRUE: calls may fail and processes may be killed
    HandEdits   \* TRUE: the user edits currentContext in the file

AnyName == Name \union {NoName}
Backend == {"local", "s3"}
Verb == {"new", "use", "delete", "run"}
AllRequests == [verb : Verb, name : AnyName, backend : Backend]

ASSUME ConstantsAssumption ==
    /\ NoName \notin Name
    /\ Requests \subseteq AllRequests
    /\ Faults \in BOOLEAN /\ HandEdits \in BOOLEAN

Context == [name : AnyName, backend : Backend]
Config == [contexts : Seq(Context), current : AnyName]
Skeleton == [contexts |-> <<>>, current |-> NoName]
File == [state : {"absent", "torn", "written"}, config : Config]
Absent == [state |-> "absent", config |-> Skeleton]
Torn == [state |-> "torn", config |-> Skeleton]
Written(c) == [state |-> "written", config |-> c]

(* It is not there, it is, or context new went on without it. *)
Place == {"absent", "directory", "passed"}
Step == {"start", "load", "truncate", "skeleton", "ping", "save"}
Nothing == [verb |-> "run", name |-> NoName, backend |-> "local"]

VARIABLES
    file,      \* the configuration file
    nsDir,     \* nsDir[n]: namespaces/ of the local data directory of n, see Place
    pc,        \* pc[p]: the step process p takes next
    req,       \* req[p]: its command line
    seen,      \* seen[p]: the file as p read or wrote it last; p changes its config
    made,      \* history: names of the contexts added and not deleted since
    selected,  \* history: the context last activated, NoName once deleted
    excused,   \* history: one of the causes below has occurred
    edited     \* history: the user left an unknown current context in the file

local == <<pc, req, seen>>
history == <<made, selected, excused, edited>>
vars == <<file, nsDir, pc, req, seen, made, selected, excused, edited>>

TypeOK ==
    /\ file \in File
    /\ nsDir \in [AnyName -> Place]
    /\ pc \in [Process -> Step \union {"idle"}]
    /\ req \in [Process -> AllRequests]
    /\ seen \in [Process -> File]
    /\ made \subseteq AnyName /\ selected \in AnyName
    /\ excused \in BOOLEAN /\ edited \in BOOLEAN
    /\ file.state # "written" => file.config = Skeleton
    /\ \A p \in Process : pc[p] \in {"ping", "save"} => seen[p].state = "written"

Init ==
    /\ file = Absent
    /\ nsDir = [n \in AnyName |-> "absent"]
    /\ pc = [p \in Process |-> "idle"]
    /\ req = [p \in Process |-> Nothing]
    /\ seen = [p \in Process |-> Absent]
    /\ made = {} /\ selected = NoName /\ excused = FALSE /\ edited = FALSE

-----------------------------------------------------------------------------
(* What is done to a configuration in memory. *)

NameAt(c, i) == c.contexts[i].name
Names(c) == {NameAt(c, i) : i \in DOMAIN c.contexts}
Unique(c) == \A i, j \in DOMAIN c.contexts : NameAt(c, i) = NameAt(c, j) => i = j

(* What validate accepts; apiVersion, kind and the fields of a store are left out. *)
Valid(c) ==
    /\ c.contexts # <<>>
    /\ NoName \notin Names(c)
    /\ Unique(c)
    /\ c.current \in Names(c) \union {NoName}

Readable(f) == f.state = "written" /\ Valid(f.config)

AddContext(c, name, backend) ==
    [contexts |-> Append(c.contexts, [name |-> name, backend |-> backend]), current |-> name]

UseContext(c, name) == [c EXCEPT !.current = name]

(* Mutant: the current context is not cleared when it is deleted. *)
DeleteContextKeepingCurrent(c, name) ==
    [c EXCEPT !.contexts = SelectSeq(@, LAMBDA x : x.name # name)]

(* Mutant: deleting a context clears the current one, whichever it is. *)
DeleteContextClearing(c, name) ==
    [contexts |-> SelectSeq(c.contexts, LAMBDA x : x.name # name), current |-> NoName]

DeleteContext(c, name) ==
    LET k == CHOOSE i \in DOMAIN c.contexts : NameAt(c, i) = name
    IN [contexts |-> [i \in 1 .. Len(c.contexts) - 1 |->
                          IF i < k THEN c.contexts[i] ELSE c.contexts[i + 1]],
        current |-> IF c.current = name THEN NoName ELSE c.current]

(* new refuses a name that is taken, the others one that is not. *)
Allowed(c, r) == IF r.verb = "new" THEN r.name \notin Names(c) ELSE r.name \in Names(c)

Changed(c, r) ==
    CASE r.verb = "new" -> AddContext(c, r.name, r.backend)
      [] r.verb = "use" -> UseContext(c, r.name)
      [] r.verb = "delete" -> DeleteContext(c, r.name)

(* The context a command acts on: the one it names, or the current one. *)
ContextForName(c, name) == IF name = NoName THEN c.current ELSE name

-----------------------------------------------------------------------------
(* The steps of a process. *)

At(p, step) == pc[p] = step
Goto(p, step) == pc' = [pc EXCEPT ![p] = step]
Exit(p) ==
    /\ pc' = [pc EXCEPT ![p] = "idle"]
    /\ req' = [req EXCEPT ![p] = Nothing]
    /\ seen' = [seen EXCEPT ![p] = Absent]

(***************************************************************************)
(* What was asked for and given, as long as nothing excuses its loss:      *)
(* made, selected and the cause of a loss at this step.  A write over a    *)
(* file other than the one the process saw is such a cause.                *)
(***************************************************************************)
Note(nowMade, nowSelected, because) ==
    /\ excused' = (excused \/ because)
    /\ made' = IF excused' THEN {} ELSE nowMade
    /\ selected' = IF excused' THEN NoName ELSE nowSelected

Begin(p) ==
    /\ At(p, "idle")
    /\ \E r \in Requests :
         /\ req' = [req EXCEPT ![p] = r]
         /\ Goto(p, IF r.verb = "new" THEN "start" ELSE "load")
    /\ UNCHANGED <<file, nsDir, seen, history>>

(* A call returns an error and had no effect, or the process is killed. *)
Leave(p) ==
    /\ Faults /\ ~At(p, "idle")
    /\ Exit(p)
    /\ UNCHANGED <<file, nsDir, history>>

(* Mutant: the namespaces directory is left to the first command that needs it. *)
PrepareNothing(p) ==
    /\ At(p, "start")
    /\ Goto(p, "load")
    /\ UNCHANGED <<file, nsDir, req, seen, history>>

(* new checks its arguments.  For a local store it creates namespaces/ if  *)
(* Stat says that nothing is there; a file of that name, and an error of   *)
(* Stat that says anything else, pass for the directory.                   *)
Prepare(p) ==
    LET n == req[p].name IN
    /\ At(p, "start")
    /\ \/ req[p].backend = "s3" /\ UNCHANGED nsDir
       \/ req[p].backend = "local" /\ nsDir' = [nsDir EXCEPT ![n] = "directory"]
       \/ /\ req[p].backend = "local" /\ nsDir[n] # "directory"
          /\ nsDir' = [nsDir EXCEPT ![n] = "passed"]
    /\ Goto(p, "load")
    /\ UNCHANGED <<file, req, seen, history>>

(* runContextNewS3 asks for the bucket once it has the configuration. *)
AfterLoad(r) == IF r.verb = "new" /\ r.backend = "s3" THEN "ping" ELSE "save"

(* Mutant: a missing file is not told from one that was read. *)
LoadUnchecked(p) ==
    /\ At(p, "load")
    /\ seen' = [seen EXCEPT ![p] = file]
    /\ Goto(p, AfterLoad(req[p]))
    /\ UNCHANGED <<file, nsDir, req, history>>

(* Every other command has its answer here, the context it acts on, or ends. *)
Load(p) ==
    /\ At(p, "load")
    /\ Readable(file) /\ req[p].verb # "run"
    /\ seen' = [seen EXCEPT ![p] = file]
    /\ Goto(p, AfterLoad(req[p]))
    /\ UNCHANGED <<file, nsDir, req, history>>

Resolve(p) ==
    /\ At(p, "load")
    /\ Readable(file) /\ req[p].verb = "run"
    /\ Exit(p)
    /\ UNCHANGED <<file, nsDir, history>>

(* new starts from a skeleton if the file is missing, invalid or fails to be read. *)
LoadFails(p) ==
    /\ At(p, "load")
    /\ Faults \/ ~Readable(file)
    /\ IF req[p].verb = "new"
       THEN Goto(p, "truncate") /\ seen' = [seen EXCEPT ![p] = file] /\ req' = req
       ELSE Exit(p)
    /\ UNCHANGED <<file, nsDir, history>>

(* config.Init, os.WriteFile: first the old contents go, then the skeleton is written. *)
Truncate(p) ==
    /\ At(p, "truncate")
    /\ file' = Torn
    /\ seen' = [seen EXCEPT ![p] = Torn]
    /\ Note(made, selected, file # seen[p] \/ Readable(seen[p]))
    /\ Goto(p, "skeleton")
    /\ UNCHANGED <<nsDir, req, edited>>

WriteSkeleton(p) ==
    /\ At(p, "skeleton")
    /\ file' = Written(Skeleton)
    /\ seen' = [seen EXCEPT ![p] = Written(Skeleton)]
    /\ Note(made, selected, file # seen[p])
    /\ Goto(p, AfterLoad(req[p]))
    /\ UNCHANGED <<nsDir, req, edited>>

Ping(p) ==
    /\ At(p, "ping")
    /\ Goto(p, "save")
    /\ UNCHANGED <<file, nsDir, req, seen, history>>

Refuse(p) ==
    /\ At(p, "save")
    /\ ~Allowed(seen[p].config, req[p])
    /\ Exit(p)
    /\ UNCHANGED <<file, nsDir, history>>

NoteDone(p, r) ==
    Note(CASE r.verb = "new" -> made \union {r.name}
           [] r.verb = "use" -> made
           [] r.verb = "delete" -> made \ {r.name},
         IF r.verb # "delete" THEN r.name ELSE IF selected = r.name THEN NoName ELSE selected,
         file # seen[p] \/ r.name = NoName)

(* Mutant: the configuration is written in place, and the write can break off. *)
SaveInPlace(p) ==
    /\ At(p, "save")
    /\ Allowed(seen[p].config, req[p])
    /\ \/ /\ file' = Written(Changed(seen[p].config, req[p]))
          /\ NoteDone(p, req[p])
       \/ /\ Faults /\ file' = Torn
          /\ UNCHANGED <<made, selected, excused>>
    /\ Exit(p)
    /\ UNCHANGED <<nsDir, edited>>

(* The change in memory and Config.Save: a temporary file is renamed to the file. *)
Save(p) ==
    /\ At(p, "save")
    /\ Allowed(seen[p].config, req[p])
    /\ file' = Written(Changed(seen[p].config, req[p]))
    /\ NoteDone(p, req[p])
    /\ Exit(p)
    /\ UNCHANGED <<nsDir, edited>>

(* The user names another current context in an editor, a known one or not. *)
HandEdit(n) ==
    /\ HandEdits /\ file.state = "written"
    /\ file' = Written(UseContext(file.config, n))
    /\ edited' = (edited \/ n \notin Names(file.config) \union {NoName})
    /\ Note(made, n, edited')
    /\ UNCHANGED <<nsDir, local>>

Next ==
    \/ \E p \in Process :
         \/ Begin(p) \/ Leave(p)
         \/ Prepare(p) \/ Load(p) \/ Resolve(p) \/ LoadFails(p) \/ Truncate(p)
         \/ WriteSkeleton(p) \/ Ping(p) \/ Refuse(p) \/ Save(p)
    \/ \E n \in AnyName : HandEdit(n)

Spec == Init /\ [][Next]_vars

-----------------------------------------------------------------------------
(* Properties. *)

Sound(c) == Unique(c) /\ c.current \in Names(c) \union {NoName}

(***************************************************************************)
(* However commands overlap and break off, the file never holds two        *)
(* contexts of one name or a current context that it does not list         *)
(* (config.go:360), unless the user put it there: each Save replaces the   *)
(* whole file by a change of a sound one.                                  *)
(***************************************************************************)
FileSound == ~edited => Sound(file.config)

(***************************************************************************)
(* A context that was added stays until it is deleted, and a deleted one   *)
(* stays away, through any failing call and kill, with four exceptions: a  *)
(* process overwrote a file it had not read; the name added was the empty  *)
(* string; a readable file failed to be read; the user left an unknown     *)
(* current context.  Otherwise loadOrInitConfig (context.go:376) truncates *)
(* the file only while it lists nothing.                                   *)
(***************************************************************************)
NothingLost == ~excused => Names(file.config) = made

(***************************************************************************)
(* Under the same condition commands without --context act on the context  *)
(* that was activated last, and on none after it was deleted: the          *)
(* selection survives unrelated changes (config.go:295, :321).             *)
(***************************************************************************)
SelectionKept == ~excused => file.config.current = selected

(***************************************************************************)
(* Whatever overlaps, fails or is killed, a local context is not in the    *)
(* file before its data directory has a namespaces directory, or something *)
(* that context new took for one: it creates the directory only if the     *)
(* error of Stat is a not-exist, and saves the context after any other     *)
(* error, or with a file of that name, too (context.go:185), where the     *)
(* documents say that it is created if missing (design_constraints.md:91). *)
(***************************************************************************)
LocalNames(c) ==
    {NameAt(c, i) : i \in {j \in DOMAIN c.contexts : c.contexts[j].backend = "local"}}

ContextsPrepared ==
    \A n \in LocalNames(file.config) : nsDir[n] # "absent"

=============================================================================
