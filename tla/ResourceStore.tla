---------------------------- MODULE ResourceStore ----------------------------
(***************************************************************************)
(* What the commands on manifests promise, whatever they do underneath: a  *)
(* command is a set of operations on a store of objects.  It changes the   *)
(* store one object at a time and only as one of its operations says, and  *)
(* when it reports success, each of its operations held at some instant    *)
(* since it began.  When it fails it has done a part.  Commands overlap    *)
(* and take no locks, so an update can be based on a value that is gone.   *)
(***************************************************************************)
CONSTANTS
    Process,            \* slots for processes
    Object,             \* what can be stored
    Value,              \* what an object can hold
    None,               \* no value: the object is absent
    Operation,          \* what a command can be asked to do
    Covers(_),          \* Covers(op): the objects an operation is about
    Result(_, _, _)     \* Result(op, o, old): what op can make of o, having seen old

VARIABLES
    store,      \* store[o]: the value of o, or None
    batch,      \* batch[p]: the operations of the command of p
    status,     \* status[p]: "idle", "busy", "ok" or "failed"
    witnessed   \* witnessed[p][o]: every value o had since p began

vars == <<store, batch, status, witnessed>>

Nowhere == [o \in Object |-> {}]
Contents == [o \in Object |-> {store[o]}]

Init ==
    /\ store \in [Object -> Value \union {None}]
    /\ batch = [p \in Process |-> {}]
    /\ status = [p \in Process |-> "idle"]
    /\ witnessed = [p \in Process |-> Nowhere]

Begin(p) ==
    /\ status[p] # "busy"
    /\ batch' = [batch EXCEPT ![p] = batch'[p]] /\ batch'[p] \subseteq Operation
    /\ status' = [status EXCEPT ![p] = "busy"]
    /\ witnessed' = [witnessed EXCEPT ![p] = Contents]
    /\ UNCHANGED store

(* One object takes a value that an operation of p gives it. *)
Change(p) ==
    /\ status[p] = "busy"
    /\ \E op \in batch[p] : \E o \in Covers(op) : \E old \in witnessed[p][o] :
         \E v \in Result(op, o, old) : store' = [store EXCEPT ![o] = v]
    /\ witnessed' = [q \in Process |-> [o \in Object |->
                       IF status[q] = "busy" THEN witnessed[q][o] \union {store'[o]}
                       ELSE witnessed[q][o]]]
    /\ UNCHANGED <<batch, status>>

(* An operation is done when each of its objects once had such a value. *)
Done(p, op) ==
    \A o \in Covers(op) : \E old \in witnessed[p][o] :
        Result(op, o, old) \intersect witnessed[p][o] # {}

Finish(p) ==
    /\ status[p] = "busy"
    /\ \A op \in batch[p] : Done(p, op)
    /\ status' = [status EXCEPT ![p] = "ok"]
    /\ witnessed' = [witnessed EXCEPT ![p] = Nowhere]
    /\ UNCHANGED <<store, batch>>

Fail(p) ==
    /\ status[p] = "busy"
    /\ status' = [status EXCEPT ![p] = "failed"]
    /\ witnessed' = [witnessed EXCEPT ![p] = Nowhere]
    /\ UNCHANGED <<store, batch>>

Next == \E p \in Process : Begin(p) \/ Change(p) \/ Finish(p) \/ Fail(p)

Spec == Init /\ [][Next]_vars
=============================================================================
