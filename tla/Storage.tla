------------------------------ MODULE Storage ------------------------------
(***************************************************************************)
(* The storage component (src/components/storage.c): four operations       *)
(* over Zephyr's NVS.  Every nvs_read, nvs_write and nvs_delete holds the  *)
(* file system's own mutex, so each is one step here; storage.c takes no   *)
(* lock of its own, so between two NVS calls of one operation any other    *)
(* thread may run its calls.  An update is a delete followed by a create.  *)
(***************************************************************************)
CONSTANTS
    Threads,   \* threads that call the component
    NvsIds,    \* the valid members of enum baiatool_storage_id
    Data,      \* the objects callers store
    Absent,    \* what NVS holds for an id without an object
    Kinds,     \* the operations callers issue
    IOFaults,  \* whether an NVS call may return an error other than -ENOENT
    Restarts   \* whether the board may restart between two NVS calls

AllKinds == {"read", "create", "update", "delete"}

ASSUME StorageAssumption ==
    /\ NvsIds # {}
    /\ Absent \notin Data
    /\ Kinds \subseteq AllKinds
    /\ IOFaults \in BOOLEAN
    /\ Restarts \in BOOLEAN

VARIABLES
    nvs,   \* flash contents: the object of each id
    pc,    \* the NVS call each thread makes next
    call,  \* the operation each thread is in
    ret    \* the code the operation of each thread returned

vars == <<nvs, pc, call, ret>>

Calls == [kind : AllKinds, id : NvsIds, data : Data \cup {Absent}]

Codes == {"none", "ok", "zero", "ENODATA", "ENOTEMPTY", "EIO"}

Steps == {"idle", "fetch", "look", "erase", "probe", "write", "returned"}

TypeOK ==
    /\ nvs \in [NvsIds -> Data \cup {Absent}]
    /\ pc \in [Threads -> Steps]
    /\ call \in [Threads -> Calls]
    /\ ret \in [Threads -> Codes]

\* Only the operations that store something have a data argument.
Argument(kind) == IF kind \in {"create", "update"} THEN Data ELSE {Absent}

\* The value of call for a thread outside every operation.
NoCall == [kind |-> "read", id |-> CHOOSE i \in NvsIds : TRUE, data |-> Absent]

QuietThreads ==
    /\ pc = [t \in Threads |-> "idle"]
    /\ call = [t \in Threads |-> NoCall]
    /\ ret = [t \in Threads |-> "none"]

Init ==
    /\ nvs \in [NvsIds -> Data \cup {Absent}]
    /\ QuietThreads
-----------------------------------------------------------------------------
Id(t) == call[t].id

Stored(i) == nvs[i] # Absent

Goto(t, s) ==
    /\ pc' = [pc EXCEPT ![t] = s]
    /\ UNCHANGED ret

Return(t, code) ==
    /\ pc' = [pc EXCEPT ![t] = "returned"]
    /\ ret' = [ret EXCEPT ![t] = code]

\* Mutant: a create that erases first.
FirstStepErases(kind) == IF kind = "read" THEN "fetch" ELSE "look"

FirstStep(kind) ==
    CASE kind = "read"               -> "fetch"
      [] kind = "create"             -> "probe"
      [] kind \in {"update", "delete"} -> "look"

\* A thread enters one of the four operations.
Call(t, kind, i, d) ==
    /\ pc[t] = "idle"
    /\ call' = [call EXCEPT ![t] = [kind |-> kind, id |-> i, data |-> d]]
    /\ pc' = [pc EXCEPT ![t] = FirstStep(kind)]
    /\ UNCHANGED <<nvs, ret>>

\* baiatool_storage_read (what it read stays with the caller): every failure of nvs_read becomes -ENODATA.
Fetch(t) ==
    /\ pc[t] = "fetch"
    /\ \/ /\ Stored(Id(t))
          /\ Return(t, "ok")
       \/ /\ ~Stored(Id(t)) \/ IOFaults
          /\ Return(t, "ENODATA")
    /\ UNCHANGED <<nvs, call>>

\* Mutant: an update that stops after its delete.
DeleteDoneForgetsCreate(t) == Return(t, "ok")

\* The delete half has finished with code 0: a plain delete returns it, an
\* update goes on to the create half.
DeleteDone(t) ==
    IF call[t].kind = "delete" THEN Return(t, "ok") ELSE Goto(t, "probe")

\* The read that opens baiatool_storage_delete.  A read that fails for any
\* reason is taken to mean there is no object, and the delete reports success.
Look(t) ==
    /\ pc[t] = "look"
    /\ \/ /\ Stored(Id(t))
          /\ Goto(t, "erase")
       \/ /\ ~Stored(Id(t)) \/ IOFaults
          /\ DeleteDone(t)
    /\ UNCHANGED <<nvs, call>>

\* nvs_delete.  Its failure ends a delete and an update alike.
Erase(t) ==
    /\ pc[t] = "erase"
    /\ \/ /\ nvs' = [nvs EXCEPT ![Id(t)] = Absent]
          /\ DeleteDone(t)
       \/ /\ IOFaults
          /\ Return(t, "EIO")
          /\ UNCHANGED nvs
    /\ UNCHANGED call

\* Mutant: a create that goes back to erase what it found.
ProbeRetries(t) ==
    /\ pc[t] = "probe"
    /\ Goto(t, IF Stored(Id(t)) THEN "look" ELSE "write")
    /\ UNCHANGED <<nvs, call>>

\* The read that opens baiatool_storage_create.
Probe(t) ==
    /\ pc[t] = "probe"
    /\ \/ /\ Stored(Id(t))
          /\ Return(t, "ENOTEMPTY")
       \/ /\ ~Stored(Id(t)) \/ IOFaults
          /\ Goto(t, "write")
    /\ UNCHANGED <<nvs, call>>

\* nvs_write returns 0, and writes nothing, when the object is already there:
\* create passes the 0 on, and 0 is the code of a successful update.
Write(t) ==
    /\ pc[t] = "write"
    /\ \/ /\ nvs[Id(t)] = call[t].data
          /\ Return(t, IF call[t].kind = "create" THEN "zero" ELSE "ok")
          /\ UNCHANGED nvs
       \/ /\ nvs[Id(t)] # call[t].data
          /\ nvs' = [nvs EXCEPT ![Id(t)] = call[t].data]
          /\ Return(t, "ok")
       \/ /\ IOFaults
          /\ Return(t, "EIO")
          /\ UNCHANGED nvs
    /\ UNCHANGED call

\* The caller has taken the code; nothing of the operation is left.
Resume(t) ==
    /\ pc[t] = "returned"
    /\ pc' = [pc EXCEPT ![t] = "idle"]
    /\ call' = [call EXCEPT ![t] = NoCall]
    /\ ret' = [ret EXCEPT ![t] = "none"]
    /\ UNCHANGED nvs

\* The board restarts (power loss, watchdog, fatal error): the threads are gone,
\* NVS keeps what it had committed.
Crash ==
    /\ Restarts
    /\ pc' = [t \in Threads |-> "idle"]
    /\ call' = [t \in Threads |-> NoCall]
    /\ ret' = [t \in Threads |-> "none"]
    /\ UNCHANGED nvs

\* One NVS call of the operation thread t is in.
Advance(t) == Fetch(t) \/ Look(t) \/ Erase(t) \/ Probe(t) \/ Write(t)

Next ==
    \/ \E t \in Threads, kind \in Kinds, i \in NvsIds :
           \E d \in Argument(kind) : Call(t, kind, i, d)
    \/ \E t \in Threads : Advance(t)
    \/ \E t \in Threads : Resume(t)
    \/ Crash

Fairness == \A t \in Threads : WF_vars(Advance(t))

Spec == Init /\ [][Next]_vars /\ Fairness
-----------------------------------------------------------------------------
\* Thread t has erased, or found missing, the object of i and has not yet
\* stored the new one: the stretch in which an update leaves no object.
InGap(t, i) == pc[t] \in {"probe", "write"} /\ call[t].id = i

(***************************************************************************)
(* The inductive invariant.  An operation makes only the NVS calls that    *)
(* are its own, and reaches nvs_write with an object to write: the delete  *)
(* half and the create half of an update do not mix with those of a plain  *)
(* delete or create (storage.c:63-132).                                    *)
(***************************************************************************)
CallsFit ==
    \A t \in Threads :
        /\ pc[t] = "fetch" => call[t].kind = "read"
        /\ pc[t] \in {"look", "erase"} => call[t].kind \in {"update", "delete"}
        /\ pc[t] \in {"probe", "write"} => call[t].kind \in {"create", "update"}
        /\ call[t].data \in Argument(call[t].kind)

StorageInv == TypeOK /\ CallsFit

Kept(i) == Stored(i) \/ \E t \in Threads : InGap(t, i)

(***************************************************************************)
(* However many operations run at once on an id, an object that was there  *)
(* goes missing, outside the gap of an update, in three ways only: a       *)
(* delete erased it, a write failed, or the board restarted in the gap.    *)
(* No interleaving of updates loses it (storage.c:111-132).                *)
(***************************************************************************)
ObjectKept ==
    [][\A i \in NvsIds : (Kept(i) /\ ~Kept(i)') =>
           \/ \E t \in Threads : pc[t] = "erase" /\ call[t].kind = "delete"
           \/ \E t \in Threads : pc[t] = "write" /\ ret'[t] = "EIO"
           \/ \A t \in Threads : pc'[t] = "idle"]_vars

(***************************************************************************)
(* When every thread has returned from an update of the same id, the       *)
(* object stored is the argument of one that reported success: an update   *)
(* refused with -ENOTEMPTY lost to one that succeeded (storage.c:117-131). *)
(* It is checked where no call fails.                                      *)
(***************************************************************************)
SuccessStored ==
    \A i \in NvsIds :
        (\A t \in Threads : pc[t] = "returned" /\ call[t].kind = "update" /\ Id(t) = i)
            => \E t \in Threads : ret[t] = "ok" /\ nvs[i] = call[t].data

\* An operation that was entered returns: it makes at most four NVS calls and
\* repeats none (storage.c:37-132), unless the board restarts.
OperationReturns == \A t \in Threads : pc[t] # "idle" ~> pc[t] \in {"idle", "returned"}
=============================================================================
