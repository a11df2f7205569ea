--------------------------- MODULE StorageProofs ---------------------------
(***************************************************************************)
(* Type correctness of Storage, and that no interleaving of its operations *)
(* loses an object, for any number of threads, ids and objects.            *)
(***************************************************************************)
EXTENDS Storage, Integers, TLAPS

\* The call record of a thread outside every operation is well formed.
LEMMA NoCallType == NoCall \in Calls
BY StorageAssumption DEF NoCall, Calls, AllKinds

LEMMA CallStepType ==
    ASSUME TypeOK, NEW t \in Threads, NEW kind \in Kinds, NEW i \in NvsIds,
           NEW d \in Argument(kind), Call(t, kind, i, d)
    PROVE  TypeOK'
<1>1. kind \in AllKinds
    BY StorageAssumption
<1>2. d \in Data \cup {Absent}
    BY DEF Argument
<1>3. [kind |-> kind, id |-> i, data |-> d] \in Calls
    BY <1>1, <1>2 DEF Calls
<1>4. FirstStep(kind) \in Steps
    BY <1>1 DEF FirstStep, Steps, AllKinds
<1> QED
    BY <1>3, <1>4 DEF TypeOK, Call

LEMMA AdvanceType ==
    ASSUME TypeOK, NEW t \in Threads, Advance(t)
    PROVE  TypeOK'
<1>1. call[t] \in Calls /\ Id(t) \in NvsIds /\ call[t].data \in Data \cup {Absent}
    BY DEF TypeOK, Calls, Id
<1>2. CASE Fetch(t)
    BY <1>1, <1>2 DEF TypeOK, Fetch, Return, Steps, Codes
<1>3. CASE Look(t)
    BY <1>1, <1>3 DEF TypeOK, Look, DeleteDone, Goto, Return, Steps, Codes
<1>4. CASE Erase(t)
    BY <1>1, <1>4 DEF TypeOK, Erase, DeleteDone, Goto, Return, Steps, Codes
<1>5. CASE Probe(t)
    BY <1>1, <1>5 DEF TypeOK, Probe, Goto, Return, Steps, Codes
<1>6. CASE Write(t)
    BY <1>1, <1>6 DEF TypeOK, Write, Return, Steps, Codes
<1> QED
    BY <1>2, <1>3, <1>4, <1>5, <1>6 DEF Advance

LEMMA NextType ==
    ASSUME TypeOK, [Next]_vars
    PROVE  TypeOK'
<1>1. NoCall \in Calls
    BY NoCallType
<1>2. ASSUME NEW t \in Threads, NEW kind \in Kinds, NEW i \in NvsIds,
             NEW d \in Argument(kind), Call(t, kind, i, d)
      PROVE  TypeOK'
    BY <1>2, CallStepType
<1>3. ASSUME NEW t \in Threads, Advance(t) PROVE TypeOK'
    BY <1>3, AdvanceType
<1>4. ASSUME NEW t \in Threads, Resume(t) PROVE TypeOK'
    BY <1>1, <1>4 DEF TypeOK, Resume, Steps, Codes
<1>5. CASE Crash
    BY <1>1, <1>5 DEF TypeOK, Crash, Steps, Codes
<1>6. CASE UNCHANGED vars
    BY <1>6 DEF TypeOK, vars
<1> QED
    BY <1>2, <1>3, <1>4, <1>5, <1>6 DEF Next
-----------------------------------------------------------------------------
\* The record of no call fits an idle thread.
LEMMA NoCallFits == NoCall.data \in Argument(NoCall.kind) /\ NoCall.kind = "read"
BY DEF NoCall, Argument

LEMMA CallFits ==
    ASSUME TypeOK, CallsFit, NEW t \in Threads, NEW kind \in Kinds, NEW i \in NvsIds,
           NEW d \in Argument(kind), Call(t, kind, i, d)
    PROVE  CallsFit'
<1>1. call'[t].kind = kind /\ call'[t].data = d /\ pc'[t] = FirstStep(kind)
    BY DEF Call, TypeOK
<1>2. \A u \in Threads \ {t} : call'[u] = call[u] /\ pc'[u] = pc[u]
    BY DEF Call, TypeOK
<1>3. kind \in AllKinds
    BY StorageAssumption
<1> QED
    BY <1>1, <1>2, <1>3 DEF CallsFit, FirstStep, AllKinds, Argument

LEMMA AdvanceFits ==
    ASSUME TypeOK, CallsFit, NEW t \in Threads, Advance(t)
    PROVE  CallsFit'
<1>1. call' = call /\ \A u \in Threads \ {t} : pc'[u] = pc[u]
    BY DEF TypeOK, Advance, Fetch, Look, Erase, Probe, Write, DeleteDone, Goto, Return
<1>2. CASE Fetch(t) \/ Write(t)
    BY <1>1, <1>2 DEF TypeOK, CallsFit, Fetch, Write, Return, Argument
<1>3. CASE Look(t) \/ Erase(t)
    BY <1>1, <1>3 DEF TypeOK, CallsFit, Look, Erase, DeleteDone, Goto, Return, Argument
<1>4. CASE Probe(t)
    BY <1>1, <1>4 DEF TypeOK, CallsFit, Probe, Goto, Return, Argument
<1> QED
    BY <1>2, <1>3, <1>4 DEF Advance

\* The inductive step.
LEMMA NextInv ==
    ASSUME StorageInv, [Next]_vars
    PROVE  StorageInv'
<1>1. TypeOK /\ CallsFit
    BY DEF StorageInv
<1>2. TypeOK'
    BY <1>1, NextType
<1>3. ASSUME NEW t \in Threads, NEW kind \in Kinds, NEW i \in NvsIds,
             NEW d \in Argument(kind), Call(t, kind, i, d)
      PROVE  CallsFit'
    BY <1>1, <1>3, CallFits
<1>4. ASSUME NEW t \in Threads, Advance(t) PROVE CallsFit'
    BY <1>1, <1>4, AdvanceFits
<1>5. ASSUME NEW t \in Threads, Resume(t) PROVE CallsFit'
    BY <1>1, <1>5, NoCallFits DEF TypeOK, CallsFit, Resume, Argument
<1>6. ASSUME Crash PROVE CallsFit'
    BY <1>6, NoCallFits DEF CallsFit, Crash, Argument
<1>7. ASSUME UNCHANGED vars PROVE CallsFit'
    BY <1>1, <1>7 DEF CallsFit, vars, Argument
<1> QED
    BY <1>2, <1>3, <1>4, <1>5, <1>6, <1>7 DEF Next, StorageInv

(***************************************************************************)
(* The inductive invariant of the storage operations holds throughout.     *)
(***************************************************************************)
THEOREM Invariance == Spec => []StorageInv
<1>1. Init => StorageInv
    BY NoCallType, NoCallFits DEF Init, QuietThreads, StorageInv, TypeOK, CallsFit, Steps, Codes,
        Argument
<1>2. StorageInv /\ [Next]_vars => StorageInv'
    BY NextInv
<1> QED
    BY <1>1, <1>2, PTL DEF Spec

\* The three ways an object of NVS can go missing in a step.
Excused ==
    \/ \E t \in Threads : pc[t] = "erase" /\ call[t].kind = "delete"
    \/ \E t \in Threads : pc[t] = "write" /\ ret'[t] = "EIO"
    \/ \A t \in Threads : pc'[t] = "idle"

\* A thread whose step leaves flash alone, and which is not itself in the gap of
\* i before the step, or still is after it, disturbs nothing.
LEMMA QuietStep ==
    ASSUME NEW i \in NvsIds, NEW t \in Threads, Kept(i), UNCHANGED nvs,
           \A u \in Threads \ {t} : pc'[u] = pc[u] /\ call'[u] = call[u],
           InGap(t, i) => Stored(i) \/ InGap(t, i)'
    PROVE  Kept(i)'
BY DEF Kept, Stored, InGap

LEMMA AdvanceKeeps ==
    ASSUME TypeOK, CallsFit, NEW i \in NvsIds, Kept(i), NEW t \in Threads, Advance(t)
    PROVE  Kept(i)' \/ Excused
<1>1. call' = call /\ \A u \in Threads \ {t} : pc'[u] = pc[u]
    BY DEF TypeOK, Advance, Fetch, Look, Erase, Probe, Write, DeleteDone, Goto, Return
<1>2. CASE Fetch(t)
    BY <1>1, <1>2, QuietStep DEF Fetch, InGap
<1>3. CASE Look(t)
    BY <1>1, <1>3, QuietStep DEF Look, InGap
<1>4. CASE Erase(t)
  <2>1. CASE call[t].kind = "delete"
      BY <1>4, <2>1 DEF Erase, Excused
  <2>2. CASE call[t].kind # "delete" /\ Goto(t, "probe") /\ nvs' = [nvs EXCEPT ![Id(t)] = Absent]
    <3>1. CASE Id(t) = i
        BY <1>1, <2>2, <3>1 DEF Kept, InGap, Goto, Id, TypeOK
    <3>2. CASE Id(t) # i
        BY <1>1, <1>4, <2>2, <3>2 DEF Kept, InGap, Stored, Erase, TypeOK
    <3> QED
        BY <3>1, <3>2
  <2>3. CASE UNCHANGED nvs
      BY <1>1, <1>4, <2>3, QuietStep DEF Erase, InGap
  <2> QED
      BY <1>4, <2>1, <2>2, <2>3 DEF Erase, DeleteDone
<1>5. CASE Probe(t)
  <2>1. CASE Stored(Id(t)) /\ UNCHANGED nvs
      BY <1>1, <1>5, <2>1, QuietStep DEF InGap, Id
  <2>2. CASE Goto(t, "write") /\ UNCHANGED nvs
      BY <1>1, <2>2, QuietStep DEF InGap, Goto, TypeOK
  <2> QED
      BY <1>5, <2>1, <2>2 DEF Probe
<1>6. CASE Write(t)
  <2>1. CASE nvs'[Id(t)] = call[t].data
    <3>1. call[t].data # Absent
        BY <1>6, StorageAssumption DEF CallsFit, Write, Argument
    <3> QED
      BY <1>1, <1>6, <2>1, <3>1 DEF Kept, InGap, Stored, Write, Id, TypeOK
  <2>2. CASE Return(t, "EIO")
      BY <1>6, <2>2 DEF Write, Return, Excused, TypeOK
  <2>3. nvs'[Id(t)] = call[t].data \/ Return(t, "EIO")
      BY <1>6 DEF Write, TypeOK, Id, Calls
  <2> QED
      BY <2>1, <2>2, <2>3
<1> QED
    BY <1>2, <1>3, <1>4, <1>5, <1>6 DEF Advance

\* No step loses an object without one of the three excuses.
LEMMA StepKeeps ==
    ASSUME StorageInv, [Next]_vars, NEW i \in NvsIds, Kept(i), ~Kept(i)'
    PROVE  Excused
<1>1. TypeOK /\ CallsFit
    BY DEF StorageInv
<1>2. ASSUME NEW t \in Threads, NEW kind \in Kinds, NEW j \in NvsIds,
             NEW d \in Argument(kind), Call(t, kind, j, d)
      PROVE  FALSE
    BY <1>1, <1>2, QuietStep DEF Call, InGap, TypeOK
<1>3. ASSUME NEW t \in Threads, Advance(t) PROVE Excused
    BY <1>1, <1>3, AdvanceKeeps
<1>4. ASSUME NEW t \in Threads, Resume(t) PROVE FALSE
    BY <1>1, <1>4, QuietStep DEF Resume, InGap, TypeOK
<1>5. CASE Crash
    BY <1>5 DEF Crash, Excused
<1>6. CASE UNCHANGED vars
    BY <1>6 DEF Kept, Stored, InGap, vars
<1> QED
    BY <1>2, <1>3, <1>4, <1>5, <1>6 DEF Next

(***************************************************************************)
(* No interleaving of reads, creates, updates and deletes loses an object, *)
(* but for an explicit delete, a failed write and a restart in the gap of  *)
(* an update: for any number of threads, ids and objects.                  *)
(***************************************************************************)
THEOREM NoObjectLost == Spec => ObjectKept
<1>1. StorageInv /\ [Next]_vars
          => [\A i \in NvsIds : (Kept(i) /\ ~Kept(i)') => Excused]_vars
    BY StepKeeps
<1> QED
    BY Invariance, <1>1, PTL DEF Spec, ObjectKept, Excused
-----------------------------------------------------------------------------
\* How many NVS calls the operation of thread t can still make.
CallsLeft(t) ==
    CASE pc[t] = "look"               -> IF call[t].kind = "delete" THEN 2 ELSE 4
      [] pc[t] = "erase"              -> IF call[t].kind = "delete" THEN 1 ELSE 3
      [] pc[t] = "probe"              -> 2
      [] pc[t] \in {"fetch", "write"} -> 1
      [] pc[t] \in {"idle", "returned"} -> 0

(***************************************************************************)
(* The part of OperationReturns that needs no fairness: an operation that  *)
(* is entered has four NVS calls to make at most, each call leaves fewer,  *)
(* and nothing any other thread does gives it more: no object that others  *)
(* store or erase under it sends it back (storage.c:37-132).               *)
(***************************************************************************)
CallsRunOut ==
    [][\A t \in Threads :
          /\ Advance(t) => CallsLeft(t)' < CallsLeft(t)
          /\ CallsLeft(t)' <= CallsLeft(t) \/ (pc[t] = "idle" /\ CallsLeft(t)' <= 4)]_vars

LEMMA AdvanceSpends ==
    ASSUME StorageInv, NEW t \in Threads, Advance(t)
    PROVE  CallsLeft(t)' < CallsLeft(t)
<1> USE DEF StorageInv, CallsLeft, TypeOK, Goto, Return, DeleteDone
<1>1. CASE Fetch(t) \/ Write(t)
    BY <1>1 DEF Fetch, Write
<1>2. CASE Look(t)
    BY <1>2 DEF Look
<1>3. CASE Erase(t)
    BY <1>3 DEF Erase
<1>4. CASE Probe(t)
    BY <1>4 DEF Probe
<1> QED
    BY <1>1, <1>2, <1>3, <1>4 DEF Advance

\* A step leaves the calls of every thread it is not about as they are.
LEMMA OthersKeep ==
    ASSUME NEW t \in Threads, pc'[t] = pc[t], call'[t] = call[t]
    PROVE  CallsLeft(t)' = CallsLeft(t)
BY DEF CallsLeft

LEMMA CallsLeftRange ==
    ASSUME TypeOK, NEW t \in Threads
    PROVE  CallsLeft(t) \in 0..4 /\ (pc[t] = "idle" => CallsLeft(t) = 0)
BY DEF TypeOK, Steps, CallsLeft

(***************************************************************************)
(* However many threads run, an operation of the storage component makes   *)
(* at most four NVS calls.                                                 *)
(***************************************************************************)
THEOREM OperationsAreBounded == Spec => CallsRunOut
<1> DEFINE Bounded(t) ==
        /\ Advance(t) => CallsLeft(t)' < CallsLeft(t)
        /\ CallsLeft(t)' <= CallsLeft(t) \/ (pc[t] = "idle" /\ CallsLeft(t)' <= 4)
<1>1. ASSUME StorageInv, [Next]_vars, NEW t \in Threads PROVE Bounded(t)
  <2>1. TypeOK /\ TypeOK'
      BY <1>1, NextType DEF StorageInv
  <2>2. CallsLeft(t) \in 0..4 /\ CallsLeft(t)' \in 0..4 /\ (pc'[t] = "idle" => CallsLeft(t)' = 0)
    <3>1. CallsLeft(t) \in 0..4
        BY <2>1, CallsLeftRange
    <3>2. CallsLeft(t)' \in 0..4 /\ (pc'[t] = "idle" => CallsLeft(t)' = 0)
        BY <2>1 DEF TypeOK, Steps, CallsLeft
    <3> QED
        BY <3>1, <3>2
  <2>3. Advance(t) => CallsLeft(t)' < CallsLeft(t)
      BY <1>1, AdvanceSpends
  <2>4. CallsLeft(t)' <= CallsLeft(t) \/ (pc[t] = "idle" /\ CallsLeft(t)' <= 4)
    <3>1. ASSUME NEW u \in Threads, NEW kind \in Kinds, NEW j \in NvsIds,
                 NEW d \in Argument(kind), Call(u, kind, j, d)
          PROVE  CallsLeft(t)' <= CallsLeft(t) \/ pc[t] = "idle"
      <4>1. CASE u = t
          BY <3>1, <4>1 DEF Call
      <4>2. CASE u # t
        <5>1. pc'[t] = pc[t] /\ call'[t] = call[t]
            BY <2>1, <3>1, <4>2 DEF Call, TypeOK
        <5> QED
            BY <2>2, <5>1, OthersKeep
      <4> QED
          BY <4>1, <4>2
    <3>2. ASSUME NEW u \in Threads, Advance(u) PROVE CallsLeft(t)' <= CallsLeft(t)
      <4>1. CASE u = t
          BY <2>2, <2>3, <3>2, <4>1
      <4>2. CASE u # t
        <5>1. pc'[t] = pc[t] /\ call'[t] = call[t]
            BY <2>1, <3>2, <4>2 DEF TypeOK, Advance, Fetch, Look, Erase, Probe, Write, DeleteDone,
                Goto, Return
        <5> QED
            BY <2>2, <5>1, OthersKeep
      <4> QED
          BY <4>1, <4>2
    <3>3. ASSUME NEW u \in Threads, Resume(u) PROVE CallsLeft(t)' <= CallsLeft(t)
      <4>1. CASE u = t
        <5>1. pc'[t] = "idle"
            BY <2>1, <3>3, <4>1 DEF Resume, TypeOK
        <5> QED
            BY <2>2, <5>1
      <4>2. CASE u # t
        <5>1. pc'[t] = pc[t] /\ call'[t] = call[t]
            BY <2>1, <3>3, <4>2 DEF Resume, TypeOK
        <5> QED
            BY <2>2, <5>1, OthersKeep
      <4> QED
          BY <4>1, <4>2
    <3>4. CASE Crash
        BY <2>2, <3>4 DEF Crash
    <3>5. CASE UNCHANGED vars
      <4>1. pc'[t] = pc[t] /\ call'[t] = call[t]
          BY <3>5 DEF vars
      <4> QED
          BY <2>2, <4>1, OthersKeep
    <3> QED
        BY <1>1, <2>2, <3>1, <3>2, <3>3, <3>4, <3>5 DEF Next
  <2> QED
      BY <2>3, <2>4
<1>2. StorageInv /\ [Next]_vars => [\A t \in Threads : Bounded(t)]_vars
    BY <1>1
<1> QED
    BY Invariance, <1>2, PTL DEF Spec, CallsRunOut
-----------------------------------------------------------------------------
(***************************************************************************)
(* Every thread is in an update of i and has left the erase behind: the    *)
(* object of i, if there is one, is of a thread that has reported it, and  *)
(* if there is none a thread is still about to write.                      *)
(***************************************************************************)
PastErase(i) ==
    \A t \in Threads :
        call[t].kind = "update" /\ Id(t) = i /\ pc[t] \in {"probe", "write", "returned"}

Reported(i) == \E t \in Threads : pc[t] = "returned" /\ ret[t] = "ok" /\ nvs[i] = call[t].data

Writing == \E t \in Threads : pc[t] \in {"probe", "write"}

Settled(i) == PastErase(i) => IF Stored(i) THEN Reported(i) ELSE Writing

LEMMA AdvanceSettles ==
    ASSUME StorageInv, ~IOFaults, NEW i \in NvsIds, Settled(i), NEW t \in Threads, Advance(t)
    PROVE  Settled(i)'
<1> SUFFICES ASSUME PastErase(i)'
             PROVE  (IF Stored(i) THEN Reported(i) ELSE Writing)'
    BY DEF Settled
<1>1. TypeOK /\ CallsFit /\ call' = call /\ call[t].kind = "update" /\ Id(t) = i
    BY DEF StorageInv, Advance, Fetch, Look, Erase, Probe, Write, PastErase, Id
<1>2. pc[t] # "fetch" /\ ~Fetch(t)
    BY <1>1 DEF CallsFit, Fetch
<1>3. \A s \in Threads \ {t} : pc'[s] = pc[s] /\ ret'[s] = ret[s]
    BY <1>1 DEF TypeOK, Advance, Fetch, Look, Erase, Probe, Write, DeleteDone, Goto, Return
<1>4. CASE Look(t) \/ Erase(t)
  <2>1. Goto(t, "probe") /\ ~Stored(i)'
    <3>1. CASE Look(t)
      <4>1. pc'[t] # "erase"
          BY DEF PastErase
      <4> QED
          BY <1>1, <3>1, <4>1 DEF Look, Goto, DeleteDone, TypeOK, Stored
    <3>2. CASE Erase(t)
        BY <1>1, <3>2 DEF Erase, DeleteDone, TypeOK, Stored
    <3> QED
        BY <1>4, <3>1, <3>2
  <2> QED
      BY <1>1, <2>1 DEF Writing, Goto, TypeOK
<1>5. ASSUME pc[t] \in {"probe", "write"} PROVE PastErase(i)
    BY <1>1, <1>3, <1>5 DEF PastErase, Id
<1>6. CASE Probe(t)
  <2>1. UNCHANGED nvs /\ PastErase(i) /\ pc[t] = "probe"
      BY <1>5, <1>6 DEF Probe
  <2>2. CASE Stored(i)
    <3>1. PICK s \in Threads : pc[s] = "returned" /\ ret[s] = "ok" /\ nvs[i] = call[s].data
        BY <2>1, <2>2 DEF Settled, Reported
    <3>2. s # t /\ Stored(i)'
        BY <2>1, <2>2, <3>1 DEF Stored
    <3> QED
        BY <1>1, <1>3, <2>1, <3>1, <3>2 DEF Reported
  <2>3. CASE ~Stored(i)
    <3>1. Goto(t, "write") /\ ~Stored(i)'
        BY <1>1, <1>6, <2>1, <2>3 DEF Probe, Stored
    <3> QED
        BY <1>1, <3>1 DEF Writing, Goto, TypeOK
  <2> QED
      BY <2>2, <2>3
<1>7. CASE Write(t)
  <2>1. call[t].data \in Data /\ call[t].data # Absent
      BY <1>1, StorageAssumption DEF CallsFit, Argument
  <2>2. nvs'[i] = call[t].data /\ Return(t, "ok")
      BY <1>1, <1>7 DEF Write, TypeOK, Id
  <2>3. pc'[t] = "returned" /\ ret'[t] = "ok"
      BY <1>1, <2>2 DEF Return, TypeOK
  <2> QED
      BY <1>1, <2>1, <2>2, <2>3 DEF Reported, Stored
<1> QED
    BY <1>2, <1>4, <1>6, <1>7 DEF Advance

(***************************************************************************)
(* When every thread has returned from an update of one id, the object in  *)
(* flash is that of one that reported success: for any number of threads,  *)
(* with restarts, as long as no NVS call fails (storage.c:111-132).        *)
(***************************************************************************)
THEOREM SuccessIsStored ==
    ASSUME ~IOFaults, Threads # {}
    PROVE  Spec => []SuccessStored
<1>1. Init => \A i \in NvsIds : Settled(i)
    BY DEF Init, QuietThreads, Settled, PastErase
<1>2. ASSUME StorageInv, [Next]_vars, NEW i \in NvsIds, Settled(i)
      PROVE  Settled(i)'
  <2>1. TypeOK
      BY <1>2 DEF StorageInv
  <2>2. ASSUME NEW t \in Threads, NEW kind \in Kinds, NEW j \in NvsIds,
               NEW d \in Argument(kind), Call(t, kind, j, d)
        PROVE  Settled(i)'
    <3>1. /\ call'[t].kind = kind /\ pc'[t] = FirstStep(kind)
          /\ kind = "update" => FirstStep(kind) = "look"
        BY <2>1, <2>2 DEF Call, TypeOK, FirstStep
    <3>2. ~PastErase(i)'
        BY <3>1 DEF PastErase
    <3> QED
        BY <3>2 DEF Settled
  <2>3. ASSUME NEW t \in Threads, Advance(t) PROVE Settled(i)'
      BY <1>2, <2>3, AdvanceSettles
  <2>4. ASSUME NEW t \in Threads, Resume(t) PROVE Settled(i)'
    <3>1. pc'[t] = "idle"
        BY <2>1, <2>4 DEF Resume, TypeOK
    <3> QED
        BY <3>1 DEF Settled, PastErase
  <2>5. CASE Crash
    <3>1. \A t \in Threads : pc'[t] = "idle"
        BY <2>5 DEF Crash
    <3> QED
        BY <3>1 DEF Settled, PastErase
  <2>6. CASE UNCHANGED vars
      BY <1>2, <2>6 DEF vars, Settled, PastErase, Reported, Writing, Stored, Id
  <2> QED
      BY <1>2, <2>2, <2>3, <2>4, <2>5, <2>6 DEF Next
<1>3. (\A i \in NvsIds : Settled(i)) => SuccessStored
    BY DEF Settled, PastErase, Reported, Writing, SuccessStored, Id
<1>4. StorageInv /\ (\A i \in NvsIds : Settled(i)) /\ [Next]_vars
          => (\A i \in NvsIds : Settled(i))'
    BY <1>2
<1> QED
    BY Invariance, <1>1, <1>3, <1>4, PTL DEF Spec
=============================================================================
