---------------------------- MODULE SntpProofs ----------------------------
(***************************************************************************)
(* An SNTP service at rest on a connected board has the time, for every    *)
(* size of its queue.                                                      *)
(***************************************************************************)
EXTENDS Sntp, TLAPS

USE SntpAssumption

\* What the publisher does: a CONNECTED is noted, and then notified, unless the
\* queue holds a notification already.
LEMMA PublisherSteps ==
    ASSUME SntpInv, (\E s \in WifiStates : Publish(s)) \/ Notify
    PROVE  SntpInv'
<1>1. ASSUME NEW s \in WifiStates, Publish(s) PROVE SntpInv'
    BY <1>1 DEF SntpInv, TypeOK, Pending, Publish, WifiStates
<1>2. CASE Notify
  <2>1. queue' \in 0..QueueSize /\ queue' > 0
      BY <1>2 DEF Notify, SntpInv, TypeOK
  <2> QED
      BY <1>2, <2>1 DEF Notify, SntpInv, TypeOK, Pending
<1> QED
    BY <1>1, <1>2

\* What the thread does: a notification it takes it reads for, and a request it
\* starts it goes on with until it is told or the board is not connected.
LEMMA ThreadSteps ==
    ASSUME SntpInv, Thread
    PROVE  SntpInv'
<1> USE DEF SntpInv, TypeOK, Pending, Go
<1>1. CASE Wait
    BY <1>1 DEF Wait
<1>2. ASSUME NEW from \in {"read", "sleep"}, Ask(from) PROVE SntpInv'
    BY <1>2 DEF Ask
<1>3. ASSUME NEW from \in {"read", "sleep"}, BackToWait(from) PROVE SntpInv'
    BY <1>3 DEF BackToWait
<1>4. CASE Told
    BY <1>4 DEF Told
<1>5. CASE Failed
    BY <1>5 DEF Failed
<1> QED
    BY <1>1, <1>2, <1>3, <1>4, <1>5 DEF Thread

(***************************************************************************)
(* The inductive invariant: what is still to be done about the last        *)
(* CONNECTED is in the queue or in the thread.                             *)
(***************************************************************************)
THEOREM SntpInvariant == Spec => []SntpInv
<1>1. Init => SntpInv
  <2>1. Init => queue \in 0..QueueSize
      BY DEF Init
  <2>2. Init => wifi \in WifiStates /\ publishing \in BOOLEAN /\ valid \in BOOLEAN
      BY Zenon DEF Init, WifiStates
  <2>3. Init => Pending
      BY DEF Init, Pending
  <2> QED
      BY <2>1, <2>2, <2>3 DEF Init, SntpInv, TypeOK
<1>2. SntpInv /\ [Next]_vars => SntpInv'
  <2>1. ASSUME SntpInv, UNCHANGED vars PROVE SntpInv'
      BY <2>1 DEF SntpInv, TypeOK, Pending, vars
  <2> QED
      BY <2>1, PublisherSteps, ThreadSteps DEF Next
<1> QED
    BY <1>1, <1>2, PTL DEF Spec

(***************************************************************************)
(* At rest on a connected board, the service has asked for the time after  *)
(* the last CONNECTED, and has published it.                               *)
(***************************************************************************)
THEOREM RestIsSynced == Spec => []SyncedAtRest
<1>1. SntpInv => SyncedAtRest
    BY DEF SntpInv, TypeOK, Pending, SyncedAtRest, Connected
<1> QED
    BY <1>1, SntpInvariant, PTL
=============================================================================
