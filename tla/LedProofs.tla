----------------------------- MODULE LedProofs -----------------------------
(***************************************************************************)
(* At most one color is lit, for any set of commands and any queue size.   *)
(***************************************************************************)
EXTENDS Led, TLAPS

LEMMA LedTypeStep ==
    ASSUME TypeOK, [Next]_vars
    PROVE  TypeOK'
<1> USE LedAssumption DEF TypeOK, Places, Go, bus, workqueue
<1>1. ASSUME NEW m \in Messages, Publish(m) PROVE TypeOK'
    BY <1>1 DEF Publish
<1>2. ASSUME Notify PROVE TypeOK'
  <2>1. queue' \in 0..QueueSize
      BY <1>2, SMT DEF Notify
  <2> QED
      BY <1>2, <2>1, Zenon DEF Notify
<1>3. ASSUME Wait \/ Read \/ ReadTimeout PROVE TypeOK'
    BY <1>3 DEF Wait, Read, ReadTimeout
<1>4. ASSUME Steady \/ Blink \/ LedOff PROVE TypeOK'
    BY <1>4 DEF Steady, Blink, LedOff, Clear
<1>5. ASSUME SetBasic PROVE TypeOK'
  <2>1. current.color \in Colors \cup {"DEFAULT"}
      BY DEF NoLight
  <2>2. lit' \subseteq Colors
      BY <1>5, <2>1 DEF SetBasic, Switched
  <2> QED
      BY <1>5, <2>2 DEF SetBasic
<1>6. ASSUME Expire \/ Block \/ Unblock PROVE TypeOK'
    BY <1>6 DEF Expire, Block, Unblock
<1>7. ASSUME BlinkWork PROVE TypeOK'
  <2>1. current.color \in Colors \cup {"DEFAULT"}
      BY DEF NoLight
  <2>2. lit' \subseteq Colors
      BY <1>7, <2>1 DEF BlinkWork
  <2>3. blink' \in BOOLEAN
      BY <1>7 DEF BlinkWork
  <2> QED
      BY <1>7, <2>2, <2>3 DEF BlinkWork
<1>8. ASSUME UNCHANGED vars PROVE TypeOK'
    BY <1>8 DEF vars
<1> QED
    BY <1>1, <1>2, <1>3, <1>4, <1>5, <1>6, <1>7, <1>8 DEF Next, Thread

\* No step lights a pin but SetBasic and BlinkWork, and each of them leaves at
\* most the color of the current command lit.
LEMMA LitStep ==
    ASSUME LedInv, [Next]_vars
    PROVE  (OneLit /\ PinsCleared)'
<1> USE DEF OneLit, PinsCleared, LedInv, TypeOK, Go, bus, workqueue
<1>1. ASSUME NEW m \in Messages, Publish(m) PROVE (OneLit /\ PinsCleared)'
    BY <1>1 DEF Publish
<1>2. ASSUME Notify \/ Expire \/ Block \/ Unblock PROVE (OneLit /\ PinsCleared)'
    BY <1>2 DEF Notify, Expire, Block, Unblock
<1>3. ASSUME Wait \/ Read \/ ReadTimeout PROVE (OneLit /\ PinsCleared)'
    BY <1>3 DEF Wait, Read, ReadTimeout
<1>4. ASSUME Steady \/ Blink PROVE (OneLit /\ PinsCleared)'
    BY <1>4 DEF Steady, Blink
<1>5. ASSUME Clear("RED", "red", "green") PROVE (OneLit /\ PinsCleared)'
    BY <1>5 DEF Clear, Colors
<1>6. ASSUME Clear("GREEN", "green", "blue") PROVE (OneLit /\ PinsCleared)'
    BY <1>6 DEF Clear
<1>7. ASSUME Clear("BLUE", "blue", "set") PROVE (OneLit /\ PinsCleared)'
    BY <1>7 DEF Clear
<1>8. ASSUME SetBasic PROVE (OneLit /\ PinsCleared)'
    BY <1>8 DEF SetBasic, Switched
<1>9. ASSUME BlinkWork PROVE (OneLit /\ PinsCleared)'
    BY <1>9 DEF BlinkWork
<1>10. ASSUME UNCHANGED vars PROVE (OneLit /\ PinsCleared)'
    BY <1>10 DEF vars
<1> QED
    BY <1>1, <1>2, <1>3, <1>4, <1>5, <1>6, <1>7, <1>8, <1>9, <1>10 DEF Next, Thread, LedOff

(***************************************************************************)
(* The types of the LED service, one lit color, and which pins are clear   *)
(* between two pin writes of its thread (led.c:63-93).                     *)
(***************************************************************************)
THEOREM LedInvariance == Spec => []LedInv
<1>1. Init => LedInv
  <2>1. 0 \in 0..QueueSize
      BY LedAssumption, SMT
  <2> QED
      BY <2>1, Zenon DEF Init, LedInv, TypeOK, OneLit, PinsCleared, Places, Colors
<1>2. LedInv /\ [Next]_vars => LedInv'
    BY LedTypeStep, LitStep DEF LedInv
<1> QED
    BY <1>1, <1>2, PTL DEF Spec

(***************************************************************************)
(* Two colors are never lit at once.                                       *)
(***************************************************************************)
THEOREM OneLitAlways == Spec => []OneLit
BY LedInvariance, PTL DEF LedInv

\* The thread comes to rest from SetBasic, which leaves one color at most; what
\* a late work item lights is the color of the command that is current.
LEMMA SteadyStep ==
    ASSUME LedInv, SteadyColor, [Next]_vars
    PROVE  SteadyColor'
<1> USE DEF SteadyColor, Go, bus, workqueue
<1>1. ASSUME NEW m \in Messages, Publish(m) PROVE SteadyColor'
    BY <1>1 DEF Publish
<1>2. ASSUME Notify \/ Expire \/ Block \/ Unblock PROVE SteadyColor'
    BY <1>2 DEF Notify, Expire, Block, Unblock
<1>3. ASSUME Wait \/ Read \/ ReadTimeout PROVE SteadyColor'
    BY <1>3 DEF Wait, Read, ReadTimeout
<1>4. ASSUME Steady \/ Blink PROVE SteadyColor'
    BY <1>4 DEF Steady, Blink
<1>5. ASSUME LedOff PROVE SteadyColor'
    BY <1>5 DEF LedOff, Clear
<1>6. ASSUME SetBasic PROVE SteadyColor'
    BY <1>6 DEF SetBasic, Switched, LedInv, PinsCleared
<1>7. ASSUME BlinkWork PROVE SteadyColor'
    BY <1>7 DEF BlinkWork
<1>8. ASSUME UNCHANGED vars PROVE SteadyColor'
    BY <1>8 DEF vars
<1> QED
    BY <1>1, <1>2, <1>3, <1>4, <1>5, <1>6, <1>7, <1>8 DEF Next, Thread

(***************************************************************************)
(* A steady light is never of another color than the command's, whatever   *)
(* work item of an earlier blinking command is still to run.               *)
(***************************************************************************)
THEOREM SteadyColorAlways == Spec => []SteadyColor
<1>1. Init => SteadyColor
    BY DEF Init, SteadyColor
<1>2. LedInv /\ SteadyColor /\ [Next]_vars => SteadyColor'
    BY SteadyStep
<1> QED
    BY LedInvariance, <1>1, <1>2, PTL DEF Spec

(***************************************************************************)
(* The safety part of LastCommandExecuted: a command that has not been     *)
(* read has a notification, or a publisher that is still to notify, or the *)
(* thread about to read it.  It needs a queue with room for one.           *)
(***************************************************************************)
THEOREM NothingIsMissed == Spec => []NothingMissed
<1>1. Init => NothingMissed
    BY DEF Init, NothingMissed
<1>2. ASSUME LedInv, NothingMissed, [Next]_vars PROVE NothingMissed'
  <2> USE DEF NothingMissed, Go, bus, workqueue
  <2>1. queue \in 0..QueueSize /\ QueueSize \in Nat \ {0}
      BY <1>2, LedAssumption DEF LedInv, TypeOK
  <2>2. ASSUME NEW m \in Messages, Publish(m) PROVE NothingMissed'
      BY <2>2 DEF Publish
  <2>3. CASE Notify
      BY <2>1, <2>3 DEF Notify
  <2>4. CASE Wait \/ Read \/ ReadTimeout
      BY <1>2, <2>4 DEF Wait, Read, ReadTimeout
  <2>5. CASE Steady \/ Blink \/ LedOff \/ SetBasic
      BY <1>2, <2>5 DEF Steady, Blink, LedOff, Clear, SetBasic
  <2>6. CASE Expire \/ BlinkWork \/ Block \/ Unblock
      BY <1>2, <2>6 DEF Expire, BlinkWork, Block, Unblock
  <2>7. CASE UNCHANGED vars
      BY <1>2, <2>7 DEF vars
  <2> QED
      BY <1>2, <2>2, <2>3, <2>4, <2>5, <2>6, <2>7 DEF Next, Thread
<1> QED
    BY LedInvariance, <1>1, <1>2, PTL DEF Spec
=============================================================================
