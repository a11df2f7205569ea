--------------------------- MODULE ScheduleProofs --------------------------
(***************************************************************************)
(* What the schedule service keeps, for any number of publishing and       *)
(* reading threads, any users, any reservations: the shape of its state,   *)
(* the session of a user, the order of reservations, and the workstation   *)
(* of the abstract specification.                                          *)
(***************************************************************************)
EXTENDS ScheduleService, TLAPS

\* The invariant of the state in RAM.
RamInv == ServiceTypeOK /\ SessionShape

USE ScheduleAssumption, UserIdAssumption

LEMMA EmptyIdType == EmptyId \in Images /\ StartsEmpty(EmptyId)
BY DEF EmptyId, Images, StartsEmpty

LEMMA BootType == BootState \in States
BY EmptyIdType DEF BootState, States, ClientCommands

\* What the listener may assume of a message.
LEMMA MessageType ==
    ASSUME ServiceTypeOK
    PROVE  /\ cmd.id \in ClientCommands
                  => cmd.user \in Images /\ (StartsEmpty(cmd.user) => cmd.user = EmptyId)
           /\ cmd.id = "LOAD" => cmd.user \in Images /\ cmd.start \in Nat /\ cmd.end \in Nat
<1>1. CASE cmd = BootCommand
    BY <1>1, EmptyIdType DEF BootCommand
<1>2. CASE cmd \in [id : ClientCommands \cup {"AMOUNT"}, user : ClientIds, start : {0}, end : {0}]
    BY <1>2 DEF ClientCommands
<1>3. ASSUME NEW u \in ServerIds, NEW s \in Slots,
             cmd = [id |-> "LOAD", user |-> u, start |-> s.start, end |-> s.end]
      PROVE  /\ cmd.id \notin ClientCommands
             /\ cmd.user \in Images /\ cmd.start \in Nat /\ cmd.end \in Nat
    BY <1>3 DEF ClientCommands
<1> QED
    BY <1>1, <1>2, <1>3 DEF ServiceTypeOK, Commands

\* The state an EXTEND_TIME leaves, field by field.
LEMMA ExtendEffect ==
    ASSUME state \in States, NEW p \in Publishers, ExtendTime(p)
    PROVE  /\ state' = [user |-> state.user, last |-> "EXTEND_TIME",
                        start |-> state.start, end |-> state.end + ExtendMinutes]
           /\ state.end + ExtendMinutes \in Nat
           /\ state.end + ExtendMinutes > state.end
           /\ state' \in States
<1>1. state.end \in Nat /\ state.end + ExtendMinutes > state.end
    BY DEF States
<1>2. state' = [state EXCEPT !.end = state.end + ExtendMinutes, !.last = "EXTEND_TIME"]
    BY DEF ExtendTime, Change
<1>3. state = [user |-> state.user, last |-> state.last, start |-> state.start, end |-> state.end]
    BY DEF States
<1>4. state' = [user |-> state.user, last |-> "EXTEND_TIME",
                start |-> state.start, end |-> state.end + ExtendMinutes]
    BY <1>2, <1>3
<1> QED
    BY <1>1, <1>4 DEF States, ClientCommands

\* The state a command that is carried out leaves.
LEMMA ChangeType ==
    ASSUME RamInv, NEW p \in Publishers,
           FirstUse(p) \/ ExtendTime(p) \/ EndUse(p) \/ Load(p)
    PROVE  state' \in States /\ SessionShape'
<1>0. state \in States
    BY DEF RamInv, ServiceTypeOK
<1>1. CASE FirstUse(p)
    BY <1>1, MessageType
    DEF RamInv, FirstUse, Change, MayStart, States, ClientCommands, SessionShape, Serving, BootState
<1>2. CASE ExtendTime(p)
  <2>1. cmd.user = state.user /\ state.last # "END_USE" /\ cmd.id = "EXTEND_TIME"
      BY <1>2 DEF ExtendTime, MayExtend
  <2>2. state.user # EmptyId
      BY <2>1 DEF RamInv, SessionShape
  <2>4. ~StartsEmpty(state.user)
      BY <2>1, <2>2, MessageType DEF RamInv, ClientCommands
  <2>5. state' \in States /\ state'.last = "EXTEND_TIME" /\ state'.user = state.user
      BY <1>0, <1>2, ExtendEffect
  <2> QED
      BY <2>2, <2>4, <2>5 DEF SessionShape, Serving
<1>3. CASE EndUse(p)
    BY <1>3, BootType DEF EndUse, Change, SessionShape, Serving, BootState
<1>4. CASE Load(p)
    BY <1>4, MessageType
    DEF RamInv, Load, Change, MayLoad, States, ClientCommands, SessionShape, Serving, BootState
<1> QED
    BY <1>1, <1>2, <1>3, <1>4

\* Everything else leaves the state alone, except a restart.
LEMMA StateStep ==
    ASSUME [Next]_vars
    PROVE  \/ UNCHANGED state
           \/ Restart
           \/ \E p \in Publishers : FirstUse(p) \/ ExtendTime(p) \/ EndUse(p) \/ Load(p)
BY DEF Next, vars, Publish, Proceed, Claim, ClaimTimeout, Apply, Reject, Ignore, Notify,
       NotifyTimeout, Save, Saved, Return, ReadLock, ReadUnlock, service

LEMMA ShapeStep ==
    ASSUME RamInv, [Next]_vars
    PROVE  state' \in States /\ SessionShape'
<1>1. CASE UNCHANGED state
    BY <1>1 DEF RamInv, ServiceTypeOK, SessionShape, Serving
<1>2. CASE Restart
    BY <1>2, BootType DEF Restart, SessionShape, Serving, BootState
<1> QED
    BY <1>1, <1>2, StateStep, ChangeType

LEMMA PublishType ==
    ASSUME ServiceTypeOK, NEW p \in Publishers, NEW c \in Commands, Publish(p, c)
    PROVE  ServiceTypeOK'
BY DEF ServiceTypeOK, Publish, Move, Places

LEMMA ProceedType ==
    ASSUME ServiceTypeOK, NEW p \in Publishers, Proceed(p), state' \in States
    PROVE  ServiceTypeOK'
<1>1. CASE Claim(p) \/ ClaimTimeout(p)
    BY <1>1 DEF ServiceTypeOK, Claim, ClaimTimeout, Move, Places
<1>2. CASE Apply(p)
    BY <1>2 DEF ServiceTypeOK, Apply, FirstUse, ExtendTime, EndUse, Load, Reject, Change, Ignore,
        Move, Places
<1>3. CASE Notify(p) \/ NotifyTimeout(p)
    BY <1>3 DEF ServiceTypeOK, Notify, NotifyTimeout, Move, Places
<1>4. CASE Save(p) \/ Saved(p) \/ Return(p)
    BY <1>4 DEF ServiceTypeOK, Save, service, Saved, Return, Move, Places
<1> QED
    BY <1>1, <1>2, <1>3, <1>4 DEF Proceed

LEMMA RamStep ==
    ASSUME RamInv, [Next]_vars
    PROVE  RamInv'
<1>1. ServiceTypeOK /\ state' \in States /\ SessionShape'
    BY ShapeStep DEF RamInv
<1>2. ASSUME NEW p \in Publishers, NEW c \in Commands, Publish(p, c) PROVE ServiceTypeOK'
    BY <1>1, <1>2, PublishType
<1>3. ASSUME NEW p \in Publishers, Proceed(p) PROVE ServiceTypeOK'
    BY <1>1, <1>3, ProceedType
<1>4. ASSUME NEW r \in Readers, ReadLock(r) \/ ReadUnlock(r) PROVE ServiceTypeOK'
    BY <1>1, <1>4 DEF ServiceTypeOK, ReadLock, ReadUnlock
<1>5. ASSUME Restart PROVE ServiceTypeOK'
    BY <1>1, <1>5 DEF ServiceTypeOK, Restart, Places
<1>6. ASSUME UNCHANGED vars PROVE ServiceTypeOK'
    BY <1>1, <1>6 DEF ServiceTypeOK, vars
<1> QED
    BY <1>1, <1>2, <1>3, <1>4, <1>5, <1>6 DEF RamInv, Next

LEMMA RamInit == Init => RamInv
BY BootType DEF Init, Booted, RamInv, ServiceTypeOK, SessionShape, Serving, BootState, Places

LEMMA RamInvariance == Spec => []RamInv
BY RamInit, RamStep, PTL DEF Spec

(***************************************************************************)
(* The fields of the state always agree: a free workstation is all zero, a *)
(* session has a holder with a name.                                       *)
(***************************************************************************)
THEOREM ShapeKept == Spec => []SessionShape
BY RamInvariance, PTL DEF RamInv
-----------------------------------------------------------------------------
(***************************************************************************)
(* A session is its user's until he ends it or the board restarts.         *)
(***************************************************************************)
THEOREM SessionIsKept == Spec => SessionKept
<1> DEFINE Kept == Serving /\ state' # state =>
                      \/ state' = BootState /\ unsaved' = "boot"
                      \/ /\ cmd.user = state.user
                         /\ \/ cmd.id = "END_USE" /\ state' = BootState
                            \/ cmd.id = "EXTEND_TIME" /\ state'.user = state.user
                                                     /\ state'.start = state.start
                                                     /\ state'.end > state.end
<1>1. ASSUME RamInv, [Next]_vars, Serving, state' # state PROVE Kept
  <2>0. state \in States /\ ~StartsEmpty(state.user) /\ state.last \notin {"END_USE", "LOAD"}
      BY <1>1 DEF RamInv, ServiceTypeOK, SessionShape, Serving
  <2>1. CASE Restart
      BY <2>1 DEF Restart
  <2>2. ASSUME NEW p \in Publishers, FirstUse(p) \/ Load(p) PROVE FALSE
      BY <2>0, <2>2 DEF FirstUse, MayStart, Load, MayLoad
  <2>3. ASSUME NEW p \in Publishers, EndUse(p) PROVE Kept
      BY <2>3 DEF EndUse, MayEnd, Change
  <2>4. ASSUME NEW p \in Publishers, ExtendTime(p) PROVE Kept
    <3>1. state'.user = state.user /\ state'.start = state.start /\ state'.end > state.end
        BY <2>0, <2>4, ExtendEffect
    <3> QED
        BY <2>4, <3>1 DEF ExtendTime, MayExtend
  <2> QED
      BY <1>1, <2>1, <2>2, <2>3, <2>4, StateStep
<1>2. RamInv /\ [Next]_vars => [Kept]_vars
    BY <1>1
<1> QED
    BY RamInvariance, <1>2, PTL DEF Spec, SessionKept

(***************************************************************************)
(* A reservation in somebody's name is replaced by an earlier one only.    *)
(***************************************************************************)
THEOREM EarliestIsKept == Spec => EarliestStays
<1> DEFINE Earlier == (/\ state.last = "LOAD" /\ ~StartsEmpty(state.user)
                       /\ state'.last = "LOAD" /\ state' # state)
                          => state'.start < state.start
<1>1. ASSUME RamInv, [Next]_vars PROVE Earlier
  <2>1. CASE Restart
      BY <2>1 DEF Restart, BootState
  <2>2. ASSUME NEW p \in Publishers, FirstUse(p) \/ EndUse(p) \/ ExtendTime(p)
        PROVE  state'.last # "LOAD"
      BY <1>1, <2>2, ExtendEffect
      DEF FirstUse, EndUse, Change, BootState, RamInv, ServiceTypeOK
  <2>3. ASSUME NEW p \in Publishers, Load(p) PROVE Earlier
      BY <2>3 DEF Load, MayLoad, Change
  <2> QED
      BY <1>1, <2>1, <2>2, <2>3, StateStep
<1>2. RamInv /\ [Next]_vars => [Earlier]_vars
    BY <1>1
<1> QED
    BY RamInvariance, <1>2, PTL DEF Spec, EarliestStays
-----------------------------------------------------------------------------
\* The invariant of the channels' locks.
LockInv == ServiceTypeOK /\ LocksHeld

\* A move of one publisher that changes the locks as its place demands.
LEMMA LockStep ==
    ASSUME LockInv, [Next]_vars
    PROVE  LocksHeld'
<1> USE DEF LockInv, ServiceTypeOK, LocksHeld, Move
<1>1. ASSUME NEW p \in Publishers, NEW c \in Commands, Publish(p, c) PROVE LocksHeld'
    BY <1>1 DEF Publish
<1>2. ASSUME NEW p \in Publishers, Claim(p) \/ ClaimTimeout(p) PROVE LocksHeld'
    BY <1>2 DEF Claim, ClaimTimeout
<1>3. ASSUME NEW p \in Publishers, Apply(p) PROVE LocksHeld'
    BY <1>3 DEF Apply, FirstUse, ExtendTime, EndUse, Load, Reject, Change, Ignore
<1>4. ASSUME NEW p \in Publishers, Notify(p) \/ NotifyTimeout(p) PROVE LocksHeld'
    BY <1>4 DEF Notify, NotifyTimeout
<1>5. ASSUME NEW p \in Publishers, Save(p) \/ Saved(p) \/ Return(p) PROVE LocksHeld'
    BY <1>5 DEF Save, service, Saved, Return
<1>6. ASSUME NEW r \in Readers, ReadLock(r) \/ ReadUnlock(r) PROVE LocksHeld'
    BY <1>6 DEF ReadLock, ReadUnlock
<1>7. ASSUME Restart PROVE LocksHeld'
    BY <1>7 DEF Restart
<1>8. ASSUME UNCHANGED vars PROVE LocksHeld'
    BY <1>8 DEF vars
<1> QED
    BY <1>1, <1>2, <1>3, <1>4, <1>5, <1>6, <1>7, <1>8 DEF Next, Proceed

(***************************************************************************)
(* A channel is held by exactly the publisher that is between its lock and *)
(* its unlock: commands are applied and saved one at a time.               *)
(***************************************************************************)
THEOREM OneAtATime == Spec => []LocksHeld
<1>1. Init => LocksHeld
    BY DEF Init, Booted, LocksHeld
<1>2. RamInv /\ LocksHeld /\ [Next]_vars => LocksHeld'
    BY LockStep DEF LockInv, RamInv
<1> QED
    BY RamInvariance, <1>1, <1>2, PTL DEF Spec
-----------------------------------------------------------------------------
\* The calls of an update, the only storage operation of this service.
UpdateSteps == {"idle", "look", "erase", "probe", "write", "returned"}

FlashTypeOK ==
    /\ nvs \in [{"schedule"} -> States \cup {Absent}]
    /\ pc \in [Publishers -> UpdateSteps]
    /\ call \in [Publishers -> Flash!Calls]
    /\ ret \in [Publishers -> Flash!Codes]

(***************************************************************************)
(* Why flash is current when nothing says otherwise: a change marks the    *)
(* state unsaved until its publisher has come back from the update, and an *)
(* update that reports success has stored what it was given.               *)
(***************************************************************************)
SaveInv ==
    /\ FlashTypeOK
    /\ SavesCurrent
    /\ FlashCurrent
    /\ \A p \in Publishers : at[p] \in {"notify", "save"} => unsaved = "pending"
    /\ \A p \in Publishers : pc[p] = "returned" /\ ret[p] = "ok" => nvs["schedule"] = state
    /\ unsaved = "pending" => \E p \in Publishers : at[p] \in {"notify", "save"}

FullInv == RamInv /\ LocksHeld /\ SaveInv

LEMMA FlashNoCall == Flash!NoCall \in Flash!Calls /\ Flash!NoCall.id = "schedule"
BY DEF Flash!NoCall, Flash!Calls, Flash!AllKinds

LEMMA SaveInit == Init => SaveInv
BY FlashNoCall
DEF Init, Booted, SaveInv, FlashTypeOK, SavesCurrent, FlashCurrent, UpdateSteps,
    Flash!QuietThreads, Flash!Codes

\* One NVS call of an update, as the service sees it.
LEMMA UpdateCall ==
    ASSUME FlashTypeOK, NEW p \in Publishers, Flash!Advance(p),
           call[p].kind = "update", call[p].id = "schedule", call[p].data \in States
    PROVE  /\ FlashTypeOK'
           /\ call' = call
           /\ pc'[p] # "idle"
           /\ \A q \in Publishers \ {p} : pc'[q] = pc[q] /\ ret'[q] = ret[q]
           /\ pc'[p] = "returned" /\ ret'[p] = "ok" => nvs'["schedule"] = call[p].data
           /\ pc[p] # "returned"
<1> USE DEF FlashTypeOK, UpdateSteps, Flash!Codes, Flash!Id, Flash!Goto, Flash!Return,
            Flash!DeleteDone
<1>1. ~Flash!Fetch(p)
    BY DEF Flash!Fetch
<1>2. CASE Flash!Look(p)
    BY <1>2 DEF Flash!Look
<1>3. CASE Flash!Erase(p)
    BY <1>3 DEF Flash!Erase
<1>4. CASE Flash!Probe(p)
    BY <1>4 DEF Flash!Probe
<1>5. CASE Flash!Write(p)
    BY <1>5 DEF Flash!Write
<1> QED
    BY <1>1, <1>2, <1>3, <1>4, <1>5 DEF Flash!Advance

\* Only the publisher that holds the command channel is anywhere but at rest.
LEMMA Alone ==
    ASSUME LocksHeld, NEW p \in Publishers, at[p] # "idle"
    PROVE  cmdLock = p /\ cmdLock # Nobody /\ \A q \in Publishers \ {p} : at[q] = "idle"
BY DEF LocksHeld

LEMMA SaveQuiet ==
    ASSUME FullInv, UNCHANGED <<state, unsaved, flash>>,
           cmdLock' = Nobody => unsaved # "pending",
           \A p \in Publishers : at'[p] = at[p] \/ {at[p], at'[p]} \subseteq {"idle", "claim", "apply", "done"}
    PROVE  SaveInv'
<1> USE DEF FullInv, SaveInv, flash
<1>1. FlashTypeOK'
    BY DEF FlashTypeOK
<1>2. SavesCurrent' /\ FlashCurrent'
    BY DEF SavesCurrent, FlashCurrent
<1>3. \A p \in Publishers : at'[p] \in {"notify", "save"} <=> at[p] \in {"notify", "save"}
    OBVIOUS
<1> QED
    BY <1>1, <1>2, <1>3

LEMMA SaveQuietSteps ==
    ASSUME FullInv, NEW p \in Publishers,
           \/ \E c \in Commands : Publish(p, c)
           \/ Claim(p) \/ ClaimTimeout(p) \/ Reject(p) \/ Return(p)
    PROVE  SaveInv'
<1>1. UNCHANGED <<state, unsaved, flash>>
    BY DEF Publish, Claim, ClaimTimeout, Reject, Ignore, Return
<1>2. \A q \in Publishers :
          at'[q] = at[q] \/ {at[q], at'[q]} \subseteq {"idle", "claim", "apply", "done"}
    BY DEF FullInv, RamInv, ServiceTypeOK, Publish, Claim, ClaimTimeout, Reject, Ignore, Return, Move
<1>3. cmdLock' = Nobody => unsaved # "pending"
  <2>1. CASE \E c \in Commands : Publish(p, c)
      BY <2>1 DEF Publish
  <2>2. CASE Claim(p) \/ ClaimTimeout(p) \/ Reject(p)
      BY <2>2 DEF FullInv, SaveInv, FlashCurrent, Claim, ClaimTimeout, Reject, Ignore
  <2>3. CASE Return(p)
      BY <2>3, Alone DEF FullInv, SaveInv, Return, Move
  <2> QED
      BY <2>1, <2>2, <2>3
<1> QED
    BY <1>1, <1>2, <1>3, SaveQuiet

\* A command that is carried out, until its update starts.
LEMMA SaveChange ==
    ASSUME FullInv, NEW p \in Publishers, NEW s \in States, Change(p, s)
    PROVE  SaveInv'
<1>1. /\ at[p] = "apply" /\ cmdLock = p /\ cmdLock # Nobody
      /\ \A q \in Publishers \ {p} : at[q] = "idle"
    BY Alone DEF FullInv, Change, Move
<1>2. at'[p] = "notify" /\ \A q \in Publishers \ {p} : at'[q] = at[q]
    BY DEF FullInv, RamInv, ServiceTypeOK, Change, Move
<1>3. \A q \in Publishers : pc[q] = "idle" /\ pc' = pc
    BY <1>1 DEF FullInv, SaveInv, SavesCurrent, Change, flash
<1>4. FlashTypeOK'
    BY DEF FullInv, SaveInv, FlashTypeOK, Change, flash
<1> QED
    BY <1>1, <1>2, <1>3, <1>4 DEF SaveInv, SavesCurrent, FlashCurrent, Change, flash

LEMMA SaveNotify ==
    ASSUME FullInv, NEW p \in Publishers, Notify(p)
    PROVE  SaveInv'
<1>1. /\ at[p] = "notify" /\ cmdLock = p /\ cmdLock # Nobody
      /\ \A q \in Publishers \ {p} : at[q] = "idle"
    BY Alone DEF FullInv, Notify, Move
<1>2. at'[p] = "save" /\ \A q \in Publishers \ {p} : at'[q] = at[q]
    BY DEF FullInv, RamInv, ServiceTypeOK, Notify, Move
<1>3. \A q \in Publishers : pc[q] = "idle"
    BY <1>1 DEF FullInv, SaveInv, SavesCurrent
<1>4. state \in States /\ [kind |-> "update", id |-> "schedule", data |-> state] \in Flash!Calls
    BY DEF FullInv, RamInv, ServiceTypeOK, Flash!Calls, Flash!AllKinds
<1>5. /\ pc' = [pc EXCEPT ![p] = "look"]
      /\ call' = [call EXCEPT ![p] = [kind |-> "update", id |-> "schedule", data |-> state]]
      /\ UNCHANGED <<nvs, ret, state, unsaved, cmdLock>>
    BY DEF Notify, Flash!Call, Flash!FirstStep
<1>6. FlashTypeOK'
    BY <1>4, <1>5 DEF FullInv, SaveInv, FlashTypeOK, UpdateSteps
<1>7. SavesCurrent'
    BY <1>1, <1>2, <1>3, <1>5 DEF FullInv, SaveInv, SavesCurrent, FlashTypeOK
<1>8. unsaved = "pending"
    BY <1>1 DEF FullInv, SaveInv
<1>9. FlashCurrent'
    BY <1>1, <1>5, <1>8 DEF FlashCurrent
<1>10. \A q \in Publishers : pc'[q] # "returned"
    BY <1>3, <1>5 DEF FullInv, SaveInv, FlashTypeOK
<1> QED
    BY <1>2, <1>5, <1>6, <1>7, <1>8, <1>9, <1>10 DEF SaveInv

LEMMA SaveTimeout ==
    ASSUME FullInv, NEW p \in Publishers, NotifyTimeout(p)
    PROVE  SaveInv'
<1>1. at[p] = "notify" /\ \A q \in Publishers \ {p} : at[q] = "idle"
    BY Alone DEF FullInv, NotifyTimeout, Move
<1>2. at'[p] = "done" /\ \A q \in Publishers \ {p} : at'[q] = at[q]
    BY DEF FullInv, RamInv, ServiceTypeOK, NotifyTimeout, Move
<1> QED
    BY <1>1, <1>2
    DEF FullInv, SaveInv, FlashTypeOK, SavesCurrent, FlashCurrent, NotifyTimeout, flash

\* The update itself.
LEMMA SaveCall ==
    ASSUME FullInv, NEW p \in Publishers, Save(p)
    PROVE  SaveInv'
<1>1. /\ at[p] = "save" /\ cmdLock = p /\ cmdLock # Nobody
      /\ \A q \in Publishers \ {p} : at[q] = "idle"
    BY Alone DEF FullInv, Save
<1>2. UNCHANGED <<cmdLock, state, at, unsaved>>
    BY DEF Save, service
<1>3. /\ call[p] = [kind |-> "update", id |-> "schedule", data |-> state]
      /\ \A q \in Publishers \ {p} : pc[q] = "idle"
      /\ state \in States /\ FlashTypeOK /\ unsaved = "pending"
    BY <1>1 DEF FullInv, RamInv, ServiceTypeOK, SaveInv, SavesCurrent
<1>4. /\ FlashTypeOK' /\ call' = call /\ pc'[p] # "idle"
      /\ \A q \in Publishers \ {p} : pc'[q] = pc[q]
      /\ pc'[p] = "returned" /\ ret'[p] = "ok" => nvs'["schedule"] = state
    BY <1>3, UpdateCall DEF Save
<1>5. SavesCurrent'
    BY <1>1, <1>2, <1>3, <1>4 DEF SavesCurrent
<1>6. FlashCurrent'
    BY <1>1, <1>2, <1>3 DEF FlashCurrent
<1>7. \A q \in Publishers : pc'[q] = "returned" /\ ret'[q] = "ok" => nvs'["schedule"] = state
    BY <1>3, <1>4
<1> QED
    BY <1>1, <1>2, <1>3, <1>4, <1>5, <1>6, <1>7 DEF SaveInv

LEMMA SaveReturn ==
    ASSUME FullInv, NEW p \in Publishers, Saved(p)
    PROVE  SaveInv'
<1>1. /\ at[p] = "save" /\ cmdLock = p /\ cmdLock # Nobody
      /\ \A q \in Publishers \ {p} : at[q] = "idle"
    BY Alone DEF FullInv, Saved, Move
<1>2. at'[p] = "done" /\ \A q \in Publishers \ {p} : at'[q] = at[q]
    BY DEF FullInv, RamInv, ServiceTypeOK, Saved, Move
<1>3. /\ pc[p] = "returned" /\ pc' = [pc EXCEPT ![p] = "idle"]
      /\ call' = [call EXCEPT ![p] = Flash!NoCall] /\ ret' = [ret EXCEPT ![p] = "none"]
      /\ UNCHANGED <<nvs, state, cmdLock>>
      /\ unsaved' = IF ret[p] = "ok" THEN "no" ELSE "not_stored"
    BY DEF Saved, Flash!Resume
<1>4. \A q \in Publishers : pc'[q] = "idle"
    BY <1>1, <1>3 DEF FullInv, SaveInv, SavesCurrent, FlashTypeOK
<1>5. FlashTypeOK'
    BY <1>3, FlashNoCall DEF FullInv, SaveInv, FlashTypeOK, UpdateSteps, Flash!Codes
<1>6. unsaved' = "no" => nvs'["schedule"] = state'
    BY <1>3 DEF FullInv, SaveInv
<1> QED
    BY <1>1, <1>2, <1>3, <1>4, <1>5, <1>6 DEF SaveInv, SavesCurrent, FlashCurrent

LEMMA FullStep ==
    ASSUME FullInv, [Next]_vars
    PROVE  FullInv'
<1>1. RamInv' /\ LocksHeld'
    BY RamStep, LockStep DEF FullInv, RamInv, LockInv
<1>2. ASSUME NEW p \in Publishers, NEW c \in Commands, Publish(p, c) PROVE SaveInv'
    BY <1>2, SaveQuietSteps
<1>3. ASSUME NEW p \in Publishers, Claim(p) \/ ClaimTimeout(p) \/ Return(p) PROVE SaveInv'
    BY <1>3, SaveQuietSteps
<1>4. ASSUME NEW p \in Publishers, Apply(p) PROVE SaveInv'
  <2>1. CASE Reject(p)
      BY <2>1, SaveQuietSteps
  <2>2. CASE FirstUse(p) \/ ExtendTime(p) \/ EndUse(p) \/ Load(p)
    <3>1. state' \in States
        BY <2>2, ChangeType DEF FullInv
    <3>2. Change(p, state')
        BY <2>2 DEF FirstUse, ExtendTime, EndUse, Load, Change
    <3> QED
        BY <3>1, <3>2, SaveChange
  <2> QED
      BY <1>4, <2>1, <2>2 DEF Apply
<1>5. ASSUME NEW p \in Publishers,
             Notify(p) \/ NotifyTimeout(p) \/ Save(p) \/ Saved(p)
      PROVE  SaveInv'
    BY <1>5, SaveNotify, SaveTimeout, SaveCall, SaveReturn
<1>6. ASSUME NEW r \in Readers, ReadLock(r) \/ ReadUnlock(r) PROVE SaveInv'
    BY <1>6, SaveQuiet DEF ReadLock, ReadUnlock, FullInv, SaveInv, FlashCurrent
<1>7. ASSUME Restart PROVE SaveInv'
    BY <1>7, FlashNoCall
    DEF Restart, Flash!Crash, FullInv, SaveInv, FlashTypeOK, SavesCurrent, FlashCurrent,
        UpdateSteps, Flash!Codes
<1>8. ASSUME UNCHANGED vars PROVE SaveInv'
    BY <1>8, SaveQuiet DEF vars, flash, FullInv, SaveInv, FlashCurrent
<1> QED
    BY <1>1, <1>2, <1>3, <1>4, <1>5, <1>6, <1>7, <1>8 DEF Next, Proceed, FullInv

LEMMA FullInvariance == Spec => []FullInv
<1>1. Init => FullInv
    BY RamInit, SaveInit DEF Init, Booted, LocksHeld, FullInv
<1>2. FullInv /\ [Next]_vars => FullInv'
    BY FullStep
<1> QED
    BY <1>1, <1>2, PTL DEF Spec

(***************************************************************************)
(* Every variable of the service, those of the storage operations it is in *)
(* included, keeps its type.                                               *)
(***************************************************************************)
THEOREM TypeCorrect == Spec => []TypeOK
<1>1. FullInv => TypeOK
    BY DEF FullInv, RamInv, SaveInv, FlashTypeOK, TypeOK, Flash!TypeOK, UpdateSteps, Flash!Steps
<1> QED
    BY FullInvariance, <1>1, PTL

(***************************************************************************)
(* Flash holds the state in force unless the boot, a timeout of the notify *)
(* or a failed update is to blame, whatever publishers and readers do.     *)
(***************************************************************************)
THEOREM FlashIsCurrent == Spec => []FlashCurrent
BY FullInvariance, PTL DEF FullInv, SaveInv

(***************************************************************************)
(* The state an update is storing is the one in force until it is stored.  *)
(***************************************************************************)
THEOREM NoTornSave == Spec => []SavesCurrent
BY FullInvariance, PTL DEF FullInv, SaveInv
-----------------------------------------------------------------------------
\* What is proved of the storage component, for the threads and states of the service.
Store == INSTANCE StorageProofs WITH
    Threads <- Publishers, NvsIds <- {"schedule"}, Data <- States, Kinds <- {"update"}

LEMMA StoreAssumed == Store!StorageAssumption
BY FlashAssumption DEF Flash!StorageAssumption, Store!StorageAssumption, Flash!AllKinds,
    Store!AllKinds

\* The service reaches flash through the operations of the component only, and
\* with arguments they are made for.
LEMMA StoreStep ==
    ASSUME RamInv, [Next]_vars
    PROVE  [Store!Next]_(Store!vars)
<1>1. state \in States
    BY DEF RamInv, ServiceTypeOK
<1>2. ASSUME NEW p \in Publishers, Notify(p) PROVE Store!Next
  <2>1. Store!Call(p, "update", "schedule", state)
      BY <1>2 DEF Notify, Flash!Call, Store!Call, Flash!FirstStep, Store!FirstStep
  <2>2. state \in Store!Argument("update")
      BY <1>1 DEF Store!Argument
  <2> QED
      BY <2>1, <2>2 DEF Store!Next
<1>3. ASSUME NEW p \in Publishers, Save(p) PROVE Store!Next
  <2>1. Store!Advance(p)
      BY <1>3 DEF Save, Flash!Advance, Store!Advance, Flash!Fetch, Store!Fetch, Flash!Look,
          Store!Look, Flash!Erase, Store!Erase, Flash!Probe, Store!Probe, Flash!Write,
          Store!Write, Flash!Return, Store!Return, Flash!Goto, Store!Goto, Flash!DeleteDone,
          Store!DeleteDone, Flash!Stored, Store!Stored, Flash!Id, Store!Id
  <2> QED
      BY <2>1 DEF Store!Next
<1>4. ASSUME NEW p \in Publishers, Saved(p) PROVE Store!Next
    BY <1>4 DEF Saved, Flash!Resume, Store!Next, Store!Resume, Flash!NoCall, Store!NoCall
<1>5. ASSUME Restart PROVE Store!Next
    BY <1>5 DEF Restart, Flash!Crash, Store!Next, Store!Crash, Flash!NoCall, Store!NoCall
<1>6. ASSUME NEW p \in Publishers, Apply(p) PROVE UNCHANGED Store!vars
    BY <1>6 DEF Apply, FirstUse, ExtendTime, EndUse, Load, Reject, Change, Ignore, flash,
        Store!vars
<1>7. ASSUME NEW p \in Publishers,
             (\E c \in Commands : Publish(p, c)) \/ Claim(p) \/ ClaimTimeout(p) \/ NotifyTimeout(p)
                 \/ Return(p)
      PROVE  UNCHANGED Store!vars
    BY <1>7 DEF Publish, Claim, ClaimTimeout, NotifyTimeout, Return, flash, Store!vars
<1>8. ASSUME NEW r \in Readers, ReadLock(r) \/ ReadUnlock(r) PROVE UNCHANGED Store!vars
    BY <1>8 DEF ReadLock, ReadUnlock, flash, Store!vars
<1>9. UNCHANGED vars => UNCHANGED Store!vars
    BY DEF vars, Store!vars
<1> QED
    BY <1>2, <1>3, <1>4, <1>5, <1>6, <1>7, <1>8, <1>9 DEF Next, Proceed

(***************************************************************************)
(* What the storage component promises reaches the schedule: a schedule    *)
(* that was saved is never lost to a later save, however commands, readers *)
(* and timeouts interleave, but for a write that fails and a restart in    *)
(* the gap of an update (schedule.c:200-214, storage.c:111-132).           *)
(***************************************************************************)
THEOREM SavedScheduleKept == Spec => Flash!ObjectKept
<1>1. Init => Store!StorageInv
  <2>1. Init => SaveInv
      BY SaveInit
  <2> QED
      BY <2>1, FlashNoCall
      DEF Init, Flash!QuietThreads, SaveInv, FlashTypeOK, Store!StorageInv, Store!TypeOK,
          Store!CallsFit, Store!Steps, UpdateSteps, Flash!Calls, Store!Calls, Flash!AllKinds,
          Store!AllKinds, Flash!Codes, Store!Codes, Flash!NoCall, Store!Argument
<1>2. RamInv /\ Store!StorageInv /\ [Next]_vars => Store!StorageInv'
    BY StoreAssumed, StoreStep, Store!NextInv
<1>3. RamInv /\ Store!StorageInv /\ [Next]_vars
          => [\A i \in {"schedule"} : (Flash!Kept(i) /\ ~Flash!Kept(i)') =>
                  \/ \E t \in Publishers : pc[t] = "erase" /\ call[t].kind = "delete"
                  \/ \E t \in Publishers : pc[t] = "write" /\ ret'[t] = "EIO"
                  \/ \A t \in Publishers : pc'[t] = "idle"]_(Flash!vars)
  <2> SUFFICES ASSUME RamInv, Store!StorageInv, [Next]_vars, NEW i \in {"schedule"},
                      Flash!Kept(i), ~Flash!Kept(i)'
               PROVE  Store!Excused
      BY DEF Store!Excused
  <2>1. Store!Kept(i) /\ ~Store!Kept(i)'
      BY DEF Flash!Kept, Store!Kept, Flash!Stored, Store!Stored, Flash!InGap, Store!InGap
  <2> QED
      BY <2>1, StoreAssumed, StoreStep, Store!StepKeeps
<1> QED
    BY RamInvariance, <1>1, <1>2, <1>3, PTL DEF Spec, Flash!ObjectKept
-----------------------------------------------------------------------------
\* How many steps publisher p has to take until zbus_chan_pub returns: the NVS
\* calls of an update are four at most.
CallsLeft(p) ==
    CASE pc[p] = "look"  -> 4
      [] pc[p] = "erase" -> 3
      [] pc[p] = "probe" -> 2
      [] pc[p] = "write" -> 1
      [] pc[p] \in {"idle", "returned"} -> 0

StepsLeft(p) ==
    CASE at[p] = "claim"  -> 9
      [] at[p] = "apply"  -> 8
      [] at[p] = "notify" -> 7
      [] at[p] = "save"   -> 2 + CallsLeft(p)
      [] at[p] = "done"   -> 1
      [] at[p] = "idle"   -> 0

(***************************************************************************)
(* The part of PublishReturns that needs no fairness: a command has nine   *)
(* steps to take in its publisher's thread at most, each leaves fewer, and *)
(* nothing that readers or other publishers do gives it more: a channel    *)
(* they hold costs a command its effect, never another try                 *)
(* (schedule.c:47-214, storage.c:111-132).                                 *)
(***************************************************************************)
PublishRunsOut ==
    [][\A p \in Publishers :
          /\ Proceed(p) => StepsLeft(p)' < StepsLeft(p)
          /\ at[p] # "idle" => StepsLeft(p)' <= StepsLeft(p)]_vars

\* What the steps left are, place by place, before and after a step.
LEMMA PlaceValue ==
    ASSUME FullInv, NEW p \in Publishers
    PROVE  /\ CallsLeft(p) \in 0..4
           /\ at[p] = "claim" => StepsLeft(p) = 9
           /\ at[p] = "apply" => StepsLeft(p) = 8
           /\ at[p] = "notify" => StepsLeft(p) = 7
           /\ at[p] = "save" => StepsLeft(p) = 2 + CallsLeft(p)
           /\ at[p] = "done" => StepsLeft(p) = 1
           /\ at[p] = "idle" => StepsLeft(p) = 0
           /\ at[p] \in Places
<1>1. pc[p] \in UpdateSteps /\ at[p] \in Places
    BY DEF FullInv, RamInv, ServiceTypeOK, SaveInv, FlashTypeOK
<1>2. CallsLeft(p) \in 0..4
    BY <1>1 DEF UpdateSteps, CallsLeft
<1> QED
    BY <1>1, <1>2 DEF StepsLeft

\* An NVS call of an update leaves fewer of them.
LEMMA UpdateSpends ==
    ASSUME FullInv, NEW p \in Publishers, Save(p)
    PROVE  CallsLeft(p)' < CallsLeft(p)
<1> USE DEF CallsLeft, Flash!Goto, Flash!Return, Flash!DeleteDone
<1>1. /\ call[p].kind = "update" /\ pc \in [Publishers -> UpdateSteps]
      /\ Flash!Advance(p)
    BY DEF FullInv, SaveInv, SavesCurrent, FlashTypeOK, Save
<1>2. ~Flash!Fetch(p)
    BY <1>1 DEF Flash!Fetch, UpdateSteps
<1>3. CASE Flash!Look(p)
    BY <1>1, <1>3 DEF Flash!Look
<1>4. CASE Flash!Erase(p)
    BY <1>1, <1>4 DEF Flash!Erase
<1>5. CASE Flash!Probe(p)
    BY <1>1, <1>5 DEF Flash!Probe
<1>6. CASE Flash!Write(p)
    BY <1>1, <1>6 DEF Flash!Write
<1> QED
    BY <1>1, <1>2, <1>3, <1>4, <1>5, <1>6 DEF Flash!Advance

LEMMA ProceedSpends ==
    ASSUME FullInv, FullInv', NEW p \in Publishers, Proceed(p)
    PROVE  StepsLeft(p)' < StepsLeft(p)
<1>1. at \in [Publishers -> Places] /\ CallsLeft(p) \in 0..4
    BY PlaceValue DEF FullInv, RamInv, ServiceTypeOK
<1>2. /\ CallsLeft(p)' \in 0..4
      /\ at'[p] = "apply" => StepsLeft(p)' = 8
      /\ at'[p] = "notify" => StepsLeft(p)' = 7
      /\ at'[p] = "save" => StepsLeft(p)' = 2 + CallsLeft(p)'
      /\ at'[p] = "done" => StepsLeft(p)' = 1
      /\ at'[p] = "idle" => StepsLeft(p)' = 0
  <2>1. pc'[p] \in UpdateSteps /\ at'[p] \in Places
      BY DEF FullInv, RamInv, ServiceTypeOK, SaveInv, FlashTypeOK
  <2>2. CallsLeft(p)' \in 0..4
      BY <2>1 DEF UpdateSteps, CallsLeft
  <2> QED
      BY <2>1, <2>2 DEF StepsLeft
<1>3. CASE Claim(p) \/ ClaimTimeout(p)
    BY <1>1, <1>2, <1>3, PlaceValue DEF Claim, ClaimTimeout, Move
<1>4. CASE Apply(p)
  <2>1. at[p] = "apply" /\ at'[p] \in {"notify", "done"}
      BY <1>1, <1>4 DEF Apply, FirstUse, ExtendTime, EndUse, Load, Reject, Change, Ignore, Move
  <2> QED
      BY <1>2, <2>1, PlaceValue
<1>5. CASE Notify(p) \/ NotifyTimeout(p)
  <2>1. at[p] = "notify" /\ at'[p] \in {"save", "done"}
      BY <1>1, <1>5 DEF Notify, NotifyTimeout, Move
  <2>2. StepsLeft(p)' \in 1..6
      BY <1>2, <2>1
  <2> QED
      BY <2>1, <2>2, PlaceValue
<1>6. CASE Save(p)
  <2>1. at[p] = "save" /\ at'[p] = "save"
      BY <1>6 DEF Save, service
  <2> QED
      BY <1>1, <1>2, <1>6, <2>1, PlaceValue, UpdateSpends
<1>7. CASE Saved(p) \/ Return(p)
  <2>1. (at[p] = "save" /\ at'[p] = "done") \/ (at[p] = "done" /\ at'[p] = "idle")
      BY <1>1, <1>7 DEF Saved, Return, Move
  <2> QED
      BY <1>1, <1>2, <2>1, PlaceValue
<1> QED
    BY <1>3, <1>4, <1>5, <1>6, <1>7 DEF Proceed

\* A step that is not of p, nor a restart, leaves its place and its calls.
LEMMA OthersSpare ==
    ASSUME FullInv, NEW p \in Publishers, at[p] # "idle", [Next]_vars, ~Proceed(p), ~Restart
    PROVE  at'[p] = at[p] /\ pc'[p] = pc[p]
<1> USE DEF FullInv, RamInv, ServiceTypeOK
<1>1. \A q \in Publishers \ {p} : at[q] = "idle"
    BY Alone
<1>2. ASSUME NEW q \in Publishers, NEW c \in Commands, Publish(q, c) PROVE FALSE
    BY <1>2, Alone DEF Publish
<1>3. ASSUME NEW q \in Publishers \ {p} PROVE ~Proceed(q)
    BY <1>1, <1>3 DEF Proceed, Claim, ClaimTimeout, Apply, FirstUse, ExtendTime, EndUse, Load,
        Reject, Change, Ignore, Notify, NotifyTimeout, Save, Saved, Return, Move
<1>4. ASSUME NEW r \in Readers, ReadLock(r) \/ ReadUnlock(r) PROVE at' = at /\ pc' = pc
    BY <1>4 DEF ReadLock, ReadUnlock, flash
<1>5. UNCHANGED vars => at' = at /\ pc' = pc
    BY DEF vars
<1> QED
    BY <1>2, <1>3, <1>4, <1>5 DEF Next

(***************************************************************************)
(* Whoever else publishes or reads, a command takes at most nine steps     *)
(* between the lock and the unlock of its channel.                         *)
(***************************************************************************)
THEOREM PublishIsBounded == Spec => PublishRunsOut
<1> DEFINE Spent(p) == /\ Proceed(p) => StepsLeft(p)' < StepsLeft(p)
                       /\ at[p] # "idle" => StepsLeft(p)' <= StepsLeft(p)
<1>1. ASSUME FullInv, [Next]_vars, NEW p \in Publishers PROVE Spent(p)
  <2>1. FullInv'
      BY <1>1, FullStep
  <2>2. StepsLeft(p) \in Nat
      BY <1>1, PlaceValue DEF Places
  <2>3. StepsLeft(p)' \in Nat /\ (at'[p] = "idle" => StepsLeft(p)' = 0)
    <3>1. pc'[p] \in UpdateSteps /\ at'[p] \in Places
        BY <2>1 DEF FullInv, RamInv, ServiceTypeOK, SaveInv, FlashTypeOK
    <3>2. CallsLeft(p)' \in 0..4
        BY <3>1 DEF UpdateSteps, CallsLeft
    <3> QED
        BY <3>1, <3>2 DEF StepsLeft, Places
  <2>4. Proceed(p) => StepsLeft(p)' < StepsLeft(p)
      BY <1>1, <2>1, ProceedSpends
  <2>5. ASSUME at[p] # "idle" PROVE StepsLeft(p)' <= StepsLeft(p)
    <3>1. CASE Proceed(p)
        BY <2>2, <2>3, <2>4, <3>1
    <3>2. CASE Restart
        BY <2>2, <2>3, <3>2 DEF Restart
    <3>3. CASE ~Proceed(p) /\ ~Restart
      <4>1. at'[p] = at[p] /\ pc'[p] = pc[p]
          BY <1>1, <2>5, <3>3, OthersSpare
      <4>2. StepsLeft(p)' = StepsLeft(p)
          BY <4>1 DEF StepsLeft, CallsLeft
      <4> QED
          BY <2>2, <4>2
    <3> QED
        BY <3>1, <3>2, <3>3
  <2> QED
      BY <2>4, <2>5
<1>2. FullInv /\ [Next]_vars => [\A p \in Publishers : Spent(p)]_vars
    BY <1>1
<1> QED
    BY FullInvariance, <1>2, PTL DEF Spec, PublishRunsOut
-----------------------------------------------------------------------------
\* The mapping is unambiguous: the three phases are those of last_cmd.
LEMMA PhaseOf ==
    ASSUME state \in States
    PROVE  /\ Phase = "free" <=> state.last = "END_USE"
           /\ Phase = "reserved" <=> state.last = "LOAD"
           /\ Phase = "inUse" <=> Serving
BY DEF Phase, Serving, States, ClientCommands

LEMMA StationStep ==
    ASSUME RamInv, [Next]_vars
    PROVE  [Station!Next]_(Station!vars)
<1>0. state \in States /\ state' \in States /\ SessionShape /\ SessionShape'
    BY ShapeStep DEF RamInv, ServiceTypeOK
<1>1. /\ Phase = "free" <=> state.last = "END_USE"
      /\ Phase = "reserved" <=> state.last = "LOAD"
      /\ Phase = "inUse" <=> Serving
    BY <1>0, PhaseOf
<1>2. /\ Phase' = "free" <=> state'.last = "END_USE"
      /\ Phase' = "reserved" <=> state'.last = "LOAD"
      /\ Phase' = "inUse" <=> state'.last \in {"FIRST_USE", "EXTEND_TIME"}
    BY <1>0 DEF Phase, Serving, States, ClientCommands
<1>3. CASE UNCHANGED state
    BY <1>3 DEF Station!vars, Phase, Serving
<1>4. CASE state' = BootState
  <2>1. CASE state.last = "END_USE"
      BY <1>0, <1>3, <1>4, <2>1 DEF SessionShape
  <2>2. CASE state.last # "END_USE"
      BY <1>1, <1>2, <1>4, <2>2 DEF Station!Next, Station!Release, Station!Free, BootState
  <2> QED
      BY <2>1, <2>2
<1>5. ASSUME NEW p \in Publishers, FirstUse(p) PROVE Station!Start
  <2>1. state' = [user |-> cmd.user, last |-> "FIRST_USE", start |-> 0, end |-> FirstUseMinutes]
      BY <1>5 DEF FirstUse, Change
  <2>2. state.last \in {"END_USE", "LOAD"} /\ cmd.user # EmptyId
      BY <1>5 DEF FirstUse, MayStart
  <2>3. state'.user \in Images \ {EmptyId}
      BY <1>0, <2>1, <2>2 DEF States
  <2> QED
      BY <1>1, <1>2, <2>1, <2>2, <2>3
      DEF Station!Start, Station!NewHolder, Station!Windows, Serving
<1>6. ASSUME NEW p \in Publishers, ExtendTime(p) PROVE Station!Extend
  <2>1. state' = [user |-> state.user, last |-> "EXTEND_TIME",
                  start |-> state.start, end |-> state.end + ExtendMinutes]
          /\ state.end + ExtendMinutes > state.end /\ state.end + ExtendMinutes \in Nat
      BY <1>0, <1>6, ExtendEffect
  <2>2. state.last # "END_USE" /\ state.start \in Nat
      BY <1>0, <1>6 DEF ExtendTime, MayExtend, States
  <2> QED
      BY <1>1, <1>2, <2>1, <2>2 DEF Station!Extend, Station!Windows
<1>7. ASSUME NEW p \in Publishers, Load(p) PROVE Station!Reserve
  <2>1. state' = [user |-> cmd.user, last |-> "LOAD", start |-> cmd.start, end |-> cmd.end]
      BY <1>7 DEF Load, Change
  <2>2. state'.user \in Images \ {EmptyId} /\ state'.start \in Nat /\ state'.end \in Nat
      BY <1>0, <1>7, <2>1 DEF Load, MayLoad, States
  <2>3. Station!NewHolder /\ Phase' = "reserved"
      BY <1>2, <2>1, <2>2 DEF Station!NewHolder, Station!Windows
  <2>4. CASE StartsEmpty(state.user)
    <3>1. Phase \in {"free", "reserved"} /\ state.user \in Images
        BY <1>0, <1>1, <2>4 DEF SessionShape, Serving, States, ClientCommands
    <3> QED
        BY <2>3, <2>4, <3>1 DEF Station!Reserve
  <2>5. CASE state.last = "LOAD" /\ cmd.start < state.start
      BY <1>1, <2>1, <2>3, <2>5 DEF Station!Reserve
  <2> QED
      BY <1>7, <2>4, <2>5 DEF Load, MayLoad
<1>8. Restart => state' = BootState
    BY DEF Restart
<1>9. ASSUME NEW p \in Publishers, EndUse(p) PROVE state' = BootState
    BY <1>9 DEF EndUse, Change
<1> QED
    BY <1>3, <1>4, <1>5, <1>6, <1>7, <1>8, <1>9, StateStep DEF Station!Next

(***************************************************************************)
(* The schedule service implements the workstation.                        *)
(***************************************************************************)
THEOREM ImplementsWorkstation == Spec => StationSpec
<1>1. Init => Station!Init
  <2>1. Init => state = BootState
      BY DEF Init, Booted
  <2>2. state = BootState => Phase = "free"
      BY BootType, PhaseOf DEF BootState
  <2> QED
      BY <2>1, <2>2 DEF Station!Init, Station!Free, BootState
<1>2. RamInv /\ [Next]_vars => [Station!Next]_(Station!vars)
    BY StationStep
<1> QED
    BY RamInvariance, <1>1, <1>2, PTL DEF Spec, Station!Spec, StationSpec
=============================================================================
