-------------------------- MODULE ScheduleService --------------------------
(***************************************************************************)
(* The schedule service (src/services/schedule.c): who may use the         *)
(* workstation, and until when.                                            *)
(*                                                                         *)
(* The service has no thread.  Its listener runs in the thread that        *)
(* publishes on schedule_cmd_chan, with that channel locked; it claims     *)
(* schedule_state_chan, applies the command and releases the channel, then *)
(* notifies it, which takes the channel's lock again and runs the listener *)
(* that saves the state to flash with baiatool_storage_update.             *)
(***************************************************************************)
EXTENDS Naturals, UserId

CONSTANTS
    Publishers,       \* threads that publish on schedule_cmd_chan
    Readers,          \* threads that read schedule_state_chan
    Nobody,           \* the owner of a free channel
    ClientIds,        \* user ids of FIRST_USE, EXTEND_TIME and END_USE commands
    ServerIds,        \* user ids of LOAD commands
    Slots,            \* start and end times of LOAD commands
    FirstUseMinutes,  \* CONFIG_SCHEDULE_FIRST_USE_TIMEOUT_MINUTES
    ExtendMinutes,    \* CONFIG_SCHEDULE_EXTEND_TIMEOUT_MINUTES
    Horizon,          \* bound: no session is extended past this time
    Absent,           \* what NVS holds for an id without an object
    IOFaults,         \* whether an NVS call may fail
    Restarts          \* whether the board may restart

ASSUME ScheduleAssumption ==
    /\ Nobody \notin Publishers \cup Readers
    /\ Publishers \cap Readers = {}
    /\ ClientIds \subseteq Images
    /\ \A id \in ClientIds : StartsEmpty(id) => id = EmptyId
    /\ ServerIds \subseteq Images
    /\ Slots \subseteq [start : Nat, end : Nat]
    /\ FirstUseMinutes \in Nat
    /\ ExtendMinutes \in Nat \ {0}

ClientCommands == {"FIRST_USE", "EXTEND_TIME", "END_USE"}

\* AMOUNT stands for a command id that the listener's switch does not know.
Commands ==
    [id : ClientCommands \cup {"AMOUNT"}, user : ClientIds, start : {0}, end : {0}]
    \cup {[id |-> "LOAD", user |-> u, start |-> s.start, end |-> s.end] :
              u \in ServerIds, s \in Slots}

States == [user : Images, last : ClientCommands \cup {"LOAD"}, start : Nat, end : Nat]

\* ZBUS_MSG_INIT of the two channels.
BootCommand == [id |-> "END_USE", user |-> EmptyId, start |-> 0, end |-> 0]
BootState == [user |-> EmptyId, last |-> "END_USE", start |-> 0, end |-> 0]

VARIABLES
    cmd,        \* the message of schedule_cmd_chan
    cmdLock,    \* the thread that holds schedule_cmd_chan
    state,      \* the message of schedule_state_chan
    stateLock,  \* the thread that holds schedule_state_chan
    at,         \* how far each publisher is in zbus_chan_pub
    unsaved,    \* history: why flash may differ from state, "no" if it may not
    nvs, pc, call, ret

Flash == INSTANCE Storage WITH
    Threads <- Publishers, NvsIds <- {"schedule"}, Data <- States, Kinds <- {"update"}

ASSUME FlashAssumption == Flash!StorageAssumption

service == <<cmd, cmdLock, state, stateLock, at, unsaved>>
flash == <<nvs, pc, call, ret>>
vars == <<cmd, cmdLock, state, stateLock, at, unsaved, nvs, pc, call, ret>>

Places == {"idle", "claim", "apply", "notify", "save", "done"}

ServiceTypeOK ==
    /\ cmd \in Commands \cup {BootCommand}
    /\ cmdLock \in Publishers \cup {Nobody}
    /\ state \in States
    /\ stateLock \in Publishers \cup Readers \cup {Nobody}
    /\ at \in [Publishers -> Places]
    /\ unsaved \in {"no", "boot", "pending", "not_notified", "not_stored"}

TypeOK == ServiceTypeOK /\ Flash!TypeOK

Booted ==
    /\ cmd = BootCommand
    /\ cmdLock = Nobody
    /\ state = BootState
    /\ stateLock = Nobody
    /\ at = [p \in Publishers |-> "idle"]
    /\ unsaved = "boot"

Init ==
    /\ Booted
    /\ nvs = [i \in {"schedule"} |-> Absent]
    /\ Flash!QuietThreads
-----------------------------------------------------------------------------
Move(p, from, to) == at[p] = from /\ at' = [at EXCEPT ![p] = to]

\* zbus_chan_pub: lock the channel and copy the message in.  A publisher that
\* times out waiting for the lock changes nothing.
Publish(p, c) ==
    /\ cmdLock = Nobody
    /\ c.id = "EXTEND_TIME" => state.end + ExtendMinutes <= Horizon
    /\ cmdLock' = p
    /\ cmd' = c
    /\ Move(p, "idle", "claim")
    /\ UNCHANGED <<state, stateLock, unsaved, flash>>

Claim(p) ==
    /\ stateLock = Nobody
    /\ stateLock' = p
    /\ Move(p, "claim", "apply")
    /\ UNCHANGED <<cmd, cmdLock, state, unsaved, flash>>

\* Mutant: the listener tries again until it gets the channel.
ClaimRetries(p) == at[p] = "claim" /\ stateLock # Nobody /\ UNCHANGED vars

\* A reader keeps the channel for 200 ms: the command is dropped.
ClaimTimeout(p) ==
    /\ stateLock # Nobody
    /\ Move(p, "claim", "done")
    /\ UNCHANGED <<cmd, cmdLock, state, stateLock, unsaved, flash>>

\* The two ways out of the switch, each with the zbus_chan_finish that follows.
Change(p, s) ==
    /\ state' = s
    /\ unsaved' = "pending"
    /\ stateLock' = Nobody
    /\ Move(p, "apply", "notify")
    /\ UNCHANGED <<cmd, cmdLock, flash>>

\* Mutant: a rejected command returns without zbus_chan_finish.
IgnoreKeepsLock(p) ==
    /\ Move(p, "apply", "done")
    /\ UNCHANGED <<cmd, cmdLock, state, stateLock, unsaved, flash>>

Ignore(p) ==
    /\ stateLock' = Nobody
    /\ Move(p, "apply", "done")
    /\ UNCHANGED <<cmd, cmdLock, state, unsaved, flash>>

\* Mutant: any session may be taken over.
MayStartAlways == cmd.id = "FIRST_USE" /\ cmd.user # EmptyId

MayStart ==
    /\ cmd.id = "FIRST_USE"
    /\ cmd.user # EmptyId
    /\ state.last \in {"END_USE", "LOAD"}

MayExtend ==
    /\ cmd.id = "EXTEND_TIME"
    /\ state.last # "END_USE"
    /\ state.user = cmd.user

MayEnd ==
    /\ cmd.id = "END_USE"
    /\ cmd.user # EmptyId
    /\ state.last # "END_USE"
    /\ state.user = cmd.user

\* Mutant: a reservation that starts at the same time replaces the one there is.
MayLoadEqual ==
    /\ cmd.id = "LOAD"
    /\ cmd.user # EmptyId
    /\ StartsEmpty(state.user) \/ (state.last = "LOAD" /\ cmd.start <= state.start)

MayLoad ==
    /\ cmd.id = "LOAD"
    /\ cmd.user # EmptyId
    /\ \/ StartsEmpty(state.user)
       \/ state.last = "LOAD" /\ cmd.start < state.start

FirstUse(p) ==
    /\ MayStart
    /\ Change(p, [user |-> cmd.user, last |-> "FIRST_USE", start |-> 0, end |-> FirstUseMinutes])

\* Mutants: a session that is shortened, and one that is extended without
\* setting "changed".
ExtendBackwards(p) ==
    /\ MayExtend
    /\ Change(p, [state EXCEPT !.end = @ - ExtendMinutes, !.last = "EXTEND_TIME"])
ExtendUnnoticed(p) ==
    /\ MayExtend
    /\ state' = [state EXCEPT !.end = @ + ExtendMinutes, !.last = "EXTEND_TIME"]
    /\ stateLock' = Nobody
    /\ Move(p, "apply", "done")
    /\ UNCHANGED <<cmd, cmdLock, unsaved, flash>>

ExtendTime(p) ==
    /\ MayExtend
    /\ Change(p, [state EXCEPT !.end = @ + ExtendMinutes, !.last = "EXTEND_TIME"])

\* Mutant: the user id is not cleared.
EndUseKeepsId(p) == MayEnd /\ Change(p, [BootState EXCEPT !.user = state.user])

EndUse(p) ==
    /\ MayEnd
    /\ Change(p, BootState)

Load(p) ==
    /\ MayLoad
    /\ Change(p, [user |-> cmd.user, last |-> "LOAD", start |-> cmd.start, end |-> cmd.end])

Reject(p) ==
    /\ ~(MayStart \/ MayExtend \/ MayEnd \/ MayLoad)
    /\ Ignore(p)

\* Mutant: the save is left to run after the publisher has returned.
NotifyDeferred(p) ==
    /\ stateLock = Nobody
    /\ cmdLock' = Nobody
    /\ Move(p, "notify", "save")
    /\ Flash!Call(p, "update", "schedule", state)
    /\ UNCHANGED <<cmd, state, stateLock, unsaved>>

\* zbus_chan_notify takes the lock again and calls schedule_storage_update.
Notify(p) ==
    /\ stateLock = Nobody
    /\ stateLock' = p
    /\ Move(p, "notify", "save")
    /\ Flash!Call(p, "update", "schedule", state)
    /\ UNCHANGED <<cmd, cmdLock, state, unsaved>>

\* A reader keeps the channel for 300 ms: the change is not saved.
NotifyTimeout(p) ==
    /\ stateLock # Nobody
    /\ unsaved' = "not_notified"
    /\ Move(p, "notify", "done")
    /\ UNCHANGED <<cmd, cmdLock, state, stateLock, flash>>

\* One NVS call of baiatool_storage_update.
Save(p) ==
    /\ at[p] = "save"
    /\ Flash!Advance(p)
    /\ UNCHANGED service

Saved(p) ==
    /\ Flash!Resume(p)
    /\ unsaved' = IF ret[p] = "ok" THEN "no" ELSE "not_stored"
    /\ stateLock' = Nobody
    /\ Move(p, "save", "done")
    /\ UNCHANGED <<cmd, cmdLock, state>>

\* The listener returns and zbus_chan_pub unlocks the command channel.
Return(p) ==
    /\ cmdLock' = Nobody
    /\ Move(p, "done", "idle")
    /\ UNCHANGED <<cmd, state, stateLock, unsaved, flash>>

\* zbus_chan_read of another thread: it may be preempted with the lock held.
ReadLock(r) ==
    /\ stateLock = Nobody
    /\ stateLock' = r
    /\ UNCHANGED <<cmd, cmdLock, state, at, unsaved, flash>>

ReadUnlock(r) ==
    /\ stateLock = r
    /\ stateLock' = Nobody
    /\ UNCHANGED <<cmd, cmdLock, state, at, unsaved, flash>>

\* Nothing reads the schedule back from flash when the board comes up.
Restart ==
    /\ cmd' = BootCommand
    /\ cmdLock' = Nobody
    /\ state' = BootState
    /\ stateLock' = Nobody
    /\ at' = [p \in Publishers |-> "idle"]
    /\ unsaved' = "boot"
    /\ Flash!Crash

Apply(p) == FirstUse(p) \/ ExtendTime(p) \/ EndUse(p) \/ Load(p) \/ Reject(p)

\* What a thread does once it is inside zbus_chan_pub.
Proceed(p) ==
    \/ Claim(p)
    \/ ClaimTimeout(p)
    \/ Apply(p)
    \/ Notify(p)
    \/ NotifyTimeout(p)
    \/ Save(p)
    \/ Saved(p)
    \/ Return(p)

Next ==
    \/ \E p \in Publishers, c \in Commands : Publish(p, c)
    \/ \E p \in Publishers : Proceed(p)
    \/ \E r \in Readers : ReadLock(r) \/ ReadUnlock(r)
    \/ Restart

\* A thread that is inside a zbus call keeps running: every wait has a timeout.
Fairness ==
    /\ \A p \in Publishers : WF_vars(Proceed(p))
    /\ \A r \in Readers : WF_vars(ReadUnlock(r))

Spec == Init /\ [][Next]_vars /\ Fairness
-----------------------------------------------------------------------------
Serving == state.last \in {"FIRST_USE", "EXTEND_TIME"}

(***************************************************************************)
(* The fields of the state agree with each other.  Every command after     *)
(* this one relies on it: LOAD tells a free workstation by the first byte  *)
(* of user_id, the others by last_cmd or by memcmp (schedule.c:67-172).    *)
(***************************************************************************)
SessionShape ==
    /\ state.last = "END_USE" => state = BootState
    /\ state.last # "END_USE" => state.user # EmptyId
    /\ Serving => ~StartsEmpty(state.user)

\* The holder of a channel is the one publisher that is between its lock and its
\* unlock, so commands are applied, and saved, one at a time.
LocksHeld ==
    /\ \A p \in Publishers : at[p] # "idle" <=> cmdLock = p
    /\ \A p \in Publishers : at[p] \in {"apply", "save"} <=> stateLock = p

\* While an update of flash runs, the state it was given is the one in force.
SavesCurrent ==
    \A p \in Publishers :
        IF at[p] = "save"
        THEN /\ pc[p] # "idle"
             /\ call[p] = [kind |-> "update", id |-> "schedule", data |-> state]
        ELSE pc[p] = "idle"

(***************************************************************************)
(* Once a change has been notified and its update reported success, flash  *)
(* holds the state in force, whatever ran in between; and a command that   *)
(* has returned leaves no change unaccounted for (schedule.c:181-214).     *)
(***************************************************************************)
FlashCurrent ==
    /\ unsaved = "no" => nvs["schedule"] = state
    /\ cmdLock = Nobody => unsaved # "pending"

(***************************************************************************)
(* A session belongs to the user who started it until he ends it or the    *)
(* board restarts: no command of another user, and no LOAD, changes any    *)
(* field of it (schedule.c:67-172).                                        *)
(***************************************************************************)
SessionKept ==
    [][Serving /\ state' # state =>
           \/ state' = BootState /\ unsaved' = "boot"
           \/ /\ cmd.user = state.user
              /\ \/ cmd.id = "END_USE" /\ state' = BootState
                 \/ cmd.id = "EXTEND_TIME" /\ state'.user = state.user
                                          /\ state'.start = state.start
                                          /\ state'.end > state.end]_vars

(***************************************************************************)
(* A reservation in somebody's name gives way only to an earlier one, to a *)
(* session, or to its end: of the reservations loaded while the            *)
(* workstation is not used, the earliest stays (schedule.c:146-172).       *)
(***************************************************************************)
EarliestStays ==
    [][(/\ state.last = "LOAD" /\ ~StartsEmpty(state.user)
        /\ state'.last = "LOAD" /\ state' # state)
           => state'.start < state.start]_vars

\* A command that was published returns to its publisher, whoever else holds or
\* waits for the channels: the listeners wait for one lock while they hold
\* another (schedule.c:47-197).
PublishReturns == \A p \in Publishers : at[p] # "idle" ~> at[p] = "idle"

\* The workstation this service implements.
Phase ==
    CASE state.last = "END_USE" -> "free"
      [] state.last = "LOAD"    -> "reserved"
      [] Serving                -> "inUse"

Station == INSTANCE Workstation WITH
    Holders <- Images,
    NoHolder <- EmptyId,
    Displaceable <- {id \in Images : StartsEmpty(id)},
    FirstUntil <- FirstUseMinutes,
    phase <- Phase,
    holder <- state.user,
    window <- [from |-> state.start, until |-> state.end]

(***************************************************************************)
(* The service, with all its locks, timeouts and flash, implements the     *)
(* workstation: every step is one of its steps or leaves it as it is.      *)
(***************************************************************************)
StationSpec == Station!Spec
=============================================================================
