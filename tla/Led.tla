-------------------------------- MODULE Led --------------------------------
(***************************************************************************)
(* The LED service (src/services/led.c).  Its thread takes commands        *)
(* from led_cmd_chan and writes three pins; blinking is a k_timer whose    *)
(* interrupt submits a work item to the system workqueue.  The workqueue's *)
(* thread is cooperative and of higher priority than the service's: a      *)
(* submitted item runs before the service takes its next step, whole,      *)
(* unless another item of the queue (the button's, which waits up to 100   *)
(* ms for a channel) has blocked it.                                       *)
(***************************************************************************)
EXTENDS Naturals

CONSTANTS
    Messages,    \* the commands that are published
    QueueSize,   \* CONFIG_LED_CMD_SUB_QUEUE_SIZE
    QueueBlocks  \* whether another work item may block the system workqueue

Colors == {"RED", "GREEN", "BLUE"}

Patterns == {"OFF", "SOLID", "SLOW", "FAST"}

ASSUME LedAssumption ==
    /\ Messages \subseteq [color : Colors \cup {"DEFAULT"}, pattern : Patterns]
    /\ QueueSize \in Nat \ {0}
    /\ QueueBlocks \in BOOLEAN

\* ZBUS_MSG_INIT of the channel and the initializer of self.current_state.
NoLight == [color |-> "DEFAULT", pattern |-> "OFF"]

VARIABLES
    msg,         \* the message of led_cmd_chan
    publishing,  \* whether a publisher holds the channel
    queue,       \* how many notifications led_cmd_sub holds
    at,          \* how far the service thread is
    current,     \* self.current_state
    blinking,    \* whether self.blink_timer runs
    submitted,   \* whether self.work is on the system workqueue
    blocked,     \* whether another work item blocks the system workqueue
    blink,       \* self.blink_state
    lit          \* the pins that are active

bus == <<msg, publishing, queue>>
workqueue == <<submitted, blocked>>
vars == <<msg, publishing, queue, at, current, blinking, submitted, blocked, blink, lit>>

Places == {"wait", "read", "execute", "red", "green", "blue", "set"}

TypeOK ==
    /\ msg \in Messages \cup {NoLight}
    /\ publishing \in BOOLEAN
    /\ queue \in 0..QueueSize
    /\ at \in Places
    /\ current \in Messages \cup {NoLight}
    /\ blinking \in BOOLEAN
    /\ submitted \in BOOLEAN
    /\ blocked \in BOOLEAN
    /\ blink \in BOOLEAN
    /\ lit \subseteq Colors

Init ==
    /\ msg = NoLight
    /\ publishing = FALSE
    /\ queue = 0
    /\ at = "wait"
    /\ current = NoLight
    /\ blinking = FALSE
    /\ submitted = FALSE
    /\ blocked = FALSE
    /\ blink = FALSE
    /\ lit = {}
-----------------------------------------------------------------------------
\* zbus_chan_pub: the publisher locks the channel and copies its message in ...
Publish(m) ==
    /\ ~publishing
    /\ publishing' = TRUE
    /\ msg' = m
    /\ UNCHANGED <<queue, at, current, blinking, workqueue, blink, lit>>

\* ... and notifies the subscriber.  When its queue stays full until the timeout
\* the publisher gets an error, and the message is nevertheless in the channel.
\* The unlock follows at once: a subscriber that is woken in between waits for it
\* up to 100 ms.
Notify ==
    /\ publishing
    /\ \/ queue < QueueSize /\ queue' = queue + 1
       \/ queue = QueueSize /\ UNCHANGED queue
    /\ publishing' = FALSE
    /\ UNCHANGED <<msg, at, current, blinking, workqueue, blink, lit>>

\* The thread runs only when the workqueue's thread has nothing to run.
Scheduled == ~submitted \/ blocked

Go(from, to) == Scheduled /\ at = from /\ at' = to

\* zbus_sub_wait.
Wait ==
    /\ queue > 0
    /\ queue' = queue - 1
    /\ Go("wait", "read")
    /\ UNCHANGED <<msg, publishing, current, blinking, workqueue, blink, lit>>

\* Mutant: a command is skipped when its color is the one that is set.
ReadNewColor ==
    /\ ~publishing
    /\ current' = IF msg.color = current.color THEN current ELSE msg
    /\ Go("read", "execute")
    /\ UNCHANGED <<bus, blinking, workqueue, blink, lit>>

\* zbus_chan_read: the message read is the channel's latest, whichever
\* notification is being answered.
Read ==
    /\ ~publishing
    /\ current' = msg
    /\ Go("read", "execute")
    /\ UNCHANGED <<bus, blinking, workqueue, blink, lit>>

ReadTimeout ==
    /\ publishing
    /\ Go("read", "wait")
    /\ UNCHANGED <<bus, current, blinking, workqueue, blink, lit>>

\* Mutant: the other pins are not switched off first.
SteadyNoOff ==
    /\ current.pattern \in {"OFF", "SOLID"}
    /\ blinking' = FALSE
    /\ Go("execute", "set")
    /\ UNCHANGED <<bus, current, workqueue, blink, lit>>

\* baiatool_led_set_off and baiatool_led_set_solid stop the timer and go on to
\* baiatool_led_set_basic.
Steady ==
    /\ current.pattern \in {"OFF", "SOLID"}
    /\ blinking' = FALSE
    /\ Go("execute", "red")
    /\ UNCHANGED <<bus, current, workqueue, blink, lit>>

\* baiatool_led_set_slow and baiatool_led_set_fast leave the pins to the timer.
Blink ==
    /\ current.pattern \in {"SLOW", "FAST"}
    /\ blinking' = TRUE
    /\ blink' = FALSE
    /\ Go("execute", "wait")
    /\ UNCHANGED <<bus, current, workqueue, lit>>

\* led_off, one pin at a time.  Writing a pin of the on-chip GPIO does not fail, so
\* the early returns of led_off and set_basic are left out.
Clear(color, from, to) ==
    /\ lit' = lit \ {color}
    /\ Go(from, to)
    /\ UNCHANGED <<bus, current, blinking, workqueue, blink>>

LedOff ==
    \/ Clear("RED", "red", "green")
    \/ Clear("GREEN", "green", "blue")
    \/ Clear("BLUE", "blue", "set")

\* The pins after set_basic's switch on the color.
Switched(on) ==
    IF current.color = "DEFAULT" THEN {}
    ELSE IF on THEN lit \cup {current.color}
    ELSE lit \ {current.color}

SetBasic ==
    /\ lit' = Switched(current.pattern = "SOLID")
    /\ Go("set", "wait")
    /\ UNCHANGED <<bus, current, blinking, workqueue, blink>>

\* blink_timer_expire, in interrupt context: submitting twice is submitting once.
Expire ==
    /\ blinking
    /\ submitted' = TRUE
    /\ UNCHANGED <<bus, at, current, blinking, blocked, blink, lit>>

\* Mutant: the handler does not switch the other pins off.
BlinkWorkNoOff ==
    /\ submitted
    /\ ~blocked
    /\ submitted' = FALSE
    /\ blink' = ~blink
    /\ lit' = Switched(blink')
    /\ UNCHANGED <<bus, at, current, blinking, blocked>>

\* blink_work_handler: led_off, then the color of the current command.
BlinkWork ==
    /\ submitted
    /\ ~blocked
    /\ submitted' = FALSE
    /\ blink' = ~blink
    /\ lit' = IF blink' /\ current.color # "DEFAULT" THEN {current.color} ELSE {}
    /\ UNCHANGED <<bus, at, current, blinking, blocked>>

\* Another item of the system workqueue starts to wait, and comes back.
Block ==
    /\ QueueBlocks
    /\ ~blocked
    /\ blocked' = TRUE
    /\ UNCHANGED <<bus, at, current, blinking, submitted, blink, lit>>

Unblock ==
    /\ blocked
    /\ blocked' = FALSE
    /\ UNCHANGED <<bus, at, current, blinking, submitted, blink, lit>>

Thread == Wait \/ Read \/ ReadTimeout \/ Steady \/ Blink \/ LedOff \/ SetBasic

Next ==
    \/ \E m \in Messages : Publish(m)
    \/ Notify
    \/ Thread
    \/ Expire
    \/ BlinkWork
    \/ Block
    \/ Unblock

\* The thread gets the processor between two expiries of the timer (200 ms or
\* more apart): strong fairness for its steps.
Fairness ==
    /\ WF_vars(Notify)
    /\ SF_vars(Thread)
    /\ WF_vars(BlinkWork)
    /\ WF_vars(Unblock)

Spec == Init /\ [][Next]_vars /\ Fairness
-----------------------------------------------------------------------------
(***************************************************************************)
(* Two colors are never lit at once, wherever the timer's work interrupts  *)
(* the thread's pin writes and whatever commands come (led.c:63-118).      *)
(***************************************************************************)
OneLit == \A a, b \in lit : a = b

\* The strengthening: a pin the thread has just cleared is lit again only by the
\* work item, which lights the color of the command being executed.
PinsCleared ==
    /\ at = "green" => lit \subseteq {current.color, "GREEN", "BLUE"}
    /\ at = "blue"  => lit \subseteq {current.color, "BLUE"}
    /\ at = "set"   => lit \subseteq {current.color}

(***************************************************************************)
(* Once the thread has carried out an OFF or SOLID command, only the color *)
(* of that command can be lit, although a work item submitted by the timer *)
(* it stopped may still run, and may light what is off or clear what is    *)
(* solid (led.c:63-128).                                                   *)
(***************************************************************************)
SteadyColor ==
    at \in {"wait", "read"} /\ current.pattern \in {"OFF", "SOLID"} => lit \subseteq {current.color}

(***************************************************************************)
(* A service that has nothing left to read is carrying out, or has carried *)
(* out, the last message there is: coalesced and dropped notifications and *)
(* reads that time out lose no last command (led.c:189-207).               *)
(***************************************************************************)
NothingMissed == ~publishing /\ queue = 0 /\ at # "read" => current = msg

LedInv == TypeOK /\ OneLit /\ PinsCleared

(***************************************************************************)
(* When publishers stop, the thread executes the last message there is,    *)
(* although the queue holds notifications and not messages, drops them     *)
(* when it is full, and a read may time out (led.c:189-207).               *)
(***************************************************************************)
LastCommandExecuted == <>[]~publishing => <>[](at = "wait" /\ current = msg)
=============================================================================
