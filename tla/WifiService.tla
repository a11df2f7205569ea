---------------------------- MODULE WifiService ----------------------------
(***************************************************************************)
(* The Wi-Fi service (src/services/wifi.c) over the WPS driver.  Its code  *)
(* runs in three threads: its own, "cmd", which takes commands from        *)
(* wifi_cmd_chan; "net", which handles the network stack's events; and     *)
(* "esp", the HAL's event task, which reports the end of a WPS exchange    *)
(* and publishes a command of its own.  All three report the state, and    *)
(* none takes a lock to do so.  Credentials are left out, and with them    *)
(* wifi_save_credentials, whose result nobody looks at: what is stored     *)
(* decides only whether the board connects when it comes up.               *)
(***************************************************************************)
EXTENDS Naturals

CONSTANTS
    QueueSize,  \* CONFIG_WIFI_CMD_SUB_QUEUE_SIZE
    Faults,     \* whether a HAL call may fail
    Timeouts,   \* whether a reader may keep wifi_state_chan for 100 ms
    Restarts    \* whether the board may restart

ASSUME WifiAssumption ==
    /\ QueueSize \in Nat \ {0}
    /\ Faults \in BOOLEAN
    /\ Timeouts \in BOOLEAN
    /\ Restarts \in BOOLEAN

Threads == {"cmd", "net", "esp"}

States == {"DISCONNECTED", "CONNECTING", "CONNECTED", "FAILED"}

Commands == {"CONNECT", "CONNECT_WPS", "DISCONNECT"}

VARIABLES
    msg,         \* the message of wifi_cmd_chan
    publishing,  \* who holds wifi_cmd_chan: "nobody", "client" or "esp"
    queue,       \* how many notifications wifi_cmd_sub holds
    at,          \* how far each thread is
    tell,        \* what each thread is about to report, and where it goes on
    current,     \* current_state
    reported,    \* the message of wifi_state_chan
    lost,        \* history: the last report was lost to a timeout
    link,        \* the network stack's connection
    started, hal, exchange, stuck, where, op, code

Wps == INSTANCE EspWps WITH Callers <- {"cmd", "esp"}, HalFaults <- Faults

bus == <<msg, publishing, queue>>
driver == <<started, hal, exchange, stuck, where, op, code>>
vars == <<msg, publishing, queue, at, tell, current, reported, lost, link,
          started, hal, exchange, stuck, where, op, code>>

CmdPlaces == {"boot", "wait", "read", "connect", "stopping", "connecting", "request",
              "wps", "start", "starting", "disconnect", "report"}

EspPlaces == {"idle", "event", "offer", "notify", "report"}

Places == CmdPlaces \cup EspPlaces

\* Where a thread goes on once it has reported.
Sequels == {"connecting", "request", "start", "wait", "idle"}

NoReport == [state |-> "DISCONNECTED", then |-> "idle"]

ServiceTypeOK ==
    /\ msg \in Commands
    /\ publishing \in {"nobody", "client", "esp"}
    /\ queue \in 0..QueueSize
    /\ at \in [Threads -> Places]
    /\ tell \in [Threads -> [state : States, then : Sequels]]
    /\ current \in States
    /\ reported \in States
    /\ lost \in BOOLEAN
    /\ link \in {"down", "trying", "up"}

TypeOK == ServiceTypeOK /\ Wps!TypeOK

Init ==
    /\ msg = "DISCONNECT"
    /\ publishing = "nobody"
    /\ queue = 0
    /\ at = [t \in Threads |-> IF t = "cmd" THEN "boot" ELSE "idle"]
    /\ tell = [t \in Threads |-> NoReport]
    /\ current = "DISCONNECTED"
    /\ reported = "DISCONNECTED"
    /\ lost = FALSE
    /\ link = "down"
    /\ Wps!Init
-----------------------------------------------------------------------------
Go(t, from, to) == at[t] = from /\ at' = [at EXCEPT ![t] = to]

Quietly == UNCHANGED <<tell, current, reported, lost>>

\* publish_state: the assignment to current_state ...
Report(t, from, s, then) ==
    /\ Go(t, from, "report")
    /\ current' = s
    /\ tell' = [tell EXCEPT ![t] = [state |-> s, then |-> then]]
    /\ UNCHANGED <<reported, lost>>

\* ... and the zbus_chan_pub that follows it, whose failure nobody sees.
Reported(t) ==
    /\ Go(t, "report", tell[t].then)
    /\ \/ reported' = tell[t].state /\ lost' = FALSE
       \/ Timeouts /\ lost' = TRUE /\ UNCHANGED reported
    /\ tell' = [tell EXCEPT ![t] = NoReport]
    /\ UNCHANGED <<bus, current, link, driver>>

\* zbus_chan_pub on wifi_cmd_chan by the shell or the button: lock and copy ...
Publish(c) ==
    /\ publishing = "nobody"
    /\ publishing' = "client"
    /\ msg' = c
    /\ UNCHANGED <<queue, at, link, driver>> /\ Quietly

\* ... then notify and unlock: a subscriber that is woken in between waits for the
\* unlock up to 100 ms.  The message stays when the subscriber's queue is full.
Notified == queue' = IF queue < QueueSize THEN queue + 1 ELSE queue

Notify ==
    /\ publishing = "client"
    /\ publishing' = "nobody"
    /\ Notified
    /\ UNCHANGED <<msg, at, link, driver>> /\ Quietly
-----------------------------------------------------------------------------
\* wifi_auto_connect: with credentials if flash yields any.
AutoConnect ==
    /\ \E next \in {"connect", "wait"} : Go("cmd", "boot", next)
    /\ UNCHANGED <<bus, link, driver>> /\ Quietly

\* wifi_cmd_thread_fn.
Wait ==
    /\ queue > 0
    /\ queue' = queue - 1
    /\ Go("cmd", "wait", "read")
    /\ UNCHANGED <<msg, publishing, link, driver>> /\ Quietly

FirstPlace(c) ==
    CASE c = "CONNECT"     -> "connect"
      [] c = "CONNECT_WPS" -> "wps"
      [] c = "DISCONNECT"  -> "disconnect"

Read ==
    /\ publishing = "nobody"
    /\ Go("cmd", "read", FirstPlace(msg))
    /\ UNCHANGED <<bus, link, driver>> /\ Quietly

ReadTimeout ==
    /\ publishing # "nobody"
    /\ Go("cmd", "read", "wait")
    /\ UNCHANGED <<bus, link, driver>> /\ Quietly

\* Mutant: the connect is not preceded by a stop.
ConnectDirectly ==
    /\ Go("cmd", "connect", "connecting")
    /\ UNCHANGED <<bus, link, driver>> /\ Quietly

\* wifi_do_connect: esp32_wps_stop, whose failure is reported and not acted on,
Connect ==
    /\ Go("cmd", "connect", "stopping")
    /\ Wps!CallStop("cmd")
    /\ UNCHANGED <<bus, link>> /\ Quietly

Stopped ==
    /\ Wps!Leave("cmd")
    /\ \/ code["cmd"] = "ok" /\ Go("cmd", "stopping", "connecting") /\ Quietly
       \/ code["cmd"] = "EIO" /\ Report("cmd", "stopping", "FAILED", "connecting")
    /\ UNCHANGED <<bus, link>>

\* the state, and the request.
Connecting ==
    /\ Report("cmd", "connecting", "CONNECTING", "request")
    /\ UNCHANGED <<bus, link, driver>>

Request ==
    /\ \/ link' = "trying" /\ Go("cmd", "request", "wait") /\ Quietly
       \/ Report("cmd", "request", "FAILED", "wait") /\ UNCHANGED link
    /\ UNCHANGED <<bus, driver>>

\* wifi_do_connect_wps.
ConnectWps ==
    /\ Report("cmd", "wps", "CONNECTING", "start")
    /\ UNCHANGED <<bus, link, driver>>

StartWps ==
    /\ Go("cmd", "start", "starting")
    /\ Wps!CallStart("cmd")
    /\ UNCHANGED <<bus, link>> /\ Quietly

\* Mutant: the failure of a start is not reported.
WpsStartedSilently ==
    /\ Wps!Leave("cmd")
    /\ Go("cmd", "starting", "wait")
    /\ UNCHANGED <<bus, link>> /\ Quietly

WpsStarted ==
    /\ Wps!Leave("cmd")
    /\ \/ code["cmd"] = "ok" /\ Go("cmd", "starting", "wait") /\ Quietly
       \/ code["cmd"] = "EIO" /\ Report("cmd", "starting", "FAILED", "wait")
    /\ UNCHANGED <<bus, link>>

\* wifi_do_disconnect: the network stack answers with an event, if at all.  A
\* WPS exchange goes on.
Disconnect ==
    /\ Go("cmd", "disconnect", "wait")
    /\ UNCHANGED <<bus, link, driver>> /\ Quietly
-----------------------------------------------------------------------------
\* wifi_event_handler: a result answers an attempt; a disconnect ends a
\* connection or an attempt.
ConnectResult ==
    /\ link = "trying"
    /\ \/ link' = "up" /\ Report("net", "idle", "CONNECTED", "idle")
       \/ link' = "down" /\ Report("net", "idle", "FAILED", "idle")
    /\ UNCHANGED <<bus, driver>>

DisconnectResult ==
    /\ link # "down"
    /\ link' = "down"
    /\ Report("net", "idle", IF current = "CONNECTING" THEN "FAILED" ELSE "DISCONNECTED", "idle")
    /\ UNCHANGED <<bus, driver>>
-----------------------------------------------------------------------------
\* A WPS event: the driver's part, then wps_result_cb.
WpsEvent(result) ==
    /\ Go("esp", "idle", "event")
    /\ Wps!Event("esp", result)
    /\ UNCHANGED <<bus, link>> /\ Quietly

WpsResult ==
    /\ Wps!Leave("esp")
    /\ \/ code["esp"] = "ok" /\ Go("esp", "event", "offer") /\ Quietly
       \/ code["esp"] = "EIO" /\ Report("esp", "event", "FAILED", "idle")
    /\ UNCHANGED <<bus, link>>

Offer ==
    /\ publishing = "nobody"
    /\ publishing' = "esp"
    /\ msg' = "CONNECT"
    /\ Go("esp", "offer", "notify")
    /\ UNCHANGED <<queue, link, driver>> /\ Quietly

OfferTimeout ==
    /\ publishing = "client"
    /\ Report("esp", "offer", "FAILED", "idle")
    /\ UNCHANGED <<bus, link, driver>>

\* With the subscriber's queue full the publish fails, and the command is there.
NotifyLearned ==
    /\ publishing' = "nobody"
    /\ Notified
    /\ \/ queue < QueueSize /\ Go("esp", "notify", "idle") /\ Quietly
       \/ queue = QueueSize /\ Report("esp", "notify", "FAILED", "idle")
    /\ UNCHANGED <<msg, link, driver>>
-----------------------------------------------------------------------------
DriverStep(t) ==
    /\ at[t] \in {"stopping", "starting", "event"}
    /\ Wps!Advance(t)
    /\ UNCHANGED <<bus, at, link>> /\ Quietly

Restart ==
    /\ Restarts
    /\ msg' = "DISCONNECT"
    /\ publishing' = "nobody"
    /\ queue' = 0
    /\ at' = [t \in Threads |-> IF t = "cmd" THEN "boot" ELSE "idle"]
    /\ tell' = [t \in Threads |-> NoReport]
    /\ current' = "DISCONNECTED"
    /\ reported' = "DISCONNECTED"
    /\ lost' = FALSE
    /\ link' = "down"
    /\ Wps!PowerUp

CmdThread ==
    \/ AutoConnect
    \/ Wait
    \/ Read
    \/ ReadTimeout
    \/ Connect
    \/ Stopped
    \/ Connecting
    \/ Request
    \/ ConnectWps
    \/ StartWps
    \/ WpsStarted
    \/ Disconnect
    \/ Reported("cmd")
    \/ DriverStep("cmd")

\* What the event task does with an event it has begun to handle.
EspTask ==
    \/ WpsResult
    \/ Offer
    \/ OfferTimeout
    \/ NotifyLearned
    \/ Reported("esp")
    \/ DriverStep("esp")

Next ==
    \/ \E c \in Commands : Publish(c)
    \/ Notify
    \/ CmdThread
    \/ ConnectResult
    \/ DisconnectResult
    \/ Reported("net")
    \/ \E result \in {"success", "failure"} : WpsEvent(result)
    \/ EspTask
    \/ Restart

Spec == Init /\ [][Next]_vars
-----------------------------------------------------------------------------
HalAccounted == Wps!HalAccounted

(***************************************************************************)
(* The HAL that a successful WPS exchange has left on is stopped before    *)
(* the next connect is requested, whatever commands, events and failing    *)
(* starts come in between: a HAL that runs at the request is one that      *)
(* could not be stopped, or that of an exchange that has just failed and   *)
(* that the event task is about to stop (wifi.c:139-145).  That last case  *)
(* happens, although esp32_wps.h:52-54 has the connect rejected then: the  *)
(* event task has cleared the flag, so the service's own stop does nothing *)
(* and does not wait for the other.                                        *)
(***************************************************************************)
RequestAfterStop ==
    at["cmd"] \in {"connecting", "request"} /\ hal =>
        stuck \/ (where["esp"] = "halt" /\ op["esp"] = "failure")

\* Where in the driver each thread is follows from where in the service it is;
\* only the service's thread starts anything.
DriverFit ==
    /\ at["cmd"] = "stopping" => /\ op["cmd"] = "stop"
                                /\ where["cmd"] \in {"check", "clear", "halt", "back"}
    /\ at["cmd"] \notin {"stopping", "starting"} => where["cmd"] = "out"
    /\ where["esp"] \in {"out", "disable", "check", "clear", "halt", "back"}
    /\ where["esp"] \in {"check", "clear", "halt"} => op["esp"] = "failure"

\* The flag, once the service's own stop has seen it clear or cleared it, stays
\* clear until the request.
StaysClear ==
    \/ at["cmd"] = "stopping" /\ where["cmd"] \in {"halt", "back"}
    \/ at["cmd"] \in {"connecting", "request"}
    \/ at["cmd"] = "report" /\ tell["cmd"].then \in {"connecting", "request"}
    => ~started

\* The inductive invariant.
WifiInv == TypeOK /\ DriverFit /\ StaysClear /\ HalAccounted

Resting ==
    /\ at = [t \in Threads |-> IF t = "cmd" THEN "wait" ELSE "idle"]
    /\ queue = 0
    /\ publishing = "nobody"

(***************************************************************************)
(* The three threads report without a lock, so a report may overtake one   *)
(* that was decided before it, and a report that times out is lost.        *)
(* Nevertheless, with every thread at rest, and unless the very last       *)
(* report was lost, wifi_state_chan says CONNECTED only of a connection    *)
(* (or of a new attempt), DISCONNECTED only without one, and CONNECTING    *)
(* only while the network stack or a WPS exchange has an answer to give or *)
(* the last command was a disconnect, which may have overwritten the       *)
(* connect of an exchange.  Nothing is said of FAILED, which a connect     *)
(* that is rejected may report over a connection (wifi.c:51-223).          *)
(***************************************************************************)
ReportsTrue ==
    (Resting /\ ~lost) =>
        /\ reported = "CONNECTED" => link # "down"
        /\ reported = "DISCONNECTED" => link # "up"
        /\ reported = "CONNECTING" =>
               link = "trying" \/ exchange = "running" \/ msg = "DISCONNECT"
=============================================================================
