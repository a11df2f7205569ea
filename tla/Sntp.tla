-------------------------------- MODULE Sntp --------------------------------
(***************************************************************************)
(* The SNTP service (src/services/sntp.c).  Its thread is told of every    *)
(* message on wifi_state_chan and asks for the time when it reads that the *)
(* board is connected; as long as the request fails and the board is       *)
(* connected it sleeps and asks again, without looking at its queue.       *)
(* Nothing but this thread uses sntp_time_chan, except a listener that     *)
(* runs while the thread holds the channel, and whose zbus_chan_read,      *)
(* which does not wait, therefore always fails (sntp.c:148-157).           *)
(***************************************************************************)
EXTENDS Naturals

CONSTANT QueueSize  \* CONFIG_SNTP_SERVICE_WIFI_SUB_QUEUE_SIZE

ASSUME SntpAssumption == QueueSize \in Nat \ {0}

WifiStates == {"DISCONNECTED", "CONNECTING", "CONNECTED", "FAILED"}

VARIABLES
    wifi,        \* the message of wifi_state_chan
    publishing,  \* whether the Wi-Fi service holds that channel
    queue,       \* how many notifications sntp_wifi_state_sub holds
    at,          \* how far the service's thread is
    valid,       \* "valid" of the message of sntp_time_chan
    asked        \* history: what became of the last CONNECTED: the service
                 \* asked for the time after it, and was told

vars == <<wifi, publishing, queue, at, valid, asked>>

TypeOK ==
    /\ wifi \in WifiStates
    /\ publishing \in BOOLEAN
    /\ queue \in 0..QueueSize
    /\ at \in {"wait", "read", "request", "sleep"}
    /\ valid \in BOOLEAN
    /\ asked \in {"no", "asked", "told"}

Init ==
    /\ wifi = "DISCONNECTED"
    /\ publishing = FALSE
    /\ queue = 0
    /\ at = "wait"
    /\ valid = FALSE
    /\ asked = "no"
-----------------------------------------------------------------------------
\* zbus_chan_pub by the Wi-Fi service: lock and copy, then notify and unlock.
Publish(s) ==
    /\ ~publishing
    /\ publishing' = TRUE
    /\ wifi' = s
    /\ asked' = IF s = "CONNECTED" THEN "no" ELSE asked
    /\ UNCHANGED <<queue, at, valid>>

\* A notification that finds the queue full is lost.  The unlock follows at once:
\* a subscriber that is woken in between waits for it up to 100 ms.
Notify ==
    /\ publishing
    /\ publishing' = FALSE
    /\ queue' = IF queue < QueueSize THEN queue + 1 ELSE queue
    /\ UNCHANGED <<wifi, at, valid, asked>>

Go(from, to) == at = from /\ at' = to

\* zbus_sub_wait.
Wait ==
    /\ queue > 0
    /\ queue' = queue - 1
    /\ Go("wait", "read")
    /\ UNCHANGED <<wifi, publishing, valid, asked>>

\* The thread reads that the board is connected, and sends a request ...
Ask(from) ==
    /\ ~publishing
    /\ wifi = "CONNECTED"
    /\ Go(from, "request")
    /\ asked' = IF asked = "no" THEN "asked" ELSE asked
    /\ UNCHANGED <<wifi, publishing, queue, valid>>

\* ... or that it is not, or it fails to read within 100 ms.
BackToWait(from) ==
    /\ publishing \/ wifi # "CONNECTED"
    /\ Go(from, "wait")
    /\ UNCHANGED <<wifi, publishing, queue, valid, asked>>

\* Mutant: what is queued is dropped when the time has come.
ToldPurges ==
    /\ Go("request", "wait")
    /\ queue' = 0
    /\ valid' = TRUE
    /\ asked' = IF asked = "asked" THEN "told" ELSE asked
    /\ UNCHANGED <<wifi, publishing>>

\* do_sntp_sync: the server answers, the clock is set and the time published ...
Told ==
    /\ Go("request", "wait")
    /\ valid' = TRUE
    /\ asked' = IF asked = "asked" THEN "told" ELSE asked
    /\ UNCHANGED <<wifi, publishing, queue>>

\* Mutant: the service asks once.
FailedAndDone ==
    /\ Go("request", "wait")
    /\ valid' = FALSE
    /\ UNCHANGED <<wifi, publishing, queue, asked>>

\* ... or it does not.
Failed ==
    /\ Go("request", "sleep")
    /\ valid' = FALSE
    /\ UNCHANGED <<wifi, publishing, queue, asked>>

\* After k_sleep the same read decides on a retry.
Thread ==
    \/ Wait
    \/ Ask("read")
    \/ BackToWait("read")
    \/ Told
    \/ Failed
    \/ Ask("sleep")
    \/ BackToWait("sleep")

Next ==
    \/ \E s \in WifiStates : Publish(s)
    \/ Notify
    \/ Thread

\* A publish that has begun ends; the thread runs; and the server answers a
\* request some time.
Fairness ==
    /\ WF_vars(Notify)
    /\ WF_vars(Thread)
    /\ SF_vars(Told)

Spec == Init /\ [][Next]_vars /\ Fairness
-----------------------------------------------------------------------------
Connected == wifi = "CONNECTED" /\ ~publishing

(***************************************************************************)
(* A service with nothing left to do, on a connected board, has asked for  *)
(* the time after the last CONNECTED and has got it, and says so; although *)
(* notifications are coalesced, lost, and left in the queue while it       *)
(* retries, and a read that fails ends the retries (sntp.c:103-135).       *)
(***************************************************************************)
SyncedAtRest ==
    (at = "wait" /\ queue = 0 /\ Connected) => asked = "told" /\ valid

\* The strengthening: what is still to be done about the last CONNECTED.
Pending ==
    wifi = "CONNECTED" =>
        /\ asked = "no" => publishing \/ queue > 0 \/ at = "read"
        /\ asked = "asked" => at \in {"request", "sleep"}
        /\ asked # "no" => ~publishing
        /\ asked = "told" /\ ~valid => at \in {"request", "sleep"}

SntpInv == TypeOK /\ Pending

\* A board that stays connected has the right time in the end (sntp.c:122-133).
ToldAtLast == <>[]Connected => <>[](asked = "told" /\ valid)
=============================================================================
