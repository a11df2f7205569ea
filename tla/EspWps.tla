------------------------------- MODULE EspWps -------------------------------
(***************************************************************************)
(* The WPS driver (src/drivers/esp32_wps.c) over the ESP32 Wi-Fi HAL.      *)
(* esp32_wps_start and esp32_wps_stop run in the Wi-Fi service's thread,   *)
(* the intercepted WPS events in the HAL's event task.  The driver takes   *)
(* no lock: between two accesses to wps_wifi_started, and around each HAL  *)
(* call, any other caller may run.                                         *)
(***************************************************************************)
CONSTANTS
    Callers,   \* threads that run the driver's code
    HalFaults  \* whether a HAL call may fail

VARIABLES
    started,   \* wps_wifi_started
    hal,       \* whether the HAL's Wi-Fi runs because this driver started it
    exchange,  \* the HAL's WPS exchange
    stuck,     \* history: an esp_wifi_stop that failed has left the HAL on behind a clear
               \* flag, and the driver has not started it since
    where,     \* the place of each caller in the driver
    op,        \* what each caller is in the driver for
    code       \* what the driver returned to each caller

Ops == {"none", "start", "stop", "success", "failure"}

Spots == {"out", "start", "flag", "enable", "begin", "disable", "check", "clear", "halt", "back"}

TypeOK ==
    /\ started \in BOOLEAN
    /\ hal \in BOOLEAN
    /\ exchange \in {"off", "enabled", "running"}
    /\ stuck \in BOOLEAN
    /\ where \in [Callers -> Spots]
    /\ op \in [Callers -> Ops]
    /\ code \in [Callers -> {"none", "ok", "EIO"}]

Init ==
    /\ started = FALSE
    /\ hal = FALSE
    /\ exchange = "off"
    /\ stuck = FALSE
    /\ where = [c \in Callers |-> "out"]
    /\ op = [c \in Callers |-> "none"]
    /\ code = [c \in Callers |-> "none"]
-----------------------------------------------------------------------------
Goto(c, spot) ==
    /\ where' = [where EXCEPT ![c] = spot]
    /\ UNCHANGED <<op, code>>

\* A start that fails returns -EIO whatever its esp32_wps_stop returned, and an
\* exchange that failed is reported as such.
Return(c, result) ==
    /\ where' = [where EXCEPT ![c] = "back"]
    /\ code' = [code EXCEPT ![c] = IF op[c] = "stop" THEN result ELSE "EIO"]
    /\ UNCHANGED op

Enter(c, why, spot) ==
    /\ where[c] = "out"
    /\ where' = [where EXCEPT ![c] = spot]
    /\ op' = [op EXCEPT ![c] = why]
    /\ UNCHANGED <<started, hal, exchange, stuck, code>>

\* esp32_wps_start, esp32_wps_stop, and the interception of a WPS event.
CallStart(c) == Enter(c, "start", "start")

CallStop(c) == Enter(c, "stop", "check")

Event(c, result) ==
    /\ exchange = "running"
    /\ Enter(c, result, "disable")

\* The caller has taken the result.
Leave(c) ==
    /\ where[c] = "back"
    /\ where' = [where EXCEPT ![c] = "out"]
    /\ op' = [op EXCEPT ![c] = "none"]
    /\ code' = [code EXCEPT ![c] = "none"]
    /\ UNCHANGED <<started, hal, exchange, stuck>>

\* esp_wifi_start.
WifiStart(c) ==
    /\ where[c] = "start"
    /\ \/ hal' = TRUE /\ stuck' = FALSE /\ Goto(c, "flag")
       \/ HalFaults /\ Return(c, "EIO") /\ UNCHANGED <<hal, stuck>>
    /\ UNCHANGED <<started, exchange>>

\* Mutant: the flag is set by a start that has succeeded only.
FlagLate(c) ==
    /\ where[c] = "flag"
    /\ Goto(c, "enable")
    /\ UNCHANGED <<started, hal, exchange, stuck>>

Flag(c) ==
    /\ where[c] = "flag"
    /\ started' = TRUE
    /\ stuck' = FALSE
    /\ Goto(c, "enable")
    /\ UNCHANGED <<hal, exchange>>

\* esp_wifi_wps_enable.
Enable(c) ==
    /\ where[c] = "enable"
    /\ \/ /\ exchange' = IF exchange = "off" THEN "enabled" ELSE exchange
          /\ Goto(c, "begin")
       \/ HalFaults /\ Goto(c, "check") /\ UNCHANGED exchange
    /\ UNCHANGED <<started, hal, stuck>>

\* esp_wifi_wps_start, which fails when an event has disabled WPS meanwhile, and
\* esp_wifi_wps_disable when it fails.
Begin(c) ==
    /\ where[c] = "begin"
    /\ \/ /\ exchange # "off"
          /\ exchange' = "running"
          /\ where' = [where EXCEPT ![c] = "back"]
          /\ code' = [code EXCEPT ![c] = "ok"]
          /\ UNCHANGED op
       \/ /\ exchange = "off" \/ HalFaults
          /\ exchange' = "off"
          /\ Goto(c, "check")
    /\ UNCHANGED <<started, hal, stuck>>

\* esp_wifi_wps_disable after a WPS event.  A success leaves the HAL on, for the
\* connect that follows to stop.
Disable(c) ==
    /\ where[c] = "disable"
    /\ exchange' = "off"
    /\ \/ /\ op[c] = "success"
          /\ where' = [where EXCEPT ![c] = "back"]
          /\ code' = [code EXCEPT ![c] = "ok"]
          /\ UNCHANGED op
       \/ op[c] = "failure" /\ Goto(c, "check")
    /\ UNCHANGED <<started, hal, stuck>>

\* esp32_wps_stop: the test of the flag, its reset and esp_wifi_stop.
Check(c) ==
    /\ where[c] = "check"
    /\ \/ started /\ Goto(c, "clear")
       \/ ~started /\ Return(c, "ok")
    /\ UNCHANGED <<started, hal, exchange, stuck>>

\* Mutant: the HAL is not stopped.
ClearOnly(c) ==
    /\ where[c] = "clear"
    /\ started' = FALSE
    /\ Return(c, "ok")
    /\ UNCHANGED <<hal, exchange, stuck>>

Clear(c) ==
    /\ where[c] = "clear"
    /\ started' = FALSE
    /\ Goto(c, "halt")
    /\ UNCHANGED <<hal, exchange, stuck>>

Halt(c) ==
    /\ where[c] = "halt"
    /\ \/ hal' = FALSE /\ stuck' = FALSE /\ Return(c, "ok")
       \/ HalFaults /\ stuck' = (hal /\ ~started) /\ Return(c, "EIO") /\ UNCHANGED hal
    /\ UNCHANGED <<started, exchange>>

\* The board restarts.
PowerUp ==
    /\ started' = FALSE
    /\ hal' = FALSE
    /\ exchange' = "off"
    /\ stuck' = FALSE
    /\ where' = [c \in Callers |-> "out"]
    /\ op' = [c \in Callers |-> "none"]
    /\ code' = [c \in Callers |-> "none"]

\* One step of the driver's code in thread c.
Advance(c) ==
    \/ WifiStart(c)
    \/ Flag(c)
    \/ Enable(c)
    \/ Begin(c)
    \/ Disable(c)
    \/ Check(c)
    \/ Clear(c)
    \/ Halt(c)
-----------------------------------------------------------------------------
(***************************************************************************)
(* A HAL that runs is not forgotten: either the flag says that it runs, so *)
(* that the stop before the next connect stops it, or a start is about to  *)
(* set the flag, or a stop is about to stop it, or stopping it has failed  *)
(* since it was last started.  No interleaving of starts, stops and events *)
(* leaves it on behind a clear flag (esp32_wps.c:106-163).                 *)
(***************************************************************************)
HalAccounted ==
    hal => \/ started
           \/ \E c \in Callers : where[c] \in {"flag", "halt"}
           \/ stuck
=============================================================================
