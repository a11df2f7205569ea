---------------------------- MODULE WifiProofs -----------------------------
(***************************************************************************)
(* What the Wi-Fi service and the WPS driver keep whichever of their three *)
(* threads runs when, for every size of the command queue: a HAL that runs *)
(* is accounted for, the one a WPS success has left on is stopped before   *)
(* the connect, and the state reported at rest, other than FAILED, is that *)
(* of the connection or of an attempt.                                     *)
(***************************************************************************)
EXTENDS WifiService, TLAPS

USE WifiAssumption

Callers == {"cmd", "esp"}

Entry(c) ==
    Wps!CallStart(c) \/ Wps!CallStop(c) \/ (\E r \in {"success", "failure"} : Wps!Event(c, r))

\* Everything a thread may do to the driver.
Use(c) == Entry(c) \/ Wps!Leave(c) \/ Wps!Advance(c)

LEMMA ReturnTypes ==
    ASSUME Wps!TypeOK, NEW c \in Callers, NEW result \in {"ok", "EIO"}, Wps!Return(c, result)
    PROVE  /\ where' \in [Callers -> Wps!Spots]
           /\ op' \in [Callers -> Wps!Ops]
           /\ code' \in [Callers -> {"none", "ok", "EIO"}]
<1>1. where' = [where EXCEPT ![c] = "back"] /\ op' = op
    BY DEF Wps!Return
<1>2. PICK r \in {"ok", "EIO"} : code' = [code EXCEPT ![c] = r]
    BY DEF Wps!Return
<1> QED
    BY <1>1, <1>2 DEF Wps!TypeOK, Wps!Spots, Callers

LEMMA DriverTypes ==
    ASSUME Wps!TypeOK, NEW c \in Callers, Use(c)
    PROVE  Wps!TypeOK'
<1> USE DEF Wps!TypeOK, Wps!Spots, Wps!Ops, Callers
<1>1. CASE Entry(c)
    BY <1>1 DEF Entry, Wps!CallStart, Wps!CallStop, Wps!Event, Wps!Enter
<1>2. CASE Wps!Leave(c)
    BY <1>2 DEF Wps!Leave
<1>3. CASE Wps!WifiStart(c)
  <2>1. CASE Wps!Goto(c, "flag")
      BY <1>3, <2>1 DEF Wps!WifiStart, Wps!Goto
  <2>2. CASE Wps!Return(c, "EIO")
      BY <1>3, <2>2, ReturnTypes DEF Wps!WifiStart
  <2> QED
      BY <1>3, <2>1, <2>2 DEF Wps!WifiStart
<1>8. CASE Wps!Flag(c)
    BY <1>8 DEF Wps!Flag, Wps!Goto
<1>4. CASE Wps!Enable(c) \/ Wps!Begin(c)
    BY <1>4 DEF Wps!Enable, Wps!Begin, Wps!Goto
<1>5. CASE Wps!Disable(c)
    BY <1>5 DEF Wps!Disable, Wps!Goto
<1>6. CASE Wps!Check(c)
  <2>1. CASE Wps!Goto(c, "clear")
      BY <1>6, <2>1 DEF Wps!Check, Wps!Goto
  <2>2. CASE Wps!Return(c, "ok")
      BY <1>6, <2>2, ReturnTypes DEF Wps!Check
  <2> QED
      BY <1>6, <2>1, <2>2 DEF Wps!Check
<1>9. CASE Wps!Clear(c)
    BY <1>9 DEF Wps!Clear, Wps!Goto
<1>7. CASE Wps!Halt(c)
    BY <1>7, ReturnTypes DEF Wps!Halt
<1> QED
    BY <1>1, <1>2, <1>3, <1>4, <1>5, <1>6, <1>7, <1>8, <1>9 DEF Use, Wps!Advance

\* A step of c from a place where it answers for nothing, which starts no HAL
\* and clears no flag, leaves the HAL accounted for.
LEMMA Bystander ==
    ASSUME Wps!TypeOK, Wps!HalAccounted, NEW c \in Callers,
           where[c] \notin {"flag", "halt"},
           \E spot : where' = [where EXCEPT ![c] = spot],
           UNCHANGED <<started, hal, stuck>>
    PROVE  Wps!HalAccounted'
BY DEF Wps!TypeOK, Wps!HalAccounted, Callers

LEMMA DriverAccounts ==
    ASSUME Wps!TypeOK, Wps!HalAccounted, NEW c \in Callers, Use(c)
    PROVE  Wps!HalAccounted'
<1>1. CASE Entry(c)
    BY <1>1, Bystander DEF Entry, Wps!CallStart, Wps!CallStop, Wps!Event, Wps!Enter
<1>2. CASE Wps!Leave(c)
    BY <1>2, Bystander DEF Wps!Leave
<1>3. CASE Wps!WifiStart(c)
  <2>1. CASE UNCHANGED <<hal, stuck>>
      BY <1>3, <2>1, Bystander DEF Wps!WifiStart, Wps!Goto, Wps!Return
  <2>2. CASE Wps!Goto(c, "flag")
      BY <2>2 DEF Wps!Goto, Wps!TypeOK, Wps!HalAccounted, Callers
  <2> QED
      BY <1>3, <2>1, <2>2 DEF Wps!WifiStart
<1>4. CASE Wps!Flag(c)
    BY <1>4 DEF Wps!Flag, Wps!HalAccounted
<1>5. CASE Wps!Enable(c) \/ Wps!Begin(c) \/ Wps!Disable(c)
    BY <1>5, Bystander DEF Wps!Enable, Wps!Begin, Wps!Disable, Wps!Goto
<1>6. CASE Wps!Check(c)
    BY <1>6, Bystander DEF Wps!Check, Wps!Goto, Wps!Return
<1>7. CASE Wps!Clear(c)
    BY <1>7 DEF Wps!Clear, Wps!Goto, Wps!TypeOK, Wps!HalAccounted, Callers
<1>8. CASE Wps!Halt(c)
    BY <1>8 DEF Wps!Halt, Wps!HalAccounted, Wps!TypeOK
<1> QED
    BY <1>1, <1>2, <1>3, <1>4, <1>5, <1>6, <1>7, <1>8 DEF Use, Wps!Advance

-----------------------------------------------------------------------------
\* Where a thread of the driver is after a step, and what the step does to the
\* flag; another thread stays where it is.
LEMMA DriverMoves ==
    ASSUME Wps!TypeOK, NEW c \in Callers, Use(c)
    PROVE  /\ \A d \in Callers \ {c} : where'[d] = where[d] /\ op'[d] = op[d]
           /\ Wps!Advance(c) => op'[c] = op[c]
           /\ where[c] \notin {"flag"} => (started' => started)
<1> USE DEF Wps!TypeOK, Callers
<1>1. CASE Entry(c)
    BY <1>1 DEF Entry, Wps!CallStart, Wps!CallStop, Wps!Event, Wps!Enter, Wps!Advance,
                Wps!WifiStart, Wps!Flag, Wps!Enable, Wps!Begin, Wps!Disable, Wps!Check,
                Wps!Clear, Wps!Halt
<1>2. CASE Wps!Leave(c)
    BY <1>2 DEF Wps!Leave, Wps!Advance, Wps!WifiStart, Wps!Flag, Wps!Enable, Wps!Begin,
                Wps!Disable, Wps!Check, Wps!Clear, Wps!Halt
<1>3. CASE Wps!WifiStart(c) \/ Wps!Flag(c)
    BY <1>3 DEF Wps!WifiStart, Wps!Flag, Wps!Goto, Wps!Return
<1>4. CASE Wps!Enable(c) \/ Wps!Begin(c)
    BY <1>4 DEF Wps!Enable, Wps!Begin, Wps!Goto
<1>5. CASE Wps!Disable(c)
    BY <1>5 DEF Wps!Disable, Wps!Goto
<1>6. CASE Wps!Check(c) \/ Wps!Clear(c)
    BY <1>6 DEF Wps!Check, Wps!Clear, Wps!Goto, Wps!Return
<1>7. CASE Wps!Halt(c)
    BY <1>7 DEF Wps!Halt, Wps!Return
<1> QED
    BY <1>1, <1>2, <1>3, <1>4, <1>5, <1>6, <1>7 DEF Use, Wps!Advance

\* A stop of the service's thread runs through check, clear and halt, and has the
\* flag clear from its clear on.
LEMMA StopRuns ==
    ASSUME Wps!TypeOK, Wps!Advance("cmd"), op["cmd"] = "stop",
           where["cmd"] \in {"check", "clear", "halt", "back"},
           where["cmd"] \in {"halt", "back"} => ~started
    PROVE  /\ where'["cmd"] \in {"check", "clear", "halt", "back"}
           /\ where'["cmd"] \in {"halt", "back"} => ~started'
<1> USE DEF Wps!TypeOK
<1>1. CASE Wps!Check("cmd")
    BY <1>1 DEF Wps!Check, Wps!Goto, Wps!Return
<1>2. CASE Wps!Clear("cmd")
    BY <1>2 DEF Wps!Clear, Wps!Goto
<1>3. CASE Wps!Halt("cmd")
    BY <1>3 DEF Wps!Halt, Wps!Return
<1> QED
    BY <1>1, <1>2, <1>3 DEF Wps!Advance, Wps!WifiStart, Wps!Flag, Wps!Enable, Wps!Begin,
                            Wps!Disable

\* The event task never starts the HAL, and stops it after a failure only.
LEMMA EspRuns ==
    ASSUME Wps!TypeOK, Wps!Advance("esp"),
           where["esp"] \in {"out", "disable", "check", "clear", "halt", "back"},
           where["esp"] \in {"check", "clear", "halt"} => op["esp"] = "failure"
    PROVE  /\ where'["esp"] \in {"out", "disable", "check", "clear", "halt", "back"}
           /\ where'["esp"] \in {"check", "clear", "halt"} => op'["esp"] = "failure"
<1> USE DEF Wps!TypeOK
<1>1. CASE Wps!Disable("esp")
    BY <1>1 DEF Wps!Disable, Wps!Goto
<1>2. CASE Wps!Check("esp") \/ Wps!Clear("esp")
    BY <1>2 DEF Wps!Check, Wps!Clear, Wps!Goto, Wps!Return
<1>3. CASE Wps!Halt("esp")
    BY <1>3 DEF Wps!Halt, Wps!Return
<1> QED
    BY <1>1, <1>2, <1>3 DEF Wps!Advance, Wps!WifiStart, Wps!Flag, Wps!Enable, Wps!Begin

-----------------------------------------------------------------------------
LEMMA ServiceTypes ==
    ASSUME ServiceTypeOK, Next
    PROVE  ServiceTypeOK'
<1> USE DEF ServiceTypeOK, Threads, States, Commands, Places, CmdPlaces, EspPlaces, Sequels,
            Quietly, Go,
            bus, NoReport
<1>1. ASSUME NEW c \in Commands, Publish(c) PROVE ServiceTypeOK'
    BY <1>1 DEF Publish
<1>2. CASE Notify
    BY <1>2 DEF Notify, Notified
<1>3. CASE AutoConnect \/ Wait \/ Read \/ ReadTimeout
    BY <1>3 DEF AutoConnect, Wait, Read, ReadTimeout, FirstPlace
<1>4. CASE Connect \/ Stopped \/ Connecting
    BY <1>4 DEF Connect, Stopped, Connecting, Report
<1>5. CASE Request
    BY <1>5 DEF Request, Report
<1>6. CASE ConnectWps \/ StartWps \/ WpsStarted \/ Disconnect
    BY <1>6 DEF ConnectWps, StartWps, WpsStarted, Disconnect, Report
<1>7. ASSUME NEW t \in Threads, Reported(t) PROVE ServiceTypeOK'
  <2>1. lost' \in BOOLEAN
      BY <1>7 DEF Reported
  <2>2. reported' \in States
      BY <1>7 DEF Reported
  <2>3. tell' \in [Threads -> [state : States, then : Sequels]]
      BY <1>7 DEF Reported
  <2>4. at' \in [Threads -> Places] /\ UNCHANGED <<msg, publishing, queue, current, link>>
      BY <1>7 DEF Reported
  <2> QED
      BY <2>1, <2>2, <2>3, <2>4
<1>8. ASSUME NEW t \in Threads, DriverStep(t) PROVE ServiceTypeOK'
    BY <1>8 DEF DriverStep
<1>9. CASE ConnectResult \/ DisconnectResult
    BY <1>9 DEF ConnectResult, DisconnectResult, Report
<1>10. ASSUME NEW r \in {"success", "failure"}, WpsEvent(r) PROVE ServiceTypeOK'
    BY <1>10 DEF WpsEvent
<1>11. CASE WpsResult \/ Offer \/ OfferTimeout
    BY <1>11 DEF WpsResult, Offer, OfferTimeout, Report
<1>12. CASE NotifyLearned
    BY <1>12 DEF NotifyLearned, Notified, Report
<1>13. CASE Restart
  <2>1. lost' \in BOOLEAN
      BY <1>13 DEF Restart
  <2> QED
      BY <1>13, <2>1 DEF Restart
<1> QED
    BY <1>1, <1>2, <1>3, <1>4, <1>5, <1>6, <1>7, <1>8, <1>9, <1>10, <1>11, <1>12, <1>13
    DEF Next, CmdThread, EspTask

\* What a step of the system does to the driver.
LEMMA DriverSteps ==
    ASSUME Next
    PROVE  UNCHANGED driver \/ (\E c \in Callers : Use(c)) \/ Wps!PowerUp
<1>1. CASE CmdThread
    BY <1>1 DEF CmdThread, AutoConnect, Wait, Read, ReadTimeout, Connect, Stopped, Connecting,
                Request, ConnectWps, StartWps, WpsStarted, Disconnect, Reported, DriverStep,
                Use, Entry, Callers
<1>2. CASE EspTask
    BY <1>2 DEF EspTask, WpsResult, Offer, OfferTimeout, NotifyLearned, Reported, DriverStep,
                Use, Callers
<1>3. ASSUME NEW r \in {"success", "failure"}, WpsEvent(r)
      PROVE  \E c \in Callers : Use(c)
    BY <1>3 DEF WpsEvent, Use, Entry, Callers
<1>4. CASE Restart
    BY <1>4 DEF Restart
<1> QED
    BY <1>1, <1>2, <1>3, <1>4 DEF Next, Publish, Notify, ConnectResult, DisconnectResult, Reported

LEMMA DriverInv ==
    ASSUME Wps!TypeOK, HalAccounted, [Next]_vars
    PROVE  Wps!TypeOK' /\ HalAccounted'
<1>1. CASE UNCHANGED driver
    BY <1>1 DEF driver, Wps!TypeOK, HalAccounted, Wps!HalAccounted
<1>2. ASSUME NEW c \in Callers, Use(c) PROVE Wps!TypeOK' /\ HalAccounted'
    BY <1>2, DriverTypes, DriverAccounts DEF HalAccounted
<1>3. CASE Wps!PowerUp
    BY <1>3 DEF Wps!PowerUp, Wps!TypeOK, Wps!Spots, Wps!Ops, HalAccounted, Wps!HalAccounted
<1> QED
    BY <1>1, <1>2, <1>3, DriverSteps DEF vars, driver

-----------------------------------------------------------------------------
\* A step that leaves the driver and the service's thread alone.
LEMMA Apart ==
    ASSUME DriverFit, StaysClear, UNCHANGED driver, at'["cmd"] = at["cmd"],
           tell'["cmd"] = tell["cmd"]
    PROVE  DriverFit' /\ StaysClear'
BY DEF DriverFit, StaysClear, driver

\* A step of the service's thread outside the driver.
LEMMA CmdAlone ==
    ASSUME WifiInv,
           \/ AutoConnect \/ Wait \/ Read \/ ReadTimeout \/ Connecting \/ Request
           \/ ConnectWps \/ Disconnect \/ Reported("cmd")
    PROVE  DriverFit' /\ StaysClear'
<1> USE DEF WifiInv, TypeOK, ServiceTypeOK, Threads, DriverFit, StaysClear, driver, Go, Quietly
<1>1. CASE AutoConnect \/ Wait \/ Read \/ ReadTimeout \/ Disconnect
    BY <1>1 DEF AutoConnect, Wait, Read, ReadTimeout, Disconnect, FirstPlace, Commands
<1>2. CASE Connecting \/ ConnectWps
    BY <1>2 DEF Connecting, ConnectWps, Report
<1>3. CASE Request
    BY <1>3 DEF Request, Report
<1>4. CASE Reported("cmd")
  <2>1. at["cmd"] = "report" /\ at'["cmd"] = tell["cmd"].then /\ UNCHANGED driver
      BY <1>4 DEF Reported
  <2>2. tell["cmd"].then \in Sequels
      OBVIOUS
  <2>3. where["cmd"] = "out" /\ (tell["cmd"].then \in {"connecting", "request"} => ~started)
      BY <2>1
  <2> QED
      BY <2>1, <2>2, <2>3 DEF Sequels
<1> QED
    BY <1>1, <1>2, <1>3, <1>4

\* A step of the service's thread into, in and out of the driver.
LEMMA CmdInDriver ==
    ASSUME WifiInv, Connect \/ Stopped \/ StartWps \/ WpsStarted \/ DriverStep("cmd")
    PROVE  DriverFit' /\ StaysClear'
<1> USE DEF WifiInv, TypeOK, ServiceTypeOK, Threads, DriverFit, StaysClear, Go, Quietly
<1>1. CASE Connect \/ StartWps
    BY <1>1 DEF Connect, StartWps, Wps!CallStop, Wps!CallStart, Wps!Enter, Wps!TypeOK
<1>2. CASE Stopped
    BY <1>2 DEF Stopped, Report, Wps!Leave, Wps!TypeOK
<1>3. CASE WpsStarted
    BY <1>3 DEF WpsStarted, Report, Wps!Leave, Wps!TypeOK
<1>4. CASE DriverStep("cmd")
  <2>1. Use("cmd") /\ Wps!Advance("cmd") /\ at' = at /\ tell' = tell
      BY <1>4 DEF DriverStep, Use
  <2>2. where'["esp"] = where["esp"] /\ op'["esp"] = op["esp"] /\ op'["cmd"] = op["cmd"]
      BY <2>1, DriverMoves DEF Callers
  <2>3. at["cmd"] \in {"stopping", "starting"}
      BY <1>4 DEF DriverStep, Wps!Advance, Wps!WifiStart, Wps!Flag, Wps!Enable, Wps!Begin,
                  Wps!Disable, Wps!Check, Wps!Clear, Wps!Halt
  <2>4. CASE at["cmd"] = "stopping"
      BY <2>1, <2>2, <2>4, StopRuns
  <2>5. CASE at["cmd"] = "starting"
      BY <2>1, <2>2, <2>5
  <2> QED
      BY <2>3, <2>4, <2>5
<1> QED
    BY <1>1, <1>2, <1>3, <1>4

\* A step of the event task or of the network stack's thread.
LEMMA Others ==
    ASSUME WifiInv,
           \/ EspTask \/ ConnectResult \/ DisconnectResult \/ Reported("net")
           \/ \E r \in {"success", "failure"} : WpsEvent(r)
    PROVE  DriverFit' /\ StaysClear'
<1> USE DEF WifiInv, TypeOK, ServiceTypeOK, Threads
<1>1. CASE ConnectResult \/ DisconnectResult \/ Reported("net")
    BY <1>1, Apart DEF ConnectResult, DisconnectResult, Reported, Report, Go
<1>2. CASE Offer \/ OfferTimeout \/ NotifyLearned \/ Reported("esp")
    BY <1>2, Apart DEF Offer, OfferTimeout, NotifyLearned, Reported, Report, Go, Quietly
<1>3. ASSUME Use("esp"), at'["cmd"] = at["cmd"], tell'["cmd"] = tell["cmd"],
             where'["esp"] \in {"out", "disable", "check", "clear", "halt", "back"},
             where'["esp"] \in {"check", "clear", "halt"} => op'["esp"] = "failure"
      PROVE  DriverFit' /\ StaysClear'
    BY <1>3, DriverMoves DEF Callers, DriverFit, StaysClear
<1>4. ASSUME NEW r \in {"success", "failure"}, WpsEvent(r) PROVE DriverFit' /\ StaysClear'
    BY <1>3, <1>4 DEF WpsEvent, Wps!Event, Wps!Enter, Wps!TypeOK, Use, Entry, Go, Quietly
<1>5. CASE WpsResult
    BY <1>3, <1>5 DEF WpsResult, Wps!Leave, Wps!TypeOK, Use, Go, Quietly, Report
<1>6. CASE DriverStep("esp")
    BY <1>3, <1>6, EspRuns DEF DriverStep, DriverFit, Use, Quietly
<1> QED
    BY <1>1, <1>2, <1>4, <1>5, <1>6 DEF EspTask

(***************************************************************************)
(* The inductive invariant holds.                                          *)
(***************************************************************************)
THEOREM WifiInvariant == Spec => []WifiInv
<1>1. Init => WifiInv
  <2> SUFFICES ASSUME Init PROVE WifiInv
      OBVIOUS
  <2>1. ServiceTypeOK
    <3>1. at \in [Threads -> Places]
        BY DEF Init, Places, CmdPlaces, EspPlaces, Threads
    <3>2. tell \in [Threads -> [state : States, then : Sequels]]
        BY DEF Init, NoReport, States, Sequels
    <3>3. lost \in BOOLEAN
        BY DEF Init
    <3> QED
        BY <3>1, <3>2, <3>3 DEF Init, ServiceTypeOK, States, Commands
  <2>2. Wps!TypeOK
      BY DEF Init, Wps!Init, Wps!TypeOK, Wps!Spots, Wps!Ops
  <2>3. DriverFit /\ StaysClear
      BY DEF Init, Wps!Init, DriverFit, StaysClear, Threads
  <2>4. HalAccounted
      BY DEF Init, Wps!Init, HalAccounted, Wps!HalAccounted
  <2> QED
      BY <2>1, <2>2, <2>3, <2>4 DEF WifiInv, TypeOK
<1>2. ASSUME WifiInv, [Next]_vars
      PROVE  WifiInv'
  <2>1. ServiceTypeOK'
    <3>1. CASE Next
        BY <1>2, <3>1, ServiceTypes DEF WifiInv, TypeOK
    <3>2. CASE UNCHANGED vars
        BY <1>2, <3>2 DEF WifiInv, TypeOK, ServiceTypeOK, vars
    <3> QED
        BY <1>2, <3>1, <3>2
  <2>2. Wps!TypeOK' /\ HalAccounted'
      BY <1>2, DriverInv DEF WifiInv, TypeOK
  <2>3. DriverFit' /\ StaysClear'
    <3>1. CASE CmdThread
        BY <1>2, <3>1, CmdAlone, CmdInDriver DEF CmdThread
    <3>2. CASE EspTask \/ ConnectResult \/ DisconnectResult \/ Reported("net")
        BY <1>2, <3>2, Others
    <3>3. ASSUME NEW r \in {"success", "failure"}, WpsEvent(r) PROVE DriverFit' /\ StaysClear'
        BY <1>2, <3>3, Others
    <3>4. ASSUME NEW c \in Commands, Publish(c) PROVE DriverFit' /\ StaysClear'
        BY <1>2, <3>4, Apart DEF WifiInv, Publish, Quietly
    <3>5. CASE Notify
        BY <1>2, <3>5, Apart DEF WifiInv, Notify, Quietly
    <3>6. CASE Restart
        BY <3>6 DEF Restart, Wps!PowerUp, DriverFit, StaysClear, Threads, NoReport
    <3>7. CASE UNCHANGED vars
        BY <1>2, <3>7, Apart DEF WifiInv, vars, driver
    <3> QED
        BY <1>2, <3>1, <3>2, <3>3, <3>4, <3>5, <3>6, <3>7 DEF Next
  <2> QED
      BY <2>1, <2>2, <2>3 DEF WifiInv, TypeOK
<1> QED
    BY <1>1, <1>2, PTL DEF Spec

(***************************************************************************)
(* Whatever starts, stops and WPS events meet in the driver, a HAL that    *)
(* runs is accounted for.                                                  *)
(***************************************************************************)
THEOREM HalIsAccounted == Spec => []HalAccounted
<1>1. WifiInv => HalAccounted
    BY DEF WifiInv
<1> QED
    BY WifiInvariant, <1>1, PTL

(***************************************************************************)
(* The HAL that a successful exchange has left on is stopped before the    *)
(* next connect is requested.  A HAL that runs at the request could not be *)
(* stopped, or is that of a failed exchange which the event task, with the *)
(* flag already clear, is about to stop: against that one the service's    *)
(* stop does not protect, and the case does happen (wifi.c:139-165).       *)
(***************************************************************************)
THEOREM LeftOnIsStopped == Spec => []RequestAfterStop
<1>1. WifiInv => RequestAfterStop
    BY DEF WifiInv, TypeOK, Wps!TypeOK, DriverFit, StaysClear, HalAccounted, Wps!HalAccounted,
           RequestAfterStop
<1> QED
    BY WifiInvariant, <1>1, PTL

-----------------------------------------------------------------------------
\* What each thread may be about to report, and what becomes of what it says.
Tellings ==
    /\ at["cmd"] = "report" =>
           \/ tell["cmd"].state = "FAILED"
           \/ tell["cmd"].state = "CONNECTING" /\ tell["cmd"].then \in {"request", "start"}
    /\ at["esp"] = "report" => tell["esp"].state = "FAILED"
    /\ at["net"] = "report" =>
           \/ tell["net"].state = "FAILED"
           \/ tell["net"].state = "CONNECTED" /\ link # "down"
           \/ tell["net"].state = "DISCONNECTED" /\ link # "up"

\* A connection that comes or goes is yet to be reported.
LinkTold ==
    /\ reported = "CONNECTED" /\ link = "down" => at["net"] = "report" \/ lost
    /\ reported = "DISCONNECTED" /\ link = "up" => at["net"] = "report" \/ lost

\* An answer, a report or a command that is still to come.
Due ==
    \/ link = "trying"
    \/ exchange = "running"
    \/ msg = "DISCONNECT"
    \/ publishing # "nobody"
    \/ queue > 0
    \/ at["net"] = "report"
    \/ at["esp"] # "idle"

\* The service's thread will connect, start WPS or report a failure.
Underway ==
    /\ at["cmd"] \in {"read", "connect", "stopping", "connecting", "request", "wps",
                      "start", "starting", "report"}
    /\ ~(at["cmd"] = "starting" /\ where["cmd"] = "back" /\ code["cmd"] = "ok")

\* CONNECTING is said by the service's thread, and something follows it.
Followed == reported = "CONNECTING" => at["cmd"] # "boot" /\ (Due \/ Underway \/ lost)

StartFit == at["cmd"] = "starting" => op["cmd"] = "start"

ReportsInv == Tellings /\ LinkTold /\ Followed /\ StartFit

\* A step of the driver in mid-operation: a start that succeeds leaves the exchange
\* running.
LEMMA StartBegins ==
    ASSUME Wps!TypeOK, Wps!Advance("cmd"), op["cmd"] = "start"
    PROVE  /\ op'["cmd"] = "start"
           /\ where'["cmd"] = "back" /\ code'["cmd"] = "ok" => exchange' = "running"
<1> USE DEF Wps!TypeOK
<1>1. CASE Wps!WifiStart("cmd") \/ Wps!Check("cmd") \/ Wps!Halt("cmd")
    BY <1>1 DEF Wps!WifiStart, Wps!Check, Wps!Halt, Wps!Goto, Wps!Return
<1>2. CASE Wps!Flag("cmd") \/ Wps!Enable("cmd") \/ Wps!Clear("cmd")
    BY <1>2 DEF Wps!Flag, Wps!Enable, Wps!Clear, Wps!Goto
<1>3. CASE Wps!Begin("cmd") \/ Wps!Disable("cmd")
    BY <1>3 DEF Wps!Begin, Wps!Disable, Wps!Goto
<1> QED
    BY <1>1, <1>2, <1>3 DEF Wps!Advance

\* A step of the event task in the driver leaves the other's part alone.
LEMMA StartUndisturbed ==
    ASSUME Wps!TypeOK, Use("esp")
    PROVE  where'["cmd"] = where["cmd"] /\ op'["cmd"] = op["cmd"] /\ code'["cmd"] = code["cmd"]
<1> USE DEF Wps!TypeOK, Callers
<1>1. where'["cmd"] = where["cmd"] /\ op'["cmd"] = op["cmd"]
    BY DriverMoves
<1>2. CASE Entry("esp") \/ Wps!Leave("esp")
    BY <1>1, <1>2 DEF Entry, Wps!CallStart, Wps!CallStop, Wps!Event, Wps!Enter, Wps!Leave
<1>3. CASE Wps!Advance("esp")
    BY <1>1, <1>3 DEF Wps!Advance, Wps!WifiStart, Wps!Flag, Wps!Enable, Wps!Begin,
                Wps!Disable, Wps!Check, Wps!Clear, Wps!Halt, Wps!Goto, Wps!Return
<1> QED
    BY <1>2, <1>3 DEF Use

\* A step of the service's thread.
LEMMA CmdReports ==
    ASSUME WifiInv, ReportsInv, CmdThread
    PROVE  ReportsInv'
<1> USE DEF WifiInv, TypeOK, ServiceTypeOK, Threads, ReportsInv, Tellings, LinkTold, Followed,
            StartFit, Due, Underway, Go, Quietly, bus, driver
<1>1. CASE AutoConnect \/ ReadTimeout \/ Disconnect
    BY <1>1 DEF AutoConnect, ReadTimeout, Disconnect
<1>2. CASE Wait
    BY <1>2 DEF Wait
<1>3. CASE Read
    BY <1>3 DEF Read, FirstPlace, Commands
<1>4. CASE Connecting \/ ConnectWps
    BY <1>4 DEF Connecting, ConnectWps, Report
<1>5. CASE Request
    BY <1>5 DEF Request, Report
<1>6. CASE Connect \/ StartWps
    BY <1>6 DEF Connect, StartWps, Wps!CallStop, Wps!CallStart, Wps!Enter, Wps!TypeOK
<1>7. CASE Stopped
    BY <1>7 DEF Stopped, Report, Wps!Leave, Wps!TypeOK
<1>8. CASE WpsStarted
    BY <1>8 DEF WpsStarted, Report, Wps!Leave, Wps!TypeOK
<1>9. CASE Reported("cmd")
    BY <1>9 DEF Reported, Sequels
<1>10. CASE DriverStep("cmd")
  <2>1. at["cmd"] \in {"stopping", "starting"}
      BY <1>10 DEF DriverStep, DriverFit, Wps!Advance, Wps!WifiStart, Wps!Flag, Wps!Enable,
                   Wps!Begin, Wps!Disable, Wps!Check, Wps!Clear, Wps!Halt
  <2>2. CASE at["cmd"] = "stopping"
      BY <1>10, <2>2 DEF DriverStep
  <2>3. CASE at["cmd"] = "starting"
      BY <1>10, <2>3, StartBegins DEF DriverStep
  <2> QED
      BY <2>1, <2>2, <2>3
<1> QED
    BY <1>1, <1>2, <1>3, <1>4, <1>5, <1>6, <1>7, <1>8, <1>9, <1>10 DEF CmdThread

\* A step of anyone else.
LEMMA OthersReport ==
    ASSUME WifiInv, ReportsInv,
           \/ \E c \in Commands : Publish(c)
           \/ Notify
           \/ ConnectResult \/ DisconnectResult \/ Reported("net")
           \/ \E r \in {"success", "failure"} : WpsEvent(r)
           \/ EspTask
    PROVE  ReportsInv'
<1> USE DEF WifiInv, TypeOK, ServiceTypeOK, Threads, ReportsInv, Tellings, LinkTold, Followed,
            StartFit, Due, Underway, Go, Quietly, bus, driver
<1>1. ASSUME NEW c \in Commands, Publish(c) PROVE ReportsInv'
    BY <1>1 DEF Publish
<1>2. CASE Notify
    BY <1>2 DEF Notify, Notified
<1>3. CASE ConnectResult \/ DisconnectResult
    BY <1>3 DEF ConnectResult, DisconnectResult, Report
<1>4. CASE Reported("net")
  <2>1. /\ at["net"] = "report"
        /\ reported' = tell["net"].state \/ (reported' = reported /\ lost')
        /\ \A t \in {"cmd", "esp"} : at'[t] = at[t] /\ tell'[t] = tell[t]
        /\ at'["net"] = tell["net"].then
        /\ tell'["net"] = NoReport
      BY <1>4 DEF Reported
  <2>2. UNCHANGED <<link, msg, queue, publishing, exchange, op, where, code>>
      BY <1>4 DEF Reported
  <2>3. tell["net"].then # "report"
      BY DEF Sequels
  <2> QED
      BY <2>1, <2>2, <2>3
<1>5. CASE Reported("esp")
  <2>1. /\ at["esp"] = "report"
        /\ reported' = "FAILED" \/ (reported' = reported /\ lost')
        /\ \A t \in {"cmd", "net"} : at'[t] = at[t] /\ tell'[t] = tell[t]
        /\ at'["esp"] = tell["esp"].then
      BY <1>5 DEF Reported
  <2>2. UNCHANGED <<link, msg, queue, publishing, exchange, op, where, code>>
      BY <1>5 DEF Reported
  <2>3. tell["esp"].then # "report"
      BY DEF Sequels
  <2> QED
      BY <2>1, <2>2, <2>3
<1>6. ASSUME NEW r \in {"success", "failure"}, WpsEvent(r) PROVE ReportsInv'
  <2>1. Use("esp")
      BY <1>6 DEF WpsEvent, Use, Entry
  <2> QED
      BY <1>6, <2>1, StartUndisturbed DEF WpsEvent
<1>7. CASE WpsResult
  <2>1. Use("esp") /\ exchange' = exchange
      BY <1>7 DEF WpsResult, Use, Wps!Leave
  <2> QED
      BY <1>7, <2>1, StartUndisturbed DEF WpsResult, Report
<1>8. CASE Offer \/ OfferTimeout
    BY <1>8 DEF Offer, OfferTimeout, Report
<1>9. CASE NotifyLearned
    BY <1>9 DEF NotifyLearned, Notified, Report
<1>10. CASE DriverStep("esp")
  <2>1. Use("esp")
      BY <1>10 DEF DriverStep, Use
  <2> QED
      BY <1>10, <2>1, StartUndisturbed DEF DriverStep
<1> QED
    BY <1>1, <1>2, <1>3, <1>4, <1>5, <1>6, <1>7, <1>8, <1>9, <1>10 DEF EspTask

(***************************************************************************)
(* However the reports of the three threads overtake one another, and      *)
(* whichever are lost to timeouts, and unless the last one was: at rest,   *)
(* CONNECTED is reported only of a connection or a new attempt,            *)
(* DISCONNECTED only without a connection, and CONNECTING only of an       *)
(* attempt or a WPS exchange, or after a disconnect, which excuses it.  Of *)
(* FAILED nothing is claimed (wifi.c:51-223).                              *)
(***************************************************************************)
THEOREM ReportsAreTrue == Spec => []ReportsTrue
<1>1. Init => ReportsInv
    BY DEF Init, NoReport, ReportsInv, Tellings, LinkTold, Followed, StartFit, Threads
<1>2. ASSUME WifiInv, ReportsInv, [Next]_vars
      PROVE  ReportsInv'
  <2>1. CASE CmdThread
      BY <1>2, <2>1, CmdReports
  <2>2. CASE Restart
      BY <2>2 DEF Restart, Wps!PowerUp, NoReport, ReportsInv, Tellings, LinkTold, Followed,
                  StartFit, Threads
  <2>3. CASE UNCHANGED vars
      BY <1>2, <2>3 DEF vars, ReportsInv, Tellings, LinkTold, Followed, StartFit, Due, Underway
  <2> QED
      BY <1>2, <2>1, <2>2, <2>3, OthersReport DEF Next
<1>3. ReportsInv => ReportsTrue
    BY DEF ReportsInv, LinkTold, Followed, Due, Underway, ReportsTrue, Resting, Threads
<1> QED
    BY WifiInvariant, <1>1, <1>2, <1>3, PTL DEF Spec
=============================================================================
