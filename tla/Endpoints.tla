----------------------------- MODULE Endpoints -----------------------------
(***************************************************************************)
(* The board's commands to the reservation server (src/shell, src/         *)
(* endpoints), composed with the server and with what the schedule service *)
(* makes of a LOAD.  A command connects, sends one request, waits for its  *)
(* answer for five seconds and closes its socket.  The request may not     *)
(* arrive and the answer may be lost or late: the server's thread goes on  *)
(* all the same, beside the next command's.                                *)
(***************************************************************************)
EXTENDS ScheduleStore

CONSTANTS
    Kept,   \* what user_id of a LOAD keeps of a name: CONFIG_MAX_ID_LENGTH - 1 bytes
    Commands, \* the shell's commands
    Typed,  \* bound: the requests that are typed into http and https
    Drops   \* whether the schedule service may drop a LOAD (a channel that stays locked)

ASSUME EndpointsAssumption ==
    /\ Kept \in [Users -> Users]
    /\ Commands \subseteq {"fetch_schedule", "confirm_schedule", "checkout", "http"}
    /\ Typed \subseteq Changes
    /\ Drops \in BOOLEAN

VARIABLES
    shell,   \* where the shell's thread is
    cmd,     \* the command it runs
    phase, holder, window,  \* the schedule service's state
    origin,  \* history: the reservation it has loaded, 0 when there is none in the book
    acked    \* history: reservations whose end was acknowledged to the board

boardVars == <<shell, cmd, phase, holder, window, origin, acked>>
service == <<phase, holder, window, origin>>
vars == <<book, lock, at, waiting, req, scanned, code, revived, shortened,
          shell, cmd, phase, holder, window, origin, acked>>

Station == INSTANCE Workstation WITH
    Holders <- Users \cup {Anonymous}, NoHolder <- Anonymous, Displaceable <- {}, FirstUntil <- 0

BoardTypeOK ==
    /\ shell \in {"idle", "wait"}
    /\ cmd \in Commands \cup {"none"}
    /\ phase \in {"free", "reserved"}
    /\ holder \in Users \cup {Anonymous}
    /\ window \in [from : Nat, until : Nat]
    /\ origin \in DOMAIN book \cup {0}
    /\ acked \subseteq DOMAIN book

TypeOK == StoreTypeOK /\ BoardTypeOK

ShellIdle == shell = "idle" /\ cmd = "none"

Init == StoreInit /\ ShellIdle /\ Station!Init /\ origin = 0 /\ acked = {}
-----------------------------------------------------------------------------
Goto(from, to) == shell = from /\ shell' = to

Return(from) == Goto(from, "idle") /\ cmd' = "none"

\* What each command sends: fetch a GET, confirm and checkout the name that is in
\* schedule_state_chan, the HTTP commands whatever is typed.
Sends(c, op, user) ==
    \/ c = "fetch_schedule" /\ op = "offer" /\ user = Anonymous
    \/ c = "confirm_schedule" /\ op = "confirm" /\ user = holder
    \/ c = "checkout" /\ op = "end" /\ user = holder
    \/ c = "http" /\ op \in Typed /\ user \in Users

\* A command connects and sends its request.  One that does not get so far has changed
\* nothing, here or at the server.
Ask ==
    /\ Goto("idle", "wait")
    /\ \E c \in Commands, op \in Changes \cup {"offer"}, user \in Users \cup {Anonymous} :
           /\ Sends(c, op, user)
           /\ cmd' = c
           /\ \E w \in Workers : Receive(w, op, user, 0, TRUE)
    /\ UNCHANGED <<service, acked>>

\* Mutant: a reservation that replaces another keeps the other's end.
LoadKeepsEnd(r, until) ==
    \/ /\ holder' = Kept[book[r].user]
       /\ window' = [from |-> book[r].start, until |-> IF phase = "free" THEN until ELSE window.until]
       /\ Station!Reserve
       /\ origin' = r
    \/ /\ Drops \/ (phase # "free" /\ book[r].start >= window.from)
       /\ UNCHANGED service

\* The listener of schedule_cmd_chan takes the reservation r, as to_firmware_json gave
\* it and schedule_endpoint_fetch copied it, or leaves it.
Load(r, until) ==
    \/ /\ holder' = Kept[book[r].user]
       /\ window' = [from |-> book[r].start, until |-> until]
       /\ Station!Reserve
       /\ origin' = r
    \/ /\ Drops \/ (phase # "free" /\ book[r].start >= window.from)
       /\ UNCHANGED service

\* The answer arrives.  A status other than 2xx is an error of confirm and
\* checkout, and no error of fetch.
Hear(w) ==
    /\ w \in waiting
    /\ Return("wait")
    /\ Finish(w)
    /\ IF cmd = "fetch_schedule" /\ code[w] = "ok"
          THEN Load(req[w].found, req[w].end)
          ELSE UNCHANGED service
    /\ acked' = IF cmd = "checkout" /\ code[w] = "ok" THEN acked \cup {req[w].found} ELSE acked

\* Mutant: a timeout of the request counts as success.
GiveUpContent(w) ==
    /\ Return("wait")
    /\ Leave(w)
    /\ acked' = IF cmd = "checkout" /\ req[w].found > 0 THEN acked \cup {req[w].found} ELSE acked
    /\ UNCHANGED service

\* Five seconds pass, the connection breaks or what arrives is not JSON.
GiveUp(w) ==
    /\ Return("wait")
    /\ Leave(w)
    /\ UNCHANGED <<service, acked>>

\* The board forgets everything; what it asked for goes on.
BoardRestart ==
    /\ shell' = "idle"
    /\ cmd' = "none"
    /\ phase' = "free"
    /\ holder' = Anonymous
    /\ window' = [from |-> 0, until |-> 0]
    /\ origin' = 0
    /\ (\E w \in Workers : Leave(w)) \/ (waiting = {} /\ UNCHANGED storeVars)
    /\ UNCHANGED acked

\* What the shell's thread does once a request is sent.
Run == \E w \in Workers : Hear(w) \/ GiveUp(w)

\* The form of the browser.
Register ==
    /\ \E w \in Workers, user \in Users, start \in Starts :
           Receive(w, "register", user, start, FALSE)
    /\ UNCHANGED boardVars

Server ==
    /\ \E w \in Workers : Serve(w)
    /\ UNCHANGED boardVars

\* The board's connections break with the server.
ServerFails ==
    /\ ServerRestart
    /\ shell' = "idle"
    /\ cmd' = "none"
    /\ origin' = 0
    /\ acked' = {}
    /\ UNCHANGED <<phase, holder, window>>

Next ==
    \/ Ask
    \/ Run
    \/ Register
    \/ Server
    \/ BoardRestart
    \/ ServerFails

Spec == Init /\ [][Next]_vars
-----------------------------------------------------------------------------
\* The shell waits for one thread at a time, and only in a command.
ShellFits ==
    /\ shell = "idle" => cmd = "none" /\ waiting = {}
    /\ shell = "wait" => \E w \in Workers : waiting = {w}

(***************************************************************************)
(* What the board holds is a reservation of the book, under the name as    *)
(* the board keeps it, and never lasts longer on the board than at the     *)
(* server, whatever was answered late, extended, or changed since it was   *)
(* read, unless the server lost its book, or one extend took back what     *)
(* another had given (app.py:65-82, endpoints/schedule.c:111-118).         *)
(***************************************************************************)
HeldIsBooked ==
    origin > 0 =>
        /\ phase = "reserved"
        /\ holder = Kept[book[origin].user]
        /\ window.from = book[origin].start
        /\ window.until <= book[origin].end \/ origin \in shortened

(***************************************************************************)
(* A reservation whose end was acknowledged to the board is over, unless a *)
(* confirm that had found it before, and was late, brought it back: no     *)
(* lost or late answer, and no other request, makes the board take for     *)
(* ended what is not (checkout.c:70-85, app.py:44-63).                     *)
(***************************************************************************)
AckedEnded == \A r \in acked : ~Live(r) \/ r \in revived

EndpointsInv == TypeOK /\ StoreInv /\ ShellFits

Book == INSTANCE Bookings

(***************************************************************************)
(* The server, with its threads, its lock and the steps its requests are   *)
(* taken in, implements a book that changes by whole operations: a slot    *)
(* that a registration found free is still free when it is taken, and what *)
(* a late request does is one of the changes named (app.py:25-70).         *)
(***************************************************************************)
BookingsSpec == Book!Spec
=============================================================================
