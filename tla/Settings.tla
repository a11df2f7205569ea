------------------------------ MODULE Settings ------------------------------
(***************************************************************************)
(* The shell's commands that read the settings (components/settings.c,     *)
(* endpoints/diagnostic.c) or that only connect, as http and the other     *)
(* endpoints' do, beside other threads' storage operations. The settings   *)
(* are two objects of flash, read one after the other with nothing that    *)
(* keeps the writers out.                                                  *)
(***************************************************************************)
EXTENDS Storage

CONSTANTS
    Schedule,  \* BAIATOOL_SCHEDULE_NVS_ID
    Net,       \* BAIATOOL_NET_SETTINGS_NVS_ID
    Commands   \* the shell's commands

ASSUME SettingsAssumption ==
    /\ {Schedule, Net} \subseteq NvsIds
    /\ Schedule # Net
    /\ Commands \subseteq {"settings", "diagnostic", "http", "https"}

VARIABLES
    shell,    \* where the shell's thread is
    cmd,      \* the command it runs
    held,     \* the address list and the socket it has to give back
    got,      \* the objects it has read
    past      \* history: what flash held from the first read of the get to the last

shellVars == <<shell, cmd, held, got, past>>
settingsVars == <<nvs, pc, call, ret, shell, cmd, held, got, past>>

Objects == {Schedule, Net}

Unread == [i \in Objects |-> Absent]

Stages == {"idle", "socket", "options", "connect", "schedule", "net", "got", "post", "close"}

SettingsTypeOK ==
    /\ TypeOK
    /\ shell \in Stages
    /\ cmd \in Commands \cup {"none"}
    /\ held \subseteq {"address", "socket"}
    /\ got \in [Objects -> Data \cup {Absent}]
    /\ past \subseteq [Objects -> Data \cup {Absent}]

ShellIdle ==
    /\ shell = "idle"
    /\ cmd = "none"
    /\ held = {}
    /\ got = Unread
    /\ past = {}

SettingsInit == Init /\ ShellIdle
-----------------------------------------------------------------------------
Step(from, to) == shell = from /\ shell' = to

Flash == [i \in Objects |-> nvs[i]]

\* The command ends, and what it has read goes with its stack.
End(from, h) ==
    /\ Step(from, "idle")
    /\ cmd' = "none"
    /\ held' = h
    /\ got' = Unread
    /\ past' = {}

\* A step of connect_to_host that leaves it holding h.
Connecting(from, to, h) ==
    /\ Step(from, to)
    /\ held' = h
    /\ UNCHANGED <<cmd, got, past, vars>>

\* A command begins.  When the look-up of the host fails, it has ended.
Command(c) ==
    /\ Step("idle", IF c = "settings" THEN "schedule" ELSE "socket")
    /\ cmd' = c
    /\ held' = IF c = "settings" THEN {} ELSE {"address"}
    /\ UNCHANGED <<got, past, vars>>

Socket ==
    \/ Connecting("socket", IF cmd = "https" THEN "options" ELSE "connect", held \cup {"socket"})
    \/ End("socket", held \ {"address"}) /\ UNCHANGED vars

\* TLS_HOSTNAME and TLS_PEER_VERIFY: the error paths of both are the same.
Options ==
    \/ Connecting("options", "connect", held)
    \/ End("options", held \ {"address", "socket"}) /\ UNCHANGED vars

\* Mutant: a connect that fails leaves the socket open.
ConnectLeaks ==
    \/ Connecting("connect", IF cmd = "diagnostic" THEN "schedule" ELSE "post", held \ {"address"})
    \/ End("connect", held \ {"address"}) /\ UNCHANGED vars

\* zsock_connect, after which the diagnostic begins to read the settings.
Connect ==
    \/ Connecting("connect", IF cmd = "diagnostic" THEN "schedule" ELSE "post", held \ {"address"})
    \/ End("connect", held \ {"address", "socket"}) /\ UNCHANGED vars

\* A read of the object i that succeeds.
Reads(i) ==
    /\ Stored(i)
    /\ got' = [got EXCEPT ![i] = nvs[i]]
    /\ past' = past \cup {Flash}
    /\ UNCHANGED <<cmd, held, vars>>

Misses(i) == (~Stored(i) \/ IOFaults) /\ UNCHANGED vars

\* The get returns an error: the diagnostic closes its socket and returns it.
Refused(from) ==
    \/ cmd = "settings" /\ End(from, held)
    \/ /\ cmd = "diagnostic"
       /\ Step(from, "close")
       /\ got' = Unread
       /\ past' = {}
       /\ UNCHANGED <<cmd, held>>

\* Mutant: the code of the first read is not looked at.
GetUnchecked ==
    \/ Step("schedule", "net") /\ Reads(Schedule)
    \/ /\ Step("schedule", "net")
       /\ Misses(Schedule)
       /\ UNCHANGED <<cmd, held, got, past>>

\* baiatool_settings_get: the first read.
GetSchedule ==
    \/ Step("schedule", "net") /\ Reads(Schedule)
    \/ Refused("schedule") /\ Misses(Schedule)

\* Mutant: a read that finds nothing is tried again.
GetRetries ==
    \/ Step("net", "got") /\ Reads(Net)
    \/ /\ Step("net", "net")
       /\ Misses(Net)
       /\ UNCHANGED <<cmd, held, got, past>>

\* The second read.
GetNet ==
    \/ Step("net", "got") /\ Reads(Net)
    \/ Refused("net") /\ Misses(Net)

\* The settings are printed, or encoded into a request.
Use ==
    \/ cmd = "settings" /\ End("got", held) /\ UNCHANGED vars
    \/ /\ cmd = "diagnostic"
       /\ Step("got", "post") \/ Step("got", "close")   \* the encoding may fail
       /\ got' = Unread
       /\ past' = {}
       /\ UNCHANGED <<cmd, held, vars>>

\* The request is sent and answered, or one of the two is lost: the shell's thread prints
\* which.
Post ==
    /\ Step("post", "close")
    /\ UNCHANGED <<cmd, held, got, past, vars>>

\* zsock_close.
Close == End("close", held \ {"socket"}) /\ UNCHANGED vars

\* What the other threads do with storage.
Storing ==
    /\ \/ \E t \in Threads, kind \in Kinds, i \in NvsIds :
              \E d \in Argument(kind) : Call(t, kind, i, d)
       \/ \E t \in Threads : Advance(t) \/ Resume(t)
    /\ past' = IF shell = "net" THEN past \cup {Flash'} ELSE past
    /\ UNCHANGED <<shell, cmd, held, got>>

\* The board restarts.
Restart ==
    /\ Crash
    /\ shell' = "idle"
    /\ cmd' = "none"
    /\ held' = {}
    /\ got' = Unread
    /\ past' = {}

\* What the shell's thread does once a command has begun.
Run == Socket \/ Options \/ Connect \/ GetSchedule \/ GetNet \/ Use \/ Post \/ Close

SettingsNext ==
    \/ \E c \in Commands : Command(c)
    \/ Run
    \/ Storing
    \/ Restart

\* The shell's thread goes on: every wait in a command has a timeout.
SettingsFairness == WF_settingsVars(Run)

SettingsSpec == SettingsInit /\ [][SettingsNext]_settingsVars /\ SettingsFairness
-----------------------------------------------------------------------------
\* The address list is held until the connect, the socket from its creation on.
HeldFits ==
    /\ shell = "idle" => held = {}
    /\ shell = "socket" => held = {"address"}
    /\ shell \in {"options", "connect"} => held = {"address", "socket"}
    /\ shell \in {"schedule", "net", "got"} => held = IF cmd = "diagnostic" THEN {"socket"} ELSE {}
    /\ shell \in {"post", "close"} => held = {"socket"}
    /\ shell \in {"schedule", "net", "got"} => cmd \in {"settings", "diagnostic"}

SettingsInv == SettingsTypeOK /\ StorageInv /\ HeldFits

(***************************************************************************)
(* A get that succeeds returns two objects that were stored, and never     *)
(* what was on the stack, whatever updates, which delete before they       *)
(* create, did between its reads.  It returns a pair that flash never held *)
(* only if both objects were written between the two                       *)
(* (settings.c:37-49, diagnostic.c:72-98).                                 *)
(***************************************************************************)
SettingsRead ==
    shell = "got" =>
        /\ \A i \in Objects : got[i] # Absent
        /\ got \in past \/ \A i \in Objects : \E p, q \in past : p[i] # q[i]

\* A command returns, whatever fails and whatever is missing: nothing is tried
\* again (settings.c:29-52, endpoint_shell.c:144-167).
CommandReturns == shell # "idle" ~> shell = "idle"
=============================================================================
