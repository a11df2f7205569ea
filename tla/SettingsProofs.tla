--------------------------- MODULE SettingsProofs ---------------------------
(***************************************************************************)
(* That the shell's commands give back what they hold, and that the        *)
(* settings are read as they were stored, for any number of other threads, *)
(* objects and ids.                                                        *)
(***************************************************************************)
EXTENDS Settings, StorageProofs

LEMMA ObjectsStored == Objects \subseteq NvsIds /\ Schedule \in Objects /\ Net \in Objects
BY SettingsAssumption DEF Objects

LEMMA UnreadType == Unread \in [Objects -> Data \cup {Absent}]
BY DEF Unread

\* What flash holds for the objects is well formed, before and after a step.
LEMMA FlashType == TypeOK => Flash \in [Objects -> Data \cup {Absent}]
BY ObjectsStored DEF TypeOK, Flash

LEMMA FlashTypeNext == TypeOK' => Flash' \in [Objects -> Data \cup {Absent}]
BY ObjectsStored DEF TypeOK, Flash

\* Whatever the shell's thread and the others do, storage takes a step of its own or none.
LEMMA StorageSteps ==
    ASSUME [SettingsNext]_settingsVars
    PROVE  [Next]_vars
<1>1. CASE \E c \in Commands : Command(c)
    BY <1>1 DEF Command
<1>2. CASE Run
    BY <1>2 DEF Run, Socket, Options, Connect, Connecting, GetSchedule, GetNet, Reads, Misses,
        Use, Post, Close
<1>3. CASE Storing
    BY <1>3 DEF Storing, Next
<1>4. CASE Restart
    BY <1>4 DEF Restart, Next
<1>5. CASE UNCHANGED settingsVars
    BY <1>5 DEF settingsVars, vars
<1> QED
    BY <1>1, <1>2, <1>3, <1>4, <1>5 DEF SettingsNext

\* The part of the invariant that is about the shell's thread.
ShellTypeOK ==
    /\ shell \in Stages
    /\ cmd \in Commands \cup {"none"}
    /\ held \subseteq {"address", "socket"}
    /\ got \in [Objects -> Data \cup {Absent}]
    /\ past \subseteq [Objects -> Data \cup {Absent}]

LEMMA EndType ==
    ASSUME NEW from, NEW h, h \subseteq {"address", "socket"}, End(from, h)
    PROVE  ShellTypeOK'
BY UnreadType DEF ShellTypeOK, End, Step, Stages

LEMMA ReadsType ==
    ASSUME TypeOK, ShellTypeOK, NEW i \in Objects, Reads(i)
    PROVE  /\ got' \in [Objects -> Data \cup {Absent}]
           /\ past' \subseteq [Objects -> Data \cup {Absent}]
           /\ cmd' = cmd /\ held' = held
BY ObjectsStored, FlashType DEF TypeOK, ShellTypeOK, Reads

LEMMA RefusedType ==
    ASSUME ShellTypeOK, NEW from, Refused(from)
    PROVE  ShellTypeOK'
<1>1. CASE cmd = "settings" /\ End(from, held)
    BY <1>1, EndType DEF ShellTypeOK
<1>2. CASE cmd = "diagnostic"
    BY <1>2, UnreadType DEF Refused, ShellTypeOK, End, Step, Stages
<1> QED
    BY <1>1, <1>2 DEF Refused

LEMMA ShellType ==
    ASSUME TypeOK, TypeOK', ShellTypeOK, [SettingsNext]_settingsVars
    PROVE  ShellTypeOK'
<1>1. ASSUME NEW c \in Commands, Command(c) PROVE ShellTypeOK'
    BY <1>1 DEF ShellTypeOK, Command, Step, Stages
<1>2. CASE Socket
    <2>1. CASE End("socket", held \ {"address"})
        BY <2>1, EndType DEF ShellTypeOK
    <2> QED
        BY <1>2, <2>1 DEF Socket, Connecting, Step, ShellTypeOK, Stages
<1>3. CASE Options
    <2>1. CASE End("options", held \ {"address", "socket"})
        BY <2>1, EndType DEF ShellTypeOK
    <2> QED
        BY <1>3, <2>1 DEF Options, Connecting, Step, ShellTypeOK, Stages
<1>4. CASE Connect
    <2>1. CASE End("connect", held \ {"address", "socket"})
        BY <2>1, EndType DEF ShellTypeOK
    <2> QED
        BY <1>4, <2>1 DEF Connect, Connecting, Step, ShellTypeOK, Stages
<1>5. CASE GetSchedule
    <2>1. CASE Refused("schedule")
        BY <2>1, RefusedType
    <2>2. CASE Step("schedule", "net") /\ Reads(Schedule)
        BY <2>2, ReadsType, ObjectsStored DEF ShellTypeOK, Step, Stages
    <2> QED
        BY <1>5, <2>1, <2>2 DEF GetSchedule
<1>6. CASE GetNet
    <2>1. CASE Refused("net")
        BY <2>1, RefusedType
    <2>2. CASE Step("net", "got") /\ Reads(Net)
        BY <2>2, ReadsType, ObjectsStored DEF ShellTypeOK, Step, Stages
    <2> QED
        BY <1>6, <2>1, <2>2 DEF GetNet
<1>7. CASE Use
    <2>1. CASE End("got", held)
        BY <2>1, EndType DEF ShellTypeOK
    <2> QED
        BY <1>7, <2>1, UnreadType DEF Use, Step, ShellTypeOK, Stages
<1>8. CASE Post
    BY <1>8 DEF Post, Step, ShellTypeOK, Stages
<1>9. CASE Close
    BY <1>9, EndType DEF Close, ShellTypeOK
<1>10. CASE Storing
    BY <1>10, FlashTypeNext DEF Storing, ShellTypeOK
<1>11. CASE Restart
    BY <1>11, UnreadType DEF Restart, ShellTypeOK, Stages
<1>12. CASE UNCHANGED settingsVars
    BY <1>12 DEF settingsVars, ShellTypeOK
<1> QED
    BY <1>1, <1>2, <1>3, <1>4, <1>5, <1>6, <1>7, <1>8, <1>9, <1>10, <1>11, <1>12
        DEF SettingsNext, Run

\* On every path the shell's thread holds what its place says.
LEMMA HeldStep ==
    ASSUME ShellTypeOK, HeldFits, [SettingsNext]_settingsVars
    PROVE  HeldFits'
<1>1. ASSUME NEW c \in Commands, Command(c) PROVE HeldFits'
    BY <1>1 DEF Command, Step, HeldFits
<1>2. CASE Socket \/ Options \/ Connect
    BY <1>2 DEF Socket, Options, Connect, Connecting, End, Step, HeldFits
<1>3. CASE GetSchedule \/ GetNet
    BY <1>3 DEF GetSchedule, GetNet, Reads, Refused, End, Step, HeldFits
<1>4. CASE Use \/ Post \/ Close
    BY <1>4 DEF Use, Post, Close, End, Step, HeldFits
<1>5. CASE Storing
    BY <1>5 DEF Storing, HeldFits
<1>6. CASE Restart
    BY <1>6 DEF Restart, HeldFits
<1>7. CASE UNCHANGED settingsVars
    BY <1>7 DEF settingsVars, HeldFits
<1> QED
    BY <1>1, <1>2, <1>3, <1>4, <1>5, <1>6, <1>7 DEF SettingsNext, Run

LEMMA SettingsInvParts == SettingsInv <=> StorageInv /\ ShellTypeOK /\ HeldFits
BY DEF SettingsInv, SettingsTypeOK, ShellTypeOK, StorageInv

LEMMA SettingsInvNext ==
    ASSUME SettingsInv, [SettingsNext]_settingsVars
    PROVE  SettingsInv'
<1>1. StorageInv /\ ShellTypeOK /\ HeldFits
    BY SettingsInvParts
<1>2. StorageInv'
    BY <1>1, StorageSteps, NextInv
<1>3. TypeOK /\ TypeOK'
    BY <1>1, <1>2 DEF StorageInv
<1>4. ShellTypeOK'
    BY <1>1, <1>3, ShellType
<1>5. HeldFits'
    BY <1>1, HeldStep
<1> QED
    BY <1>2, <1>4, <1>5 DEF SettingsInv, SettingsTypeOK, ShellTypeOK, StorageInv

LEMMA SettingsInvInit == SettingsInit => SettingsInv
<1> SUFFICES ASSUME SettingsInit PROVE SettingsInv
    OBVIOUS
<1>1. StorageInv
    BY NoCallType, NoCallFits DEF SettingsInit, Init, QuietThreads, StorageInv, TypeOK, CallsFit,
        Steps, Codes, Argument
<1>2. ShellTypeOK /\ HeldFits
    BY UnreadType DEF SettingsInit, ShellIdle, ShellTypeOK, HeldFits, Stages
<1> QED
    BY <1>1, <1>2, SettingsInvParts

(***************************************************************************)
(* The commands of the shell hold the address list and the socket where    *)
(* their place says, and give both back on every path                      *)
(* (endpoint_shell.c:32-67, http_shell.c:51-113).                          *)
(***************************************************************************)
THEOREM SettingsInvariance == SettingsSpec => []SettingsInv
BY SettingsInvInit, SettingsInvNext, PTL DEF SettingsSpec
(***************************************************************************)
(* Beside a shell that reads, is refused and gives up, the storage         *)
(* component loses no object either: the one a command reads goes missing  *)
(* for good only by a delete, a failed write or a restart                  *)
(* (settings.c:37-49, storage.c:111-132).                                  *)
(***************************************************************************)
THEOREM ObjectsKeptBesideCommands == SettingsSpec => ObjectKept
<1>1. SettingsInv /\ [SettingsNext]_settingsVars
          => [\A i \in NvsIds : (Kept(i) /\ ~Kept(i)') => Excused]_vars
    BY SettingsInvParts, StorageSteps, StepKeeps
<1> QED
    BY SettingsInvariance, <1>1, PTL DEF SettingsSpec, ObjectKept, Excused
-----------------------------------------------------------------------------
\* Between the reads, what was read first was there then, and flash is what it was last.
Between ==
    shell = "net" =>
        /\ got[Schedule] # Absent
        /\ \E p \in past : p[Schedule] = got[Schedule]
        /\ Flash \in past

ReadInv == SettingsInv /\ Between /\ SettingsRead

LEMMA FirstRead ==
    ASSUME SettingsInv, Step("schedule", "net"), Reads(Schedule)
    PROVE  Between' /\ SettingsRead'
<1>1. got \in [Objects -> Data \cup {Absent}] /\ Schedule \in Objects
    BY ObjectsStored DEF SettingsInv, SettingsTypeOK
<1>2. got'[Schedule] = nvs[Schedule] /\ nvs[Schedule] # Absent
    BY <1>1 DEF Reads, Stored
<1>3. Flash[Schedule] = nvs[Schedule] /\ Flash' = Flash
    BY <1>1 DEF Flash, Reads, vars
<1> QED
    BY <1>2, <1>3 DEF Between, SettingsRead, Step, Reads

\* The pair that the second read completes.
LEMMA SecondRead ==
    ASSUME SettingsInv, Between, Step("net", "got"), Reads(Net)
    PROVE  Between' /\ SettingsRead'
<1>1. /\ got \in [Objects -> Data \cup {Absent}]
      /\ past \subseteq [Objects -> Data \cup {Absent}]
      /\ Objects = {Schedule, Net} /\ Schedule # Net
    BY SettingsAssumption DEF SettingsInv, SettingsTypeOK, Objects
<1>2. got' = [got EXCEPT ![Net] = nvs[Net]] /\ nvs[Net] # Absent /\ past' = past \cup {Flash}
    BY DEF Reads, Stored
<1>3. got[Schedule] # Absent /\ Flash \in past
    BY DEF Between, Step
<1>4. PICK p \in past : p[Schedule] = got[Schedule]
    BY DEF Between, Step
<1>5. Flash[Net] = nvs[Net] /\ Flash \in [Objects -> Data \cup {Absent}]
    BY <1>1, <1>3 DEF Flash
<1>6. got'[Schedule] = got[Schedule] /\ got'[Net] = nvs[Net] /\ got' \in [Objects -> Data \cup {Absent}]
    BY <1>1, <1>2, <1>5
<1>7. CASE p[Net] = nvs[Net]
    <2>1. got' = p
        BY <1>1, <1>4, <1>6, <1>7
    <2> QED
        BY <1>1, <1>2, <1>3, <1>6, <2>1 DEF Between, SettingsRead, Step
<1>8. CASE Flash[Schedule] = got[Schedule]
    <2>1. got' = Flash
        BY <1>1, <1>5, <1>6, <1>8
    <2> QED
        BY <1>1, <1>2, <1>3, <1>6, <2>1 DEF Between, SettingsRead, Step
<1>9. CASE p[Net] # nvs[Net] /\ Flash[Schedule] # got[Schedule]
    <2>1. \A i \in Objects : \E q, r \in past' : q[i] # r[i]
        BY <1>1, <1>2, <1>3, <1>4, <1>5, <1>9
    <2> QED
        BY <1>1, <1>2, <1>3, <1>6, <2>1 DEF Between, SettingsRead, Step
<1> QED
    BY <1>7, <1>8, <1>9

LEMMA ReadStep ==
    ASSUME ReadInv, [SettingsNext]_settingsVars
    PROVE  Between' /\ SettingsRead'
<1> USE DEF ReadInv
<1>1. ASSUME NEW c \in Commands, Command(c) PROVE Between' /\ SettingsRead'
    BY <1>1 DEF Command, Step, Between, SettingsRead
<1>2. CASE Socket \/ Options \/ Connect
    BY <1>2 DEF Socket, Options, Connect, Connecting, End, Step, Between, SettingsRead
<1>3. CASE Refused("schedule") \/ Refused("net")
    BY <1>3 DEF Refused, End, Step, Between, SettingsRead
<1>4. CASE GetSchedule
    BY <1>3, <1>4, FirstRead DEF GetSchedule
<1>5. CASE GetNet
    BY <1>3, <1>5, SecondRead DEF GetNet
<1>6. CASE Use \/ Post \/ Close
    BY <1>6 DEF Use, Post, Close, End, Step, Between, SettingsRead
<1>7. CASE Storing
    <2>1. shell' = shell /\ got' = got
        BY <1>7 DEF Storing
    <2>2. CASE shell = "net"
        <3>1. past' = past \cup {Flash'}
            BY <1>7, <2>2 DEF Storing
        <3> QED
            BY <2>1, <2>2, <3>1 DEF Between, SettingsRead
    <2>3. CASE shell # "net"
        <3>1. past' = past
            BY <1>7, <2>3 DEF Storing
        <3> QED
            BY <2>1, <2>3, <3>1 DEF Between, SettingsRead
    <2> QED
        BY <2>2, <2>3
<1>8. CASE Restart
    BY <1>8 DEF Restart, Between, SettingsRead
<1>9. CASE UNCHANGED settingsVars
    BY <1>9 DEF settingsVars, Between, SettingsRead, Flash
<1> QED
    BY <1>1, <1>2, <1>4, <1>5, <1>6, <1>7, <1>8, <1>9 DEF SettingsNext, Run

(***************************************************************************)
(* Whatever other threads store between the two reads of a get, the        *)
(* objects it returns were stored, and as a pair, unless both were written *)
(* in between.                                                             *)
(***************************************************************************)
THEOREM SettingsReadHolds == SettingsSpec => []SettingsRead
<1>1. SettingsInit => ReadInv
    BY SettingsInvInit DEF SettingsInit, ShellIdle, ReadInv, Between, SettingsRead
<1>2. ReadInv /\ [SettingsNext]_settingsVars => ReadInv'
    BY SettingsInvNext, ReadStep DEF ReadInv
<1>3. ReadInv => SettingsRead
    BY DEF ReadInv
<1> QED
    BY <1>1, <1>2, <1>3, PTL DEF SettingsSpec
-----------------------------------------------------------------------------
\* How many steps the command the shell runs can still take.
StepsLeft ==
    [s \in Stages |-> CASE s = "socket"   -> 8
                        [] s = "options"  -> 7
                        [] s = "connect"  -> 6
                        [] s = "schedule" -> 5
                        [] s = "net"      -> 4
                        [] s = "got"      -> 3
                        [] s = "post"     -> 2
                        [] s = "close"    -> 1
                        [] s = "idle"     -> 0]

(***************************************************************************)
(* The part of CommandReturns that needs no fairness: each step of a       *)
(* command, a failed one too, brings it nearer to its end, and nothing     *)
(* other threads do to the objects it reads takes it back: a get that is   *)
(* refused is not tried again (settings.c:29-52, endpoint_shell.c:144-167).*)
(***************************************************************************)
CommandsRunOut ==
    [][/\ Run => StepsLeft[shell'] < StepsLeft[shell]
       /\ shell # "idle" => StepsLeft[shell'] <= StepsLeft[shell]]_settingsVars

LEMMA StepsLeftValues ==
    /\ StepsLeft["socket"] = 8 /\ StepsLeft["options"] = 7 /\ StepsLeft["connect"] = 6
    /\ StepsLeft["schedule"] = 5 /\ StepsLeft["net"] = 4 /\ StepsLeft["got"] = 3
    /\ StepsLeft["post"] = 2 /\ StepsLeft["close"] = 1 /\ StepsLeft["idle"] = 0
BY DEF StepsLeft, Stages

LEMMA RunSpends ==
    ASSUME Run
    PROVE  StepsLeft[shell'] < StepsLeft[shell]
<1> USE StepsLeftValues DEF Step
<1>1. CASE Socket \/ Options \/ Connect
    BY <1>1 DEF Socket, Options, Connect, Connecting, End
<1>2. CASE GetSchedule
    BY <1>2 DEF GetSchedule, Refused, End
<1>3. CASE GetNet
    BY <1>3 DEF GetNet, Refused, End
<1>4. CASE Use \/ Post \/ Close
    BY <1>4 DEF Use, Post, Close, End
<1> QED
    BY <1>1, <1>2, <1>3, <1>4 DEF Run

(***************************************************************************)
(* Whatever fails and whatever other threads store, a command of the shell *)
(* takes at most eight steps.                                              *)
(***************************************************************************)
THEOREM CommandsAreBounded == SettingsSpec => CommandsRunOut
<1> DEFINE Spent == /\ Run => StepsLeft[shell'] < StepsLeft[shell]
                    /\ shell # "idle" => StepsLeft[shell'] <= StepsLeft[shell]
<1>1. ASSUME SettingsInv, [SettingsNext]_settingsVars PROVE Spent
  <2>1. shell \in Stages
      BY <1>1 DEF SettingsInv, SettingsTypeOK
  <2>2. StepsLeft[shell] \in Nat
      BY <2>1, StepsLeftValues DEF Stages
  <2>3. Run => StepsLeft[shell'] < StepsLeft[shell]
      BY RunSpends
  <2>4. ASSUME shell # "idle" PROVE StepsLeft[shell'] <= StepsLeft[shell]
    <3>1. ASSUME NEW c \in Commands, Command(c) PROVE FALSE
        BY <2>4, <3>1 DEF Command, Step
    <3>2. CASE Run
      <4>1. shell' \in Stages
          BY <1>1, SettingsInvNext DEF SettingsInv, SettingsTypeOK
      <4>2. StepsLeft[shell'] \in Nat
          BY <4>1, StepsLeftValues DEF Stages
      <4> QED
          BY <2>2, <2>3, <3>2, <4>2
    <3>3. CASE Storing
        BY <2>2, <3>3 DEF Storing
    <3>4. CASE Restart
        BY <2>1, <2>2, <3>4, StepsLeftValues DEF Restart
    <3>5. CASE UNCHANGED settingsVars
        BY <2>2, <3>5 DEF settingsVars
    <3> QED
        BY <1>1, <3>1, <3>2, <3>3, <3>4, <3>5 DEF SettingsNext
  <2> QED
      BY <2>3, <2>4
<1>2. SettingsInv /\ [SettingsNext]_settingsVars => [Spent]_settingsVars
    BY <1>1
<1> QED
    BY SettingsInvariance, <1>2, PTL DEF SettingsSpec, CommandsRunOut
=============================================================================
