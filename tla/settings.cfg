SPECIFICATION SettingsSpec
CONSTANTS
    Threads <- TwoThreads
    t1 = t1
    t2 = t2
    NvsIds = {schedule, net}
    Data = {d1}
    Absent = Absent
    Kinds = {"update", "delete"}
    IOFaults = TRUE
    Restarts = TRUE
    Schedule = schedule
    Net = net
    Commands = {"settings", "diagnostic", "http", "https"}
INVARIANTS SettingsInv SettingsRead
PROPERTIES ObjectKept CommandReturns
