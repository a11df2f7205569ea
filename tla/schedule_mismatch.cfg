SPECIFICATION Spec
CONSTANTS
    Publishers = {p1}
    Readers = {r1}
    Nobody = Nobody
    Names = {alice, bartholomew}
    LongNames = {bartholomew}
    NoName = NoName
    ClientIds <- ZeroPaddedIds
    ServerIds <- FetchedIds
    Slots <- TwoSlots
    FirstUseMinutes = 2
    ExtendMinutes = 1
    Horizon = 3
    Absent = Absent
    IOFaults = FALSE
    Restarts = FALSE
INVARIANTS MismatchMeansAnotherUser
