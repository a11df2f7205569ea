SPECIFICATION Spec
CONSTANTS
    Publishers = {p1, p2}
    Readers = {r1}
    Nobody = Nobody
    Names = {alice, bartholomew}
    LongNames = {bartholomew}
    NoName = NoName
    ClientIds <- ZeroPaddedIds
    ServerIds <- FetchedOrNamelessIds
    Slots <- TwoSlots
    FirstUseMinutes = 2
    ExtendMinutes = 1
    Horizon = 3
    Absent = Absent
    IOFaults = TRUE
    Restarts = TRUE
INVARIANTS TypeOK SessionShape LocksHeld SavesCurrent FlashCurrent
PROPERTIES SessionKept EarliestStays StationSpec PublishReturns
