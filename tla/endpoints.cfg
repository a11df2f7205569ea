SPECIFICATION Spec
CONSTANTS
    Workers = {w1, w2}
    Nobody = Nobody
    Users = {ana}
    Anonymous = Anonymous
    Starts = {0, 2}
    Length = 2
    Extra = 1
    Capacity = 2
    Extensions = 1
    Commands = {"fetch_schedule", "confirm_schedule", "checkout", "http"}
    Typed = {"extend"}
    Kept <- Whole
    Drops = TRUE
    ana = ana
    bia = bia
INVARIANTS EndpointsInv OverlapExplained AckedEnded HeldIsBooked
PROPERTIES BookingsSpec
SYMMETRY Interchangeable
