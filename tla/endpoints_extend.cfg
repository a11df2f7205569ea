SPECIFICATION Spec
CONSTANTS
    Workers = {w1, w2}
    Nobody = Nobody
    Users = {ana, bia}
    Anonymous = Anonymous
    Starts = {0}
    Length = 2
    Extra = 1
    Capacity = 2
    Extensions = 3
    Commands = {"fetch_schedule", "confirm_schedule", "checkout", "http"}
    Typed = {"extend"}
    Kept <- Cut
    Drops = TRUE
    ana = ana
    bia = bia
INVARIANTS AckedEnded HeldIsBooked
SYMMETRY Interchangeable
