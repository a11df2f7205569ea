SPECIFICATION Spec
CONSTANTS
    Threads = {t1, t2, t3}
    NvsIds = {schedule}
    Data = {d1, d2}
    Absent = Absent
    Kinds <- EveryKind
    IOFaults = FALSE
    Restarts = TRUE
INVARIANTS StorageInv SuccessStored
PROPERTIES ObjectKept OperationReturns
