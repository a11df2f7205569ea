SPECIFICATION Spec
CONSTANTS
    QueueSize = 2
    Faults = TRUE
    Timeouts = TRUE
    Restarts = TRUE
INVARIANTS WifiInv HalAccounted RequestAfterStop ReportsTrue
