SPECIFICATION Spec
CONSTANTS
    QueueSize = 2
    Faults = FALSE
    Timeouts = FALSE
    Restarts = FALSE
INVARIANTS ConnectingIsTrue
