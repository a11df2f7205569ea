SPECIFICATION Spec
CONSTANTS
    QueueSize = 4
INVARIANTS SntpInv SyncedAtRest
PROPERTIES ToldAtLast
