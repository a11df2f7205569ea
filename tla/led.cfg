SPECIFICATION Spec
CONSTANTS
    Messages <- TwoColors
    QueueSize = 2
    QueueBlocks = TRUE
INVARIANTS LedInv OneLit SteadyColor NothingMissed
PROPERTIES LastCommandExecuted
