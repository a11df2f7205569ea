SPECIFICATION Spec
CONSTANTS
    Messages <- TwoColors
    QueueSize = 2
    QueueBlocks = TRUE
INVARIANTS SteadyStaysSteady
