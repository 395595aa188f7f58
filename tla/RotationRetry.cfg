SPECIFICATION Spec
CONSTANTS
    a1 = a1
    a2 = a2
    x = x
    y = y
    NoMessage = NoMessage
    Aliases <- MCAliases
    Configured <- MCCreated
    Created <- MCCreated
    Commands <- RetryCommands
    Operators = 1
    MaxVersion = 2
    MaxKills = 0
    Original = Original
    Truncated = Truncated
    Mixed = Mixed
    NoFile = NoFile
    NoText = NoText
SYMMETRY Symmetry
CHECK_DEADLOCK FALSE
INVARIANTS
    RetryIsUnpublished
