SPECIFICATION Spec
CONSTANTS
    a1 = a1
    a2 = a2
    x = x
    y = y
    NoMessage = NoMessage
    Aliases <- MCAliases
    Configured <- MCConfigured
    Created <- MCCreated
    Commands <- MCCommands
    Operators = 2
    MaxVersion = 3
    MaxKills = 1
    Original = Original
    Truncated = Truncated
    Mixed = Mixed
    NoFile = NoFile
    NoText = NoText
SYMMETRY Symmetry
CHECK_DEADLOCK FALSE
INVARIANTS
    TypeOK
    FileFollowsRegistry
    KeysInOrder
PROPERTIES
    OnlyForward
    CreatesWhenNeeded
    ImplementsStores
