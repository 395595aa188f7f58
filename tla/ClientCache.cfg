SPECIFICATION Spec
CONSTANTS
    NoEntry = NoEntry
    Calls = {c1, c2, c3}
    TTL = 2
    MaxWait = 1
    MaxTime = 4
    MaxLog = 3
    Agents = {agent}
SYMMETRY Symmetry
CHECK_DEADLOCK FALSE
INVARIANTS
    TypeOK
    CacheWasCurrent
    OwnChangeSeen
PROPERTIES
    BoundedStaleness
    ImplementsDirectory
