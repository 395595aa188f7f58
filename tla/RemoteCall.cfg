SPECIFICATION Spec
CONSTANTS
    alice = alice
    bob = bob
    x = x
    y = y
    z = z
    NoReply = NoReply
    NoId = NoId
    OtherId = OtherId
    NoMessage = NoMessage
    Skew = 1
    Stale = 1
    MaxTime = 3
    MaxRecords = 3
    Agents <- MCAgents
    Calls <- MCCalls
    Deliveries <- MCDeliveries
SYMMETRY Symmetry
CHECK_DEADLOCK FALSE
INVARIANTS
    TypeOK
    
PROPERTIES
    ResultIsGenuine
    SettledReplyAccepted
    ImplementsGuard
