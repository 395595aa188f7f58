SPECIFICATION Spec
CONSTANTS
    c1 = c1
    c2 = c2
    s1 = s1
    s2 = s2
    s3 = s3
    key1 = key1
    key2 = key2
    n1 = n1
    n2 = n2
    n3 = n3
    n4 = n4
    Peer = Peer
    Requests = {r1, r2, r3}
    RegistryUrl = RegistryUrl
    NoCredentials = NoCredentials
    NotJson = NotJson
    NotEnvelope = NotEnvelope
    BadPayload = BadPayload
    NoProof = NoProof
    NoCall = NoCall
    NoRecord = NoRecord
    NoReply = NoReply
    NoScope = NoScope
    Versions = {0, 1, 2}
    Skew = 2
    MaxTime = 4
    Operators = 1
    Agents <- MCAgents
    Clients <- MCClients
    Secrets <- MCSecrets
    Keys <- MCKeys
    Endpoints <- MCEndpoints
    Scopes <- MCScopes
    NamespaceIds <- MCNamespaceIds
    Provisioned <- Provision
    ProvisionedScopes <- ProvisionScopes
    Deliveries <- LifeDeliveries
    Commands <- NoCommands
SYMMETRY Symmetry
CHECK_DEADLOCK FALSE
INVARIANTS
    TypeOK
    NoncesMatchCommits
    ReplayOnlyAtTheEdge
PROPERTIES
    ImplementsLedger
    ImplementsGuard
