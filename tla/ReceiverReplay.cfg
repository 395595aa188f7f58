SPECIFICATION Spec
CONSTANTS
    alice = alice
    bob = bob
    endpoint = endpoint
    elsewhere = elsewhere
    NoReply = NoReply
    NotEnvelope = NotEnvelope
    BadJson = BadJson
    BadSchema = BadSchema
    NoRecord = NoRecord
    Requests = {r1, r2}
    Workers = {w1, w2}
    Identity = endpoint
    Skew = 1
    MaxTime = 2
    MaxVersion = 1
    Senders <- OneSender
    KeyOf <- MCKeyOf
    Envelopes <- TwoEnvelopes
SYMMETRY Symmetry
CHECK_DEADLOCK FALSE
INVARIANT
    HandledOnce
