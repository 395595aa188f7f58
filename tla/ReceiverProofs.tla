--------------------------- MODULE ReceiverProofs ---------------------------
(***************************************************************************)
(* Proofs about Receiver: for any senders, envelopes, deliveries and       *)
(* workers, with one shared store or with one in each worker, a store      *)
(* remembers what was consumed in it, an ID is consumed once within its    *)
(* window, and handlers run only for what was meant for them.              *)
(***************************************************************************)
EXTENDS Receiver, TLAPS

USE ReceiverAssumption, SkewAssumption



Typed ==
    /\ now \in Nat /\ persistent \in BOOLEAN
    /\ version \in [Senders -> 0..MaxVersion]
    /\ pc \in [Requests -> Stages]
    /\ worker \in [Requests -> Workers]
    /\ env \in [Requests -> Envelopes]
    /\ seen \in [Requests -> Records \cup {NoRecord}]
    /\ clock \in [Requests -> Nat]
    /\ DOMAIN verified \subseteq Requests
    /\ DOMAIN nonces = Stores
    /\ DOMAIN consumed \subseteq Requests
    /\ handled \subseteq DOMAIN consumed
    /\ forgotten \subseteq DOMAIN consumed

\* What a route's place says about its locals.
Progress ==
    \A r \in Requests :
        /\ pc[r] \in {"idle", "resolve", "verify", "clock", "consume"} =>
              r \notin DOMAIN consumed
        /\ pc[r] = "payload" => r \in DOMAIN consumed
        /\ pc[r] \notin {"idle", "done"} => env[r] # NotEnvelope
        /\ r \in DOMAIN consumed => env[r] # NotEnvelope
        /\ clock[r] <= now

\* NoncesMatchConsumed but for Genuine, and the row of a valid ID has the
\* expiry of the envelope that was consumed.
Exact ==
    /\ \A r \in Remembered :
          now < Expiry(env[r]) =>
             /\ Id(r) \in DOMAIN nonces[Store(r)]
             /\ nonces[Store(r)][Id(r)] = Expiry(env[r])
    /\ \A st \in Stores : \A n \in DOMAIN nonces[st] :
          \E r \in Remembered : Store(r) = st /\ Id(r) = n
                                /\ nonces[st][n] = Expiry(env[r])

\* An envelope is Genuine from Verify on, and before that the record is the sender's.
Meant ==
    \A r \in Requests :
        /\ pc[r] = "verify" =>
              \E v \in 1..version[env[r].sender] : seen[r] = record(env[r].sender, v)
        /\ pc[r] \in {"clock", "consume"} \/ r \in DOMAIN consumed =>
              Genuine(r)

IInv == Typed /\ Progress /\ Exact /\ ConsumedOnceInTime /\ Meant

-----------------------------------------------------------------------------

LEMMA Initially == Init => IInv
<1> SUFFICES ASSUME Init PROVE IInv
  OBVIOUS
<1>1. Remembered = {}
  BY DEF Init, Remembered
<1>2. Typed
  BY DEF Init, Typed, Stages, OnLoop
<1>3. Progress
  BY DEF Init, Progress
<1>4. Exact
  BY <1>1 DEF Init, Exact
<1>5. ConsumedOnceInTime
  BY <1>1 DEF ConsumedOnceInTime
<1>6. Meant
  BY DEF Init, Meant
<1> QED
  BY <1>2, <1>3, <1>4, <1>5, <1>6 DEF IInv

\* As time passes, fewer IDs have to be remembered.
LEMMA StoresKept ==
    ASSUME IInv, UNCHANGED <<inputs, nonces, consumed, forgotten>>,
           now' \in Nat, now <= now'
    PROVE  Exact' /\ ConsumedOnceInTime'
<1>1. UNCHANGED <<persistent, worker, env, nonces, Remembered>>
  BY DEF inputs, Remembered
<1>2. \A r : Store(r)' = Store(r) /\ Id(r)' = Id(r)
  BY <1>1 DEF Store, StoreOf, Id
<1>3. Stores' = Stores
  BY <1>1 DEF Stores, StoreOf
<1>4. ASSUME NEW r \in Remembered
      PROVE  now' < Expiry(env[r]) => now < Expiry(env[r])
  <2>1. Expiry(env[r]) \in Int
    BY DEF IInv, Typed, Progress, Remembered, Expiry
  <2> QED BY <2>1 DEF IInv, Typed
<1>5. Exact'
  BY <1>1, <1>2, <1>3, <1>4 DEF IInv, Exact
<1>6. ConsumedOnceInTime'
  BY <1>1, <1>2 DEF IInv, ConsumedOnceInTime, Same
<1> QED BY <1>5, <1>6

\* A route that is answered forgets its locals.
LEMMA AnswerKeeps ==
    ASSUME IInv, NEW r \in Requests, NEW value, Answer(r, value),
           UNCHANGED <<nonces, consumed, handled, forgotten>>
    PROVE  IInv'
<1>1. Typed'
  BY DEF IInv, Typed, Answer, Goto, inputs, Stages, OnLoop, Stores, StoreOf
<1>2. Progress'
  BY DEF IInv, Typed, Progress, Answer, Goto, inputs
<1>3. Exact' /\ ConsumedOnceInTime'
  BY StoresKept DEF Answer, IInv, Typed
<1>4. Meant'
  BY DEF IInv, Typed, Meant, Genuine, Answer, Goto, inputs
<1> QED BY <1>1, <1>2, <1>3, <1>4 DEF IInv

LEMMA ReceiveKeeps ==
    ASSUME IInv, NEW r \in Requests, Receive(r) PROVE IInv'
<1>1. CASE env[r] = NotEnvelope
  BY <1>1, AnswerKeeps DEF Receive, Reply
<1>2. CASE env[r] # NotEnvelope
  <2>1. /\ pc[r] = "idle" /\ Goto(r, "resolve")
        /\ UNCHANGED <<now, version, inputs, seen, clock, verified, nonces,
                       consumed, handled, forgotten>>
    BY <1>2 DEF Receive
  <2>2. Typed'
    BY <2>1 DEF IInv, Typed, Goto, inputs, Stages, OnLoop, Stores, StoreOf
  <2>3. Progress'
    BY <1>2, <2>1 DEF IInv, Typed, Progress, Goto, inputs
  <2>4. Exact' /\ ConsumedOnceInTime'
    BY <2>1, StoresKept DEF IInv, Typed
  <2>5. Meant'
    BY <2>1 DEF IInv, Typed, Meant, Genuine, Goto, inputs
  <2> QED BY <2>2, <2>3, <2>4, <2>5 DEF IInv
<1> QED BY <1>1, <1>2

LEMMA ResolveKeeps ==
    ASSUME IInv, NEW r \in Requests, Resolve(r) PROVE IInv'
<1>1. CASE Reply(r, "UNAVAILABLE")
  BY <1>1, AnswerKeeps DEF Resolve, Reply
<1>2. CASE \E v \in 1..version[env[r].sender] :
             /\ seen' = [seen EXCEPT ![r] = record(env[r].sender, v)]
             /\ Goto(r, "verify")
             /\ UNCHANGED <<now, version, inputs, clock, answer, verified>>
  <2>1. PICK v \in 1..version[env[r].sender] :
             /\ seen' = [seen EXCEPT ![r] = record(env[r].sender, v)]
             /\ Goto(r, "verify")
             /\ UNCHANGED <<now, version, inputs, clock, answer, verified>>
    BY <1>2
  <2>2. /\ pc[r] = "resolve"
        /\ UNCHANGED <<nonces, consumed, handled, forgotten>>
    BY DEF Resolve
  <2>3. env[r] \in Envelopes \ {NotEnvelope} /\ env[r].sender \in Senders
    BY <2>2 DEF IInv, Typed, Progress
  <2>4. v \in 1..MaxVersion
    BY <2>3 DEF IInv, Typed
  <2>5. record(env[r].sender, v) \in Records
    BY <2>3, <2>4 DEF record, Records
  <2>6. Typed'
    BY <2>1, <2>2, <2>5 DEF IInv, Typed, Goto, inputs, Stages, OnLoop, Stores, StoreOf
  <2>7. Progress'
    BY <2>1, <2>2 DEF IInv, Typed, Progress, Goto, inputs
  <2>8. Exact' /\ ConsumedOnceInTime'
    BY <2>1, <2>2, StoresKept DEF IInv, Typed
  <2>9. Meant'
    BY <2>1, <2>2 DEF IInv, Typed, Meant, Genuine, Goto, inputs
  <2> QED BY <2>6, <2>7, <2>8, <2>9 DEF IInv
<1> QED BY <1>1, <1>2 DEF Resolve

\* An envelope that passes every check was made by its sender for this endpoint.
LEMMA VerifyKeeps ==
    ASSUME IInv, NEW r \in Requests, Verify(r) PROVE IInv'
<1>1. CASE refusal(r) # "ok"
  BY <1>1, AnswerKeeps DEF Verify, Reply
<1>2. CASE refusal(r) = "ok"
  <2>1. /\ pc[r] = "verify" /\ Goto(r, "clock")
        /\ verified' = [q \in DOMAIN verified \cup {r} |->
                           IF q = r THEN now ELSE verified[q]]
        /\ UNCHANGED <<now, version, inputs, seen, clock, nonces, consumed,
                       handled, forgotten>>
    BY <1>2 DEF Verify, Passed
  <2>2. /\ env[r].kid = seen[r].kid
        /\ env[r].audience = Identity /\ env[r].type = "agent.call"
        /\ Distance(env[r].issued, now) <= Skew
        /\ env[r].signer = seen[r].key
    BY <1>2 DEF refusal, VerifyRefusal, Fresh, SignedBy
  <2>3. PICK v \in 1..version[env[r].sender] : seen[r] = record(env[r].sender, v)
    BY <2>1 DEF IInv, Meant
  <2>4. Typed'
    BY <2>1 DEF IInv, Typed, Goto, inputs, Stages, OnLoop, Stores, StoreOf
  <2>5. Progress'
    BY <2>1 DEF IInv, Typed, Progress, Goto, inputs
  <2>6. Exact' /\ ConsumedOnceInTime'
    BY <2>1, StoresKept DEF IInv, Typed
  <2>7. Genuine(r)'
    BY <2>1, <2>2, <2>3 DEF IInv, Typed, Genuine, record, inputs
  <2>8. Meant'
    BY <2>1, <2>7 DEF IInv, Typed, Meant, Genuine, Goto, inputs
  <2> QED BY <2>4, <2>5, <2>6, <2>8 DEF IInv
<1> QED BY <1>1, <1>2

LEMMA ReadClockKeeps ==
    ASSUME IInv, NEW r \in Requests, ReadClock(r) PROVE IInv'
<1>1. Typed'
  BY DEF IInv, Typed, ReadClock, Goto, inputs, Stages, OnLoop, Stores, StoreOf
<1>2. Progress'
  BY DEF IInv, Typed, Progress, ReadClock, Goto, inputs
<1>3. Exact' /\ ConsumedOnceInTime'
  BY StoresKept DEF ReadClock, IInv, Typed
<1>4. Meant'
  BY DEF IInv, Typed, Meant, Genuine, ReadClock, Goto, inputs
<1> QED BY <1>1, <1>2, <1>3, <1>4 DEF IInv

LEMMA CallHandlerKeeps ==
    ASSUME IInv, NEW r \in Requests, CallHandler(r) PROVE IInv'
<1>1. CASE Reply(r, "PAYLOAD_INVALID") \/ Reply(r, "SCHEMA_INVALID")
  <2>1. UNCHANGED handled \/ Goto(r, "handler")
    BY DEF CallHandler
  <2>2. CASE UNCHANGED handled
    BY <1>1, <2>2, AnswerKeeps DEF CallHandler, Reply
  <2>3. CASE Goto(r, "handler")
    BY <1>1, <2>3 DEF Reply, Answer, Goto, IInv, Typed
  <2> QED BY <2>1, <2>2, <2>3
<1>2. CASE ~(Reply(r, "PAYLOAD_INVALID") \/ Reply(r, "SCHEMA_INVALID"))
  <2>1. /\ pc[r] = "payload" /\ Goto(r, "handler")
        /\ handled' = handled \cup {r}
        /\ UNCHANGED <<now, version, inputs, seen, clock, verified, nonces,
                       consumed, forgotten>>
    BY <1>2 DEF CallHandler
  <2>2. Typed'
    BY <2>1 DEF IInv, Typed, Progress, Goto, inputs, Stages, OnLoop, Stores, StoreOf
  <2>3. Progress'
    BY <2>1 DEF IInv, Typed, Progress, Goto, inputs
  <2>4. Exact' /\ ConsumedOnceInTime'
    BY <2>1, StoresKept DEF IInv, Typed
  <2>5. Meant'
    BY <2>1 DEF IInv, Typed, Meant, Genuine, Goto, inputs
  <2> QED BY <2>2, <2>3, <2>4, <2>5 DEF IInv
<1> QED BY <1>1, <1>2

\* A route consumes its ID only if no unexpired row has it, and then its row
\* stands for it; the purge, by a clock read earlier, drops no valid ID.
LEMMA ConsumeKeeps ==
    ASSUME IInv, NEW r \in Requests, Consume(r) PROVE IInv'
<1> DEFINE st == Store(r)
           live == Live(st, clock[r])
<1>1. pc[r] = "consume" /\ UNCHANGED <<handled, forgotten>>
  BY DEF Consume
<1>2. /\ env[r] \in Envelopes \ {NotEnvelope} /\ Expiry(env[r]) \in Int
      /\ clock[r] \in Nat /\ now \in Nat /\ clock[r] <= now
      /\ worker[r] \in Workers /\ r \notin DOMAIN consumed
  BY <1>1 DEF IInv, Typed, Progress, Expiry
<1>3. st \in Stores /\ Stores = DOMAIN nonces
  BY <1>2 DEF Stores, Store, IInv, Typed
<1>4. \A n \in DOMAIN live : n \in DOMAIN nonces[st] /\ live[n] = nonces[st][n]
  BY DEF Live
<1>5. ASSUME NEW q \in Remembered, Store(q) = st, now < Expiry(env[q])
      PROVE  Id(q) \in DOMAIN live
  <2>1. Expiry(env[q]) \in Int
    BY DEF Remembered, IInv, Typed, Progress, Expiry
  <2>2. Id(q) \in DOMAIN nonces[st] /\ nonces[st][Id(q)] = Expiry(env[q])
    BY <1>5 DEF IInv, Exact
  <2>3. Expiry(env[q]) > clock[r]
    BY <1>2, <1>5, <2>1
  <2> QED BY <2>2, <2>3 DEF Live
<1>6. UNCHANGED <<persistent, worker, env, now>>
  BY DEF Consume, Reply, Answer, inputs
<1>7. /\ \A q : Store(q)' = Store(q) /\ Id(q)' = Id(q)
      /\ Stores' = Stores
  BY <1>6 DEF Store, StoreOf, Id, Stores
<1>8. CASE Id(r) \in DOMAIN live
  <2>1. /\ nonces' = [nonces EXCEPT ![st] = live]
        /\ Reply(r, "NONCE_REPLAYED") /\ UNCHANGED consumed
    BY <1>8 DEF Consume
  <2>2. Typed' /\ Progress' /\ Meant'
    <3>1. Typed'
      BY <1>1, <1>3, <1>7, <2>1
      DEF IInv, Typed, Reply, Answer, Goto, inputs, Stages, OnLoop
    <3>2. Progress'
      BY <1>1, <2>1 DEF IInv, Typed, Progress, Reply, Answer, Goto, inputs
    <3>3. Meant'
      BY <1>1, <2>1
      DEF IInv, Typed, Meant, Genuine, Reply, Answer, Goto, inputs
    <3> QED BY <3>1, <3>2, <3>3
  <2>3. Remembered' = Remembered
    BY <1>1, <2>1 DEF Remembered
  <2>4. nonces'[st] = live /\ \A s \in Stores : s # st => nonces'[s] = nonces[s]
    BY <1>3, <2>1
  <2>5. Exact'
    <3>1. ASSUME NEW q \in Remembered, now < Expiry(env[q])
          PROVE  /\ Id(q) \in DOMAIN nonces'[Store(q)]
                 /\ nonces'[Store(q)][Id(q)] = Expiry(env[q])
      <4>1. /\ Id(q) \in DOMAIN nonces[Store(q)]
            /\ nonces[Store(q)][Id(q)] = Expiry(env[q])
        BY <3>1 DEF IInv, Exact
      <4>2. Store(q) \in Stores
        BY DEF Store, Stores, Remembered, IInv, Typed
      <4> QED BY <1>4, <1>5, <2>4, <3>1, <4>1, <4>2
    <3>2. ASSUME NEW s \in Stores, NEW n \in DOMAIN nonces'[s]
          PROVE  \E q \in Remembered : Store(q) = s /\ Id(q) = n
                                        /\ nonces'[s][n] = Expiry(env[q])
      <4>1. n \in DOMAIN nonces[s] /\ nonces'[s][n] = nonces[s][n]
        BY <1>4, <2>4, <3>2
      <4> QED BY <4>1 DEF IInv, Exact
    <3> QED BY <1>6, <1>7, <2>3, <3>1, <3>2 DEF Exact
  <2>6. ConsumedOnceInTime'
    BY <1>6, <1>7, <2>1, <2>3 DEF IInv, ConsumedOnceInTime, Same
  <2> QED BY <2>2, <2>5, <2>6 DEF IInv
<1>9. CASE Id(r) \notin DOMAIN live
  <2>1. /\ nonces' = [nonces EXCEPT ![st] = With(st, clock[r], env[r])]
        /\ consumed' = [q \in DOMAIN consumed \cup {r} |->
                           IF q = r THEN now ELSE consumed[q]]
        /\ Goto(r, "payload")
        /\ UNCHANGED <<version, inputs, seen, clock, verified>>
    BY <1>9 DEF Consume
  <2>2. Typed' /\ Progress' /\ Meant'
    <3>1. Typed'
      BY <1>1, <1>3, <1>6, <1>7, <2>1
      DEF IInv, Typed, Goto, inputs, Stages, OnLoop
    <3>2. Progress'
      BY <1>1, <1>2, <1>6, <2>1 DEF IInv, Typed, Progress, Goto, inputs
    <3>3. Meant'
      BY <1>1, <1>6, <2>1 DEF IInv, Typed, Meant, Genuine, Goto, inputs
    <3> QED BY <3>1, <3>2, <3>3
  <2>3. Remembered' = Remembered \cup {r} /\ r \notin Remembered
    BY <1>1, <1>2, <2>1 DEF Remembered, IInv, Typed
  <2>4. /\ DOMAIN nonces'[st] = DOMAIN live \cup {Id(r)}
        /\ nonces'[st][Id(r)] = Expiry(env[r])
        /\ \A n \in DOMAIN live : nonces'[st][n] = nonces[st][n]
        /\ \A s \in Stores : s # st => nonces'[s] = nonces[s]
    BY <1>3, <1>9, <2>1 DEF With, Id
  <2>5. ASSUME NEW q \in Remembered, Store(q) = st, Id(q) = Id(r)
        PROVE  ~(now < Expiry(env[q]))
    BY <1>5, <1>9, <2>5
  <2>6. Exact'
    <3>1. ASSUME NEW q \in Remembered \cup {r}, now < Expiry(env[q])
          PROVE  /\ Id(q) \in DOMAIN nonces'[Store(q)]
                 /\ nonces'[Store(q)][Id(q)] = Expiry(env[q])
      <4>1. CASE q = r
        BY <2>4, <4>1
      <4>2. CASE q \in Remembered
        <5>1. /\ Id(q) \in DOMAIN nonces[Store(q)]
              /\ nonces[Store(q)][Id(q)] = Expiry(env[q])
          BY <3>1, <4>2 DEF IInv, Exact
        <5>2. Store(q) \in Stores
          BY <4>2 DEF Store, Stores, Remembered, IInv, Typed
        <5> QED BY <1>5, <2>4, <2>5, <3>1, <4>2, <5>1, <5>2
      <4> QED BY <4>1, <4>2
    <3>2. ASSUME NEW s \in Stores, NEW n \in DOMAIN nonces'[s]
          PROVE  \E q \in Remembered \cup {r} :
                    Store(q) = s /\ Id(q) = n /\ nonces'[s][n] = Expiry(env[q])
      <4>1. CASE s = st /\ n = Id(r)
        BY <2>4, <4>1
      <4>2. CASE ~(s = st /\ n = Id(r))
        <5>1. n \in DOMAIN nonces[s] /\ nonces'[s][n] = nonces[s][n]
          BY <1>4, <2>4, <3>2, <4>2
        <5> QED BY <5>1 DEF IInv, Exact
      <4> QED BY <4>1, <4>2
    <3> QED BY <1>6, <1>7, <2>3, <3>1, <3>2 DEF Exact
  <2>7. ConsumedOnceInTime'
    <3>1. consumed'[r] = now /\ \A q \in Remembered : consumed'[q] = consumed[q]
      BY <2>1, <2>3 DEF Remembered
    <3>2. ASSUME NEW q \in Remembered, Same(q, r) \/ Same(r, q)
          PROVE  Expiry(env[q]) <= consumed'[r]
      <4>1. Store(q) = st /\ Id(q) = Id(r)
        BY <3>2 DEF Same, Id, Nonce
      <4>2. Expiry(env[q]) \in Int
        BY DEF Remembered, IInv, Typed, Progress, Expiry
      <4> QED BY <1>2, <2>5, <3>1, <4>1, <4>2
    <3>3. \A p, q : Same(p, q)' = Same(p, q)
      BY <1>6, <1>7 DEF Same
    <3>4. ASSUME NEW p \in Remembered \cup {r}, NEW q \in Remembered \cup {r},
                 Same(p, q)
          PROVE  \/ Expiry(env[p]) <= consumed'[q]
                 \/ Expiry(env[q]) <= consumed'[p]
      <4>1. CASE p \in Remembered /\ q \in Remembered
        BY <3>1, <3>4, <4>1 DEF IInv, ConsumedOnceInTime
      <4>2. CASE p = r
        BY <3>2, <3>4, <4>2 DEF Same
      <4>3. CASE q = r
        BY <3>2, <3>4, <4>3 DEF Same
      <4> QED BY <4>1, <4>2, <4>3
    <3> QED BY <1>6, <2>3, <3>3, <3>4 DEF ConsumedOnceInTime
  <2> QED BY <2>2, <2>6, <2>7 DEF IInv
<1> QED BY <1>8, <1>9

\* A restart of a worker empties its memory and forgets what was in it, and
\* nothing of another worker; a persistent store loses nothing.
LEMMA RestartKeeps ==
    ASSUME IInv, NEW w \in Workers, Restart(w) PROVE IInv'
<1> DEFINE mine == {r \in Requests : worker[r] = w}
<1>1. /\ pc' = [r \in Requests |-> IF r \in mine /\ InFlight(r)
                                    THEN "done" ELSE pc[r]]
      /\ seen' = [r \in Requests |-> IF r \in mine THEN NoRecord ELSE seen[r]]
      /\ clock' = [r \in Requests |-> IF r \in mine THEN 0 ELSE clock[r]]
      /\ UNCHANGED <<now, version, persistent, worker, env, verified, consumed,
                     handled>>
  BY DEF Restart, inputs
<1>2. /\ nonces' = IF persistent THEN nonces
                   ELSE [nonces EXCEPT ![StoreOf(w)] = [n \in {} |-> 0]]
      /\ forgotten' = IF persistent THEN forgotten
                      ELSE forgotten \cup (mine \cap DOMAIN consumed)
  BY DEF Restart
<1>3. Stores' = Stores /\ \A q : Store(q)' = Store(q) /\ Id(q)' = Id(q)
  BY <1>1 DEF Stores, Store, StoreOf, Id
<1>4. Typed'
  BY <1>1, <1>2, <1>3 DEF IInv, Typed, Stages, OnLoop
<1>5. Progress'
  BY <1>1 DEF IInv, Typed, Progress, InFlight
<1>6. Meant'
  BY <1>1 DEF IInv, Typed, Meant, Genuine, InFlight
<1>7. Exact' /\ ConsumedOnceInTime'
  <2>1. CASE persistent
    BY <1>1, <1>2, <2>1, StoresKept DEF inputs, IInv, Typed
  <2>2. CASE ~persistent
    <3>1. /\ \A q : Store(q) = worker[q]
          /\ StoreOf(w) = w /\ w \in DOMAIN nonces
      BY <2>2 DEF Store, StoreOf, IInv, Typed, Stores
    <3>2. /\ DOMAIN nonces'[w] = {}
          /\ \A s \in Stores : s # w => nonces'[s] = nonces[s]
      BY <1>2, <2>2, <3>1 DEF IInv, Typed
    <3>3. Remembered' = {q \in Remembered : worker[q] # w}
      BY <1>1, <1>2, <2>2 DEF Remembered, IInv, Typed
    <3>4. Exact'
      <4>1. ASSUME NEW q \in Remembered, worker[q] # w, now < Expiry(env[q])
            PROVE  /\ Id(q) \in DOMAIN nonces'[Store(q)]
                   /\ nonces'[Store(q)][Id(q)] = Expiry(env[q])
        <5>1. Store(q) \in Stores
          BY DEF Store, Stores, Remembered, IInv, Typed
        <5> QED BY <3>1, <3>2, <4>1, <5>1 DEF IInv, Exact
      <4>2. ASSUME NEW s \in Stores, NEW n \in DOMAIN nonces'[s]
            PROVE  \E q \in Remembered :
                      /\ worker[q] # w
                      /\ Store(q) = s /\ Id(q) = n /\ nonces'[s][n] = Expiry(env[q])
        BY <3>1, <3>2, <4>2 DEF IInv, Exact
      <4> QED BY <1>1, <1>3, <3>3, <4>1, <4>2 DEF Exact
    <3>5. ConsumedOnceInTime'
      BY <1>1, <1>3, <3>3 DEF IInv, ConsumedOnceInTime, Same
    <3> QED BY <3>4, <3>5
  <2> QED BY <2>1, <2>2
<1> QED BY <1>4, <1>5, <1>6, <1>7 DEF IInv

LEMMA ClockKeeps ==
    ASSUME IInv, Tick \/ UNCHANGED vars \/ \E s \in Senders : Publish(s)
    PROVE  IInv'
<1>1. /\ now' \in Nat /\ now <= now'
      /\ version' \in [Senders -> 0..MaxVersion]
      /\ \A s \in Senders : version[s] <= version'[s]
      /\ UNCHANGED <<nonces, locals, consumed, handled, forgotten>>
  BY DEF Tick, Publish, vars, IInv, Typed
<1>2. Typed'
  BY <1>1 DEF IInv, Typed, locals, inputs, Stages, OnLoop, Stores, StoreOf
<1>3. Progress'
  <2> SUFFICES ASSUME NEW r \in Requests PROVE clock[r] <= now'
    BY <1>1 DEF IInv, Progress, locals, inputs
  <2> QED BY <1>1 DEF IInv, Typed, Progress
<1>4. Exact' /\ ConsumedOnceInTime'
  BY <1>1, StoresKept DEF locals
<1>5. Meant'
  <2> SUFFICES ASSUME NEW r \in Requests, env[r] # NotEnvelope
               PROVE  1..version[env[r].sender] \subseteq 1..version'[env[r].sender]
    BY <1>1 DEF IInv, Progress, Meant, Genuine, locals, inputs
  <2>1. env[r].sender \in Senders
    BY DEF IInv, Typed
  <2> QED BY <1>1, <2>1 DEF IInv, Typed
<1> QED BY <1>2, <1>3, <1>4, <1>5 DEF IInv

LEMMA Invariance == Spec => []IInv
<1>1. IInv /\ [Next]_vars => IInv'
  <2> SUFFICES ASSUME IInv, [Next]_vars PROVE IInv'
    OBVIOUS
  <2>1. ASSUME NEW r \in Requests, Receive(r) \/ Route(r) PROVE IInv'
    <3>1. CASE LockTimeout(r)
      BY <3>1, AnswerKeeps DEF LockTimeout, Reply
    <3>2. CASE Return(r)
      BY <3>2, AnswerKeeps DEF Return, Reply
    <3> QED
      BY <2>1, <3>1, <3>2, ReceiveKeeps, ResolveKeeps, VerifyKeeps,
         ReadClockKeeps, ConsumeKeeps, CallHandlerKeeps DEF Route
  <2>2. ASSUME NEW w \in Workers, Restart(w) PROVE IInv'
    BY <2>2, RestartKeeps
  <2> QED
    BY <2>1, <2>2, ClockKeeps DEF Next
<1> QED
  BY Initially, <1>1, PTL DEF Spec

\* A store remembers exactly what was consumed in it, until it expires: no
\* purge, in whatever worker and with whatever clock it read, forgets a valid
\* request ID, and only genuine, verified envelopes burn one (consume of
\* _state.py after the checks of verify_envelope).
THEOREM NothingForgotten == Spec => []NoncesMatchConsumed
<1>1. IInv => NoncesMatchConsumed
  <2> SUFFICES ASSUME IInv PROVE NoncesMatchConsumed
    OBVIOUS
  <2>1. \A r \in Remembered : Genuine(r)
    BY DEF IInv, Typed, Meant, Remembered
  <2> QED BY <2>1 DEF IInv, Exact, NoncesMatchConsumed
<1> QED
  BY Invariance, <1>1, PTL

\* A request ID is consumed a second time only after the window of the first,
\* for any workers, deliveries, lock timeouts and restarts (consume of
\* _state.py after verify_envelope of _protocol.py).
THEOREM OncePerWindow == Spec => []ConsumedOnceInTime
<1>1. IInv => ConsumedOnceInTime
  BY DEF IInv
<1> QED
  BY Invariance, <1>1, PTL

\* The handler runs only for what its sender signed for this endpoint, with a
\* key it had published (route of _server.py).
THEOREM HandlersMeant == Spec => []HandledWasMeant
<1>1. IInv => HandledWasMeant
  BY DEF IInv, Typed, Meant, HandledWasMeant
<1> QED
  BY Invariance, <1>1, PTL

-----------------------------------------------------------------------------
(* The stores as replay guards *)

\* Whatever leaves the remembered IDs alone lets at most time pass.
LEMMA GuardPasses ==
    ASSUME IInv, UNCHANGED <<inputs, consumed, forgotten>>, now <= now'
    PROVE  Guard!Pass
<1>1. UNCHANGED <<persistent, worker, env>> /\ Remembered' = Remembered
  BY DEF inputs, Remembered
<1>2. \A r \in Remembered : /\ Store(r)' = Store(r) /\ Id(r)' = Id(r)
                             /\ Expiry(env[r])' = Expiry(env[r])
  BY <1>1 DEF Store, StoreOf, Id, Expiry
<1> QED BY <1>1, <1>2 DEF Guard!Pass

\* A consumption is a use: an ID with a valid row would have been refused.
LEMMA ConsumeUses ==
    ASSUME IInv, NEW r \in Requests, Consume(r)
    PROVE  Guard!Use(r) \/ Guard!Pass
<1> DEFINE st == Store(r)
           live == Live(st, clock[r])
<1>1. /\ pc[r] = "consume" /\ clock[r] \in Nat /\ now \in Nat /\ clock[r] <= now
      /\ UNCHANGED <<now, inputs, forgotten>>
  BY DEF Consume, Reply, Answer, IInv, Typed, Progress
<1>2. CASE Id(r) \in DOMAIN live
  <2>1. UNCHANGED consumed
    BY <1>2 DEF Consume
  <2> QED BY <1>1, <2>1, GuardPasses
<1>3. CASE Id(r) \notin DOMAIN live
  <2>1. consumed' = [q \in DOMAIN consumed \cup {r} |->
                        IF q = r THEN now ELSE consumed[q]]
    BY <1>3 DEF Consume
  <2>2. Remembered' = Remembered \cup {r} /\ r \notin Remembered
    BY <1>1, <2>1 DEF Remembered, IInv, Typed, Progress
  <2>3. UNCHANGED <<persistent, worker, env>>
    BY <1>1 DEF inputs
  <2>4. \A q : /\ Store(q)' = Store(q) /\ Id(q)' = Id(q)
               /\ Expiry(env[q])' = Expiry(env[q])
    BY <2>3 DEF Store, StoreOf, Id, Expiry
  <2>5. ASSUME NEW q \in Remembered, Store(q) = st, Id(q) = Id(r)
        PROVE  Expiry(env[q]) <= now
    <3>1. Expiry(env[q]) \in Int
      BY DEF Remembered, IInv, Typed, Progress, Expiry
    <3>2. SUFFICES ASSUME now < Expiry(env[q]) PROVE FALSE
      BY <1>1, <3>1
    <3>3. Id(r) \in DOMAIN nonces[st] /\ nonces[st][Id(r)] > clock[r]
      BY <1>1, <2>5, <3>1, <3>2 DEF IInv, Exact
    <3> QED BY <1>3, <3>3 DEF Live
  <2>6. Guard!Use(r)
    BY <1>1, <2>2, <2>3, <2>4, <2>5 DEF Guard!Use, Guard!Clash
  <2> QED BY <2>6
<1> QED BY <1>2, <1>3

\* A restart forgets what a worker kept in memory, and no other place's IDs.
LEMMA RestartForgets ==
    ASSUME IInv, NEW w \in Workers, Restart(w)
    PROVE  Guard!Forget(w) \/ Guard!Pass
<1>1. UNCHANGED <<now, inputs, persistent, worker, env, consumed>>
  BY DEF Restart, inputs
<1>2. CASE persistent
  <2>1. UNCHANGED forgotten
    BY <1>2 DEF Restart
  <2> QED BY <1>1, <2>1, GuardPasses DEF IInv, Typed
<1>3. CASE ~persistent
  <2>1. forgotten' = forgotten \cup {r \in DOMAIN consumed : worker[r] = w}
    BY <1>3 DEF Restart, IInv, Typed
  <2>2. \A r : /\ Store(r)' = Store(r) /\ Id(r)' = Id(r) /\ Store(r) = worker[r]
               /\ Expiry(env[r])' = Expiry(env[r])
    BY <1>1, <1>3 DEF Store, StoreOf, Id, Expiry
  <2>3. Remembered' = {r \in Remembered : Store(r) # w}
    BY <1>1, <2>1, <2>2 DEF Remembered
  <2>4. Guard!Forget(w)
    BY <1>1, <1>3, <2>2, <2>3 DEF Guard!Forget
  <2> QED BY <2>4
<1> QED BY <1>2, <1>3

\* The endpoint's nonce stores implement the replay guard, the SQLite file as a
\* durable one and each worker's memory as one that a restart empties (consume
\* of SQLiteNonceState and MemoryNonceState).
THEOREM StoresGuard == Spec => ImplementsGuard
<1>1. Init => Guard!Init
  <2>1. Init => Remembered = {}
    BY DEF Init, Remembered
  <2> QED BY <2>1 DEF Guard!Init
<1>2. IInv /\ [Next]_vars => [Guard!Next]_(Guard!guard)
  <2> SUFFICES ASSUME IInv, [Next]_vars PROVE Guard!Next
    BY DEF Guard!Next
  <2>1. ASSUME NEW r \in Requests, Receive(r) \/ Route(r) PROVE Guard!Next
    <3>1. CASE Consume(r)
      BY <3>1, ConsumeUses DEF Guard!Next
    <3>2. CASE ~Consume(r)
      <4>1. UNCHANGED <<now, inputs, consumed, forgotten>>
        BY <2>1, <3>2 DEF Receive, Route, Resolve, Verify, Passed, ReadClock, LockTimeout,
           CallHandler, Return, Reply, Answer
      <4> QED BY <4>1, GuardPasses DEF Guard!Next, IInv, Typed
    <3> QED BY <3>1, <3>2
  <2>2. ASSUME NEW w \in Workers, Restart(w) PROVE Guard!Next
    BY <2>2, RestartForgets DEF Guard!Next
  <2>3. CASE Tick \/ UNCHANGED vars \/ \E s \in Senders : Publish(s)
    <3>1. now <= now' /\ UNCHANGED <<inputs, consumed, forgotten>>
      BY <2>3 DEF Tick, Publish, vars, locals, inputs, IInv, Typed
    <3> QED BY <3>1, GuardPasses DEF Guard!Next
  <2> QED BY <2>1, <2>2, <2>3 DEF Next
<1> QED BY Initially, Invariance, <1>1, <1>2, PTL DEF Spec, ImplementsGuard, Guard!Spec

-----------------------------------------------------------------------------
(* Answers *)

\* What AnswersAreHonest says of one request, which is answered at its end.
HonestTo(r) ==
    /\ answer[r].own =>
          /\ answer[r].code \in Refusals => r \notin DOMAIN consumed
          /\ answer[r].code = "NONCE_REPLAYED" =>
                \E s \in DOMAIN consumed : Same(r, s)
    /\ pc[r] # "done" => answer[r] = Own("none")

\* DOMAIN answer is the part of its type that the steps need.
Honest == DOMAIN answer = Requests /\ \A r \in Requests : HonestTo(r)

\* What was honest stays so while only routes under way consume an ID.
LEMMA StaysHonest ==
    ASSUME IInv, Honest, NEW r \in Requests, answer'[r] = answer[r],
           DOMAIN consumed \subseteq DOMAIN consumed', UNCHANGED inputs,
           pc[r] = "done" => pc'[r] = "done" /\ (r \in DOMAIN consumed' => r \in DOMAIN consumed)
    PROVE  HonestTo(r)'
<1>1. \A s : Same(r, s)' <=> Same(r, s)
  BY DEF Same, Store, StoreOf, inputs
<1>2. CASE pc[r] = "done"
  BY <1>1, <1>2 DEF Honest, HonestTo
<1>3. CASE pc[r] # "done"
  BY <1>3 DEF Honest, HonestTo, Own, Refusals
<1> QED BY <1>2, <1>3

\* An answer is honest if its code says nothing, or what it says is true.
LEMMA AnswerIsHonest ==
    ASSUME IInv, Honest, NEW r \in Requests, NEW value, Answer(r, value),
           UNCHANGED <<consumed, handled, forgotten>>,
           value.own => /\ value.code \in Refusals => r \notin DOMAIN consumed
                        /\ value.code = "NONCE_REPLAYED" =>
                              \E s \in DOMAIN consumed : Same(r, s)
    PROVE  Honest'
<1>1. /\ answer' = [answer EXCEPT ![r] = value] /\ UNCHANGED inputs
      /\ pc' = [pc EXCEPT ![r] = "done"]
  BY DEF Answer, Goto
<1>2. \A s : Same(r, s)' <=> Same(r, s)
  BY <1>1 DEF Same, Store, StoreOf, inputs
<1>3. HonestTo(r)'
  BY <1>1, <1>2 DEF HonestTo, Honest, IInv, Typed
<1>4. ASSUME NEW q \in Requests \ {r} PROVE HonestTo(q)'
  <2>1. answer'[q] = answer[q] /\ pc'[q] = pc[q]
    BY <1>1, <1>4 DEF IInv, Typed, Honest
  <2> QED BY <1>1, <2>1, StaysHonest
<1> QED BY <1>1, <1>3, <1>4 DEF Honest

\* A step that answers nobody.
LEMMA GoesOn ==
    ASSUME IInv, Honest, UNCHANGED <<answer, inputs>>,
           DOMAIN consumed \subseteq DOMAIN consumed',
           \A r \in Requests :
              pc[r] = "done" => pc'[r] = "done" /\ (r \in DOMAIN consumed' => r \in DOMAIN consumed)
    PROVE  Honest'
BY StaysHonest DEF Honest

LEMMA HonestStep ==
    ASSUME IInv, Honest, [Next]_vars
    PROVE  Honest'
<1>0. \A r \in Requests :
         pc[r] \in {"idle", "resolve", "verify", "clock", "consume"} => r \notin DOMAIN consumed
  BY DEF IInv, Progress
<1>1. ASSUME NEW r \in Requests, Receive(r) PROVE Honest'
  <2>1. CASE env[r] = NotEnvelope
    <3>1. PICK code : code \in {"REQUEST_TOO_LARGE", "REQUEST_INVALID", "ENVELOPE_INVALID"}
                      /\ Reply(r, code)
      BY <1>1, <2>1 DEF Receive
    <3> QED BY <1>0, <1>1, <3>1, AnswerIsHonest DEF Receive, Reply, Own
  <2>2. CASE env[r] # NotEnvelope
    BY <1>1, <2>2, GoesOn DEF Receive, Goto, IInv, Typed
  <2> QED BY <2>1, <2>2
<1>2. ASSUME NEW r \in Requests, Resolve(r) PROVE Honest'
  <2>1. CASE Reply(r, "UNAVAILABLE")
    BY <1>0, <1>2, <2>1, AnswerIsHonest DEF Resolve, Reply, Own
  <2>2. CASE ~Reply(r, "UNAVAILABLE")
    BY <1>2, <2>2, GoesOn DEF Resolve, Goto, IInv, Typed
  <2> QED BY <2>1, <2>2
<1>3. ASSUME NEW r \in Requests, Verify(r) PROVE Honest'
  <2>1. refusal(r) # "NONCE_REPLAYED"
    BY DEF refusal, VerifyRefusal
  <2>2. CASE Reply(r, refusal(r))
    BY <1>0, <1>3, <2>1, <2>2, AnswerIsHonest DEF Verify, Reply, Own
  <2>3. CASE ~Reply(r, refusal(r))
    BY <1>3, <2>3, GoesOn DEF Verify, Passed, Goto, IInv, Typed
  <2> QED BY <2>2, <2>3
<1>4. ASSUME NEW r \in Requests, ReadClock(r) PROVE Honest'
  BY <1>4, GoesOn DEF ReadClock, Goto, IInv, Typed
<1>5. ASSUME NEW r \in Requests, Consume(r) PROVE Honest'
  <2>1. pc[r] = "consume" /\ UNCHANGED <<handled, forgotten>>
    BY <1>5 DEF Consume
  <2>2. CASE Id(r) \in DOMAIN Live(Store(r), clock[r])
    <3>1. Reply(r, "NONCE_REPLAYED") /\ UNCHANGED consumed
      BY <1>5, <2>2 DEF Consume
    <3>2. Store(r) \in Stores /\ Id(r) \in DOMAIN nonces[Store(r)]
      BY <2>2 DEF Live, Stores, Store, IInv, Typed
    <3>3. PICK q \in Remembered : Store(q) = Store(r) /\ Id(q) = Id(r)
      BY <3>2 DEF IInv, Exact
    <3>4. q \in DOMAIN consumed /\ q # r
      BY <2>1 DEF Remembered, IInv, Progress
    <3>5. Same(r, q)
      BY <3>3, <3>4 DEF Same, Id, Nonce
    <3> QED BY <1>0, <2>1, <3>1, <3>4, <3>5, AnswerIsHonest DEF Reply, Own
  <2>3. CASE Id(r) \notin DOMAIN Live(Store(r), clock[r])
    <3>1. /\ DOMAIN consumed' = DOMAIN consumed \cup {r}
          /\ Goto(r, "payload") /\ UNCHANGED <<answer, inputs>>
      BY <1>5, <2>3 DEF Consume
    <3> QED BY <2>1, <3>1, GoesOn DEF Goto, IInv, Typed
  <2> QED BY <2>2, <2>3
<1>6. ASSUME NEW r \in Requests, LockTimeout(r) PROVE Honest'
  BY <1>0, <1>6, AnswerIsHonest DEF LockTimeout, Reply, Own
<1>7. ASSUME NEW r \in Requests, CallHandler(r) PROVE Honest'
  <2>1. ASSUME NEW code \in {"PAYLOAD_INVALID", "SCHEMA_INVALID"}, Reply(r, code),
               UNCHANGED handled
        PROVE  Honest'
    BY <1>7, <2>1, AnswerIsHonest DEF CallHandler, Reply, Own, Refusals
  <2>2. CASE Goto(r, "handler") /\ handled' = handled \cup {r} /\ UNCHANGED <<answer, inputs>>
    BY <1>7, <2>2, GoesOn DEF CallHandler, Goto, IInv, Typed
  <2> QED BY <1>7, <2>1, <2>2 DEF CallHandler
<1>8. ASSUME NEW r \in Requests, Return(r) PROVE Honest'
  <2>1. ASSUME NEW code \in Failures \cup {"ok"}, Reply(r, code) PROVE Honest'
    <3>1. code \notin Refusals
      BY DEF Failures, Refusals
    <3>2. code # "NONCE_REPLAYED"
      BY <3>1 DEF Refusals
    <3> QED BY <1>8, <2>1, <3>1, <3>2, AnswerIsHonest DEF Return, Reply, Own
  <2>2. CASE Answer(r, [code |-> "NONCE_REPLAYED", own |-> FALSE])
    BY <1>8, <2>2, AnswerIsHonest DEF Return
  <2> QED BY <1>8, <2>1, <2>2 DEF Return
<1>9. ASSUME NEW w \in Workers, Restart(w) PROVE Honest'
  <2> DEFINE mine == {r \in Requests : worker[r] = w}
  <2>1. /\ pc' = [r \in Requests |-> IF r \in mine /\ InFlight(r) THEN "done" ELSE pc[r]]
        /\ answer' = [r \in Requests |-> IF r \in mine /\ InFlight(r)
                                         THEN Own("LOST") ELSE answer[r]]
        /\ UNCHANGED <<inputs, consumed, handled>>
    BY <1>9 DEF Restart
  <2>2. ASSUME NEW r \in Requests, r \in mine /\ InFlight(r) PROVE HonestTo(r)'
    BY <2>1, <2>2 DEF HonestTo, Own, Refusals
  <2>3. ASSUME NEW r \in Requests, ~(r \in mine /\ InFlight(r)) PROVE HonestTo(r)'
    BY <2>1, <2>3, StaysHonest
  <2> QED BY <2>1, <2>2, <2>3 DEF Honest
<1>10. CASE Tick \/ UNCHANGED vars \/ \E s \in Senders : Publish(s)
  BY <1>10, GoesOn DEF Tick, Publish, vars, locals
<1> QED
  BY <1>1, <1>2, <1>3, <1>4, <1>5, <1>6, <1>7, <1>8, <1>9, <1>10 DEF Next, Route

\* A refusal under the request's own ID means that this delivery consumed
\* nothing, and "NONCE_REPLAYED" that another one did, for any loss, restart,
\* duplicate and failure of a handler (_error_response of _server.py).
THEOREM HonestAnswers == Spec => []AnswersAreHonest
<1>1. Init => Honest
  BY DEF Init, Honest, HonestTo, Own, Refusals
<1>2. Honest => AnswersAreHonest
  BY DEF Honest, HonestTo, AnswersAreHonest
<1>3. IInv /\ Honest /\ [Next]_vars => Honest'
  BY HonestStep
<1> QED BY Invariance, <1>1, <1>2, <1>3, PTL DEF Spec

-----------------------------------------------------------------------------
(* Types *)

\* The rest of TypeOK: what is remembered are functions; IInv says of what.
Tabular ==
    /\ \A st \in Stores : nonces[st] = [n \in DOMAIN nonces[st] |-> nonces[st][n]]
    /\ consumed \in [DOMAIN consumed -> Nat]
    /\ verified \in [DOMAIN verified -> Nat]

LEMMA TabularStep ==
    ASSUME IInv, Tabular, [Next]_vars
    PROVE  Tabular'
<1> USE DEF IInv, Typed
<1>1. Stores' = Stores
  <2>1. ASSUME NEW r, NEW value, Answer(r, value) PROVE UNCHANGED persistent
    BY <2>1 DEF Answer, inputs
  <2>2. ASSUME NEW r \in Requests, Receive(r) \/ Resolve(r) \/ Verify(r) \/ ReadClock(r)
        PROVE  UNCHANGED persistent
    BY <2>1, <2>2 DEF Receive, Resolve, Verify, Passed, ReadClock, Reply, inputs
  <2>3. ASSUME NEW r \in Requests, Consume(r) \/ LockTimeout(r) \/ CallHandler(r) \/ Return(r)
        PROVE  UNCHANGED persistent
    BY <2>1, <2>3 DEF Consume, LockTimeout, CallHandler, Return, Reply, inputs
  <2>4. ASSUME NEW w \in Workers, Restart(w) PROVE UNCHANGED persistent
    BY <2>4 DEF Restart, inputs
  <2>5. UNCHANGED persistent
    BY <2>2, <2>3, <2>4 DEF Next, Route, Publish, Tick, vars, locals, inputs
  <2> QED BY <2>5 DEF Stores, StoreOf
<1>0. verified' \in [DOMAIN verified' -> Nat]
  <2>1. ASSUME NEW r \in Requests, Verify(r) PROVE verified' \in [DOMAIN verified' -> Nat]
    BY <2>1 DEF Verify, Passed, Reply, Answer, Tabular
  <2>2. CASE UNCHANGED verified
    BY <2>2 DEF Tabular
  <2>3. ASSUME NEW r \in Requests,
               Receive(r) \/ Resolve(r) \/ ReadClock(r) \/ Consume(r) \/ LockTimeout(r)
                 \/ CallHandler(r) \/ Return(r)
        PROVE  UNCHANGED verified
    BY <2>3 DEF Receive, Resolve, ReadClock, Consume, LockTimeout, CallHandler, Return,
       Reply, Answer
  <2>4. ASSUME Tick \/ UNCHANGED vars \/ (\E s \in Senders : Publish(s))
                 \/ (\E w \in Workers : Restart(w))
        PROVE  UNCHANGED verified
    BY <2>4 DEF Tick, Publish, Restart, vars, locals
  <2> QED BY <2>1, <2>2, <2>3, <2>4 DEF Next, Route
<1>2. CASE UNCHANGED <<nonces, consumed>>
  BY <1>1, <1>2, <1>0 DEF Tabular
<1>3. ASSUME NEW r \in Requests, Consume(r) PROVE Tabular'
  <2>1. Store(r) \in Stores
    BY DEF Stores, Store
  <2>2. PICK st : st = Store(r) /\ st \in Stores
    BY <2>1
  <2>3. \/ nonces' = [nonces EXCEPT ![st] = Live(st, clock[r])] /\ UNCHANGED consumed
        \/ /\ nonces' = [nonces EXCEPT ![st] = With(st, clock[r], env[r])]
           /\ consumed' = [q \in DOMAIN consumed \cup {r} |-> IF q = r THEN now ELSE consumed[q]]
    BY <1>3, <2>2 DEF Consume
  <2>4. consumed' \in [DOMAIN consumed' -> Nat]
    BY <2>3 DEF Tabular
  <2>5. \A s \in Stores : s # st => nonces'[s] = nonces[s]
    BY <2>3
  <2>6. nonces'[st] = Live(st, clock[r]) \/ nonces'[st] = With(st, clock[r], env[r])
    BY <2>2, <2>3
  <2>7. nonces'[st] = [n \in DOMAIN nonces'[st] |-> nonces'[st][n]]
    BY <2>6 DEF Live, With
  <2> QED BY <1>1, <1>0, <2>4, <2>5, <2>7 DEF Tabular
<1>4. ASSUME NEW w \in Workers, Restart(w) PROVE Tabular'
  <2>1. /\ UNCHANGED consumed
        /\ \A st \in Stores : nonces'[st] \in {nonces[st], [n \in {} |-> 0]}
    BY <1>4 DEF Restart
  <2> QED BY <1>1, <1>0, <2>1 DEF Tabular
<1> QED
  BY <1>2, <1>3, <1>4 DEF Next, Receive, Route, Resolve, Verify, ReadClock, LockTimeout,
     CallHandler, Return, Publish, Tick, vars

\* Every variable of the endpoint always has its type.
THEOREM TypeCorrect == Spec => []TypeOK
<1>1. Init => Tabular
  BY DEF Init, Tabular
<1>2. IInv /\ Honest /\ Tabular => TypeOK
  <2> SUFFICES ASSUME IInv, Honest, Tabular PROVE TypeOK
    OBVIOUS
  <2>1. ASSUME NEW st \in Stores, NEW n \in DOMAIN nonces[st]
        PROVE  n \in {Nonce(e) : e \in Envelopes \ {NotEnvelope}} /\ nonces[st][n] \in Nat
    <3>1. PICK r \in Remembered : Id(r) = n /\ nonces[st][n] = Expiry(env[r])
      BY <2>1 DEF IInv, Exact
    <3>2. env[r] \in Envelopes \ {NotEnvelope}
      BY DEF IInv, Typed, Progress, Remembered
    <3> QED BY <3>1, <3>2 DEF Id, Expiry
  <2> QED BY <2>1 DEF IInv, Typed, Honest, Tabular, TypeOK
<1>3. IInv /\ Tabular /\ [Next]_vars => Tabular'
  BY TabularStep
<1>4. IInv /\ Honest /\ [Next]_vars => Honest'
  BY HonestStep
<1>5. Init => Honest
  BY DEF Init, Honest, HonestTo, Own, Refusals
<1> QED BY Invariance, <1>1, <1>2, <1>3, <1>4, <1>5, PTL DEF Spec
=============================================================================
