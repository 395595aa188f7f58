------------------------------ MODULE Receiver ------------------------------
(***************************************************************************)
(* The receiving half of a remote call: the routes of one endpoint         *)
(* (agent_auth/_server.py), the end of verify_envelope                     *)
(* (agent_auth/_protocol.py) and the nonce state (agent_auth/_state.py).   *)
(*                                                                         *)
(* Workers are the processes that serve the endpoint, one event loop each. *)
(* In production and local mode they share the nonces of one SQLite file,  *)
(* they are "persistent"; in dev mode each keeps its own in memory and     *)
(* forgets them at a restart.                                              *)
(* A request is one delivery of an envelope to one worker: the same        *)
(* envelope may be delivered any number of times.                          *)
(*                                                                         *)
(* From the answer of resolve to the call of the handler a route never     *)
(* awaits, so that the routes of one worker do not interleave there; the   *)
(* other workers and the clock do.  verify_envelope reads the clock once   *)
(* for the window and consume reads it again for the purge, before it has  *)
(* the lock of the store.                                                  *)
(*                                                                         *)
(* What resolve returns is the promise of RegistryClient: a record that is *)
(* or was the sender's.  A record is [agent, kid, key]; the n-th record of *)
(* an Agent has kid n and the n-th of its keys.                            *)
(***************************************************************************)
EXTENDS Envelope, FiniteSets

CONSTANTS Requests, Workers,
          Identity,       \* the Agent ID of the endpoint
          Senders,
          Envelopes,      \* what may be delivered
          KeyOf(_, _),    \* the public key of a sender's n-th version
          MaxVersion,     \* bound on the versions of a sender
          MaxTime,        \* bound on the clock
          NotEnvelope,    \* too large, not JSON, or not the ten fields
          BadJson,        \* a body: not base64url or not strict JSON
          BadSchema,      \* a body: not of the request type
          NoRecord

ASSUME ReceiverAssumption ==
    /\ MaxTime \in Nat /\ MaxVersion \in Nat
    /\ \A e \in Envelopes : e # NotEnvelope =>
          e.issued \in Nat /\ e.sender \in Senders

VARIABLES now,
          version,    \* external: the version of the record of each sender
          nonces,     \* per store, the request IDs and when they expire
          persistent, \* SQLiteNonceState, not MemoryNonceState
          worker, env,
          pc, seen,
          clock,      \* the time consume has read
          answer,     \* the code, and whether it names this request's ID
          verified,   \* history: when each envelope that passed was verified
          consumed,   \* history: when the request ID was consumed
          handled,    \* history: the requests whose handler was called
          forgotten   \* history: the consumed IDs a restart has lost

inputs == <<persistent, worker, env>>
locals == <<pc, inputs, seen, clock, answer, verified>>
vars == <<now, version, nonces, locals, consumed, handled, forgotten>>

StoreOf(w) == IF persistent THEN "state" ELSE w
Stores == {StoreOf(w) : w \in Workers}

\* Mutant: the key of the nonces table lacks the sender.
NonceById(e) == <<e.id>>

\* PRIMARY KEY(sender, request_id)
Nonce(e) == <<e.sender, e.id>>
Id(r) == Nonce(env[r])
Store(r) == StoreOf(worker[r])

OnLoop == {"clock", "consume", "payload"}
Stages == {"idle", "resolve", "verify", "handler", "done"} \cup OnLoop
InFlight(r) == pc[r] \notin {"idle", "done"}
LoopFree(w) == \A r \in Requests : worker[r] = w => pc[r] \notin OnLoop

Records == [agent : Senders, kid : 1..MaxVersion,
            key : {KeyOf(s, v) : s \in Senders, v \in 1..MaxVersion}]
Own(code) == [code |-> code, own |-> TRUE]
record(s, v) == [agent |-> s, kid |-> v, key |-> KeyOf(s, v)]

TypeOK ==
    /\ now \in Nat
    /\ version \in [Senders -> 0..MaxVersion]
    /\ DOMAIN nonces = Stores
    /\ \A st \in Stores :
          /\ DOMAIN nonces[st] \subseteq {Nonce(e) : e \in Envelopes \ {NotEnvelope}}
          /\ nonces[st] \in [DOMAIN nonces[st] -> Nat]
    /\ pc \in [Requests -> Stages]
    /\ persistent \in BOOLEAN
    /\ worker \in [Requests -> Workers]
    /\ env \in [Requests -> Envelopes]
    /\ seen \in [Requests -> Records \cup {NoRecord}]
    /\ clock \in [Requests -> Nat]
    /\ DOMAIN verified \subseteq Requests
    /\ verified \in [DOMAIN verified -> Nat]
    /\ DOMAIN answer = Requests
    /\ DOMAIN consumed \subseteq Requests
    /\ consumed \in [DOMAIN consumed -> Nat]
    /\ handled \subseteq DOMAIN consumed
    /\ forgotten \subseteq DOMAIN consumed

Init ==
    /\ now = 0
    /\ version = [s \in Senders |-> 0]
    /\ persistent \in BOOLEAN
    /\ nonces = [st \in Stores |-> [n \in {} |-> 0]]
    /\ pc = [r \in Requests |-> "idle"]
    /\ worker \in [Requests -> Workers]
    /\ env \in [Requests -> Envelopes]
    /\ seen = [r \in Requests |-> NoRecord]
    /\ clock = [r \in Requests |-> 0]
    /\ answer = [r \in Requests |-> Own("none")]
    /\ verified = [r \in {} |-> 0]
    /\ consumed = [r \in {} |-> 0]
    /\ handled = {}
    /\ forgotten = {}

-----------------------------------------------------------------------------
(* The nonces of a store *)

\* DELETE FROM nonces WHERE expires_at <= now.
Live(st, time) ==
    [n \in {m \in DOMAIN nonces[st] : nonces[st][m] > time} |-> nonces[st][n]]

\* Mutant: the ID is looked up and not stored.
Unremembered(st, time, e) == Live(st, time)

\* Mutant: the row bears the time of issue.
WithIssued(st, time, e) ==
    [n \in DOMAIN Live(st, time) \cup {Nonce(e)} |->
        IF n = Nonce(e) THEN e.issued ELSE nonces[st][n]]

With(st, time, e) ==
    [n \in DOMAIN Live(st, time) \cup {Nonce(e)} |->
        IF n = Nonce(e) THEN Expiry(e) ELSE nonces[st][n]]

-----------------------------------------------------------------------------
(* The route *)

Goto(r, stage) == pc' = [pc EXCEPT ![r] = stage]

Answer(r, value) ==
    /\ Goto(r, "done")
    /\ answer' = [answer EXCEPT ![r] = value]
    /\ seen' = [seen EXCEPT ![r] = NoRecord]
    /\ clock' = [clock EXCEPT ![r] = 0]
    /\ UNCHANGED <<now, version, inputs, verified>>

Reply(r, code) == Answer(r, Own(code))

\* The body is read and from_dict has made an envelope of it, or not.
Receive(r) ==
    /\ pc[r] = "idle"
    /\ IF env[r] = NotEnvelope
       THEN \E code \in {"REQUEST_TOO_LARGE", "REQUEST_INVALID", "ENVELOPE_INVALID"} :
               Reply(r, code)
       ELSE /\ Goto(r, "resolve")
            /\ UNCHANGED <<now, version, inputs, seen, clock, answer, verified>>
    /\ UNCHANGED <<nonces, consumed, handled, forgotten>>

\* "UNAVAILABLE" stands for "AGENT_NOT_FOUND", "REGISTRY_UNAVAILABLE" and
\* whatever _start raises.
Resolve(r) ==
    /\ pc[r] = "resolve"
    /\ \/ Reply(r, "UNAVAILABLE")
       \/ \E v \in 1..version[env[r].sender] :
             /\ seen' = [seen EXCEPT ![r] = record(env[r].sender, v)]
             /\ Goto(r, "verify")
             /\ UNCHANGED <<now, version, inputs, clock, answer, verified>>
    /\ UNCHANGED <<nonces, consumed, handled, forgotten>>

\* Mutant: the audience is not compared.
refusal_for_anyone(r) ==
    VerifyRefusal(env[r], seen[r], env[r].audience, "agent.call", NoReply, now)

refusal(r) ==
    VerifyRefusal(env[r], seen[r], Identity, "agent.call", NoReply, now)

\* Mutant: a verified envelope is handled without consuming its ID.
VerifyOnly(r) ==
    /\ pc[r] = "verify" /\ LoopFree(worker[r]) /\ refusal(r) = "ok"
    /\ Goto(r, "payload")
    /\ UNCHANGED <<now, version, inputs, seen, clock, answer, verified,
                   nonces, consumed, handled, forgotten>>

Passed(r) ==
    /\ Goto(r, "clock")
    /\ verified' = [q \in DOMAIN verified \cup {r} |->
                       IF q = r THEN now ELSE verified[q]]
    /\ UNCHANGED <<now, version, inputs, seen, clock, answer>>

\* Mutant: the ID is consumed before the checks, so that a refused envelope
\* burns it.
ConsumeFirst(r) ==
    /\ pc[r] = "verify" /\ LoopFree(worker[r])
    /\ IF refusal(r) # "ok"
       THEN /\ Reply(r, refusal(r))
            /\ nonces' = [nonces EXCEPT ![Store(r)] = With(Store(r), now, env[r])]
            /\ consumed' = [q \in DOMAIN consumed \cup {r} |->
                               IF q = r THEN now ELSE consumed[q]]
       ELSE Passed(r) /\ UNCHANGED <<nonces, consumed>>
    /\ UNCHANGED <<handled, forgotten>>

\* verify_envelope up to the signature; an issued_at that is no timestamp is
\* refused like one out of the window.
Verify(r) ==
    /\ pc[r] = "verify" /\ LoopFree(worker[r])
    /\ IF refusal(r) # "ok"
       THEN Reply(r, refusal(r))
       ELSE Passed(r)
    /\ UNCHANGED <<nonces, consumed, handled, forgotten>>

\* consume: now = datetime.now(UTC), before the lock.
ReadClock(r) ==
    /\ pc[r] = "clock"
    /\ clock' = [clock EXCEPT ![r] = now]
    /\ Goto(r, "consume")
    /\ UNCHANGED <<now, version, inputs, seen, answer, verified, nonces,
                   consumed, handled, forgotten>>

\* The purge is committed with the row and without it: the IntegrityError is
\* caught inside the transaction.
Consume(r) ==
    LET st == Store(r)
        live == Live(st, clock[r])
    IN  /\ pc[r] = "consume"
        /\ IF Id(r) \in DOMAIN live
           THEN /\ nonces' = [nonces EXCEPT ![st] = live]
                /\ Reply(r, "NONCE_REPLAYED")
                /\ UNCHANGED consumed
           ELSE /\ nonces' = [nonces EXCEPT ![st] = With(st, clock[r], env[r])]
                /\ consumed' = [q \in DOMAIN consumed \cup {r} |->
                                   IF q = r THEN now ELSE consumed[q]]
                /\ Goto(r, "payload")
                /\ UNCHANGED <<now, version, inputs, seen, clock, answer,
                               verified>>
        /\ UNCHANGED <<handled, forgotten>>

\* BEGIN IMMEDIATE gives up after five seconds; the route does not catch it.
LockTimeout(r) ==
    /\ pc[r] = "consume" /\ persistent
    /\ Reply(r, "INTERNAL_ERROR")
    /\ UNCHANGED <<nonces, consumed, handled, forgotten>>

\* The payload is decoded and validated, then the handler is called.
CallHandler(r) ==
    /\ pc[r] = "payload"
    /\ \/ /\ env[r].body = BadJson
          /\ Reply(r, "PAYLOAD_INVALID")
          /\ UNCHANGED handled
       \/ /\ env[r].body = BadSchema
          /\ Reply(r, "SCHEMA_INVALID")
          /\ UNCHANGED handled
       \/ /\ env[r].body \notin {BadJson, BadSchema}
          /\ handled' = handled \cup {r}
          /\ Goto(r, "handler")
          /\ UNCHANGED <<now, version, inputs, seen, clock, answer, verified>>
    /\ UNCHANGED <<nonces, consumed, forgotten>>

\* What a handler and the rest of the route may end in under the request's own
\* ID: the errors that bear no ID, of its own calls (a Registry or a Vault out
\* of reach, a reply that is no envelope or bears no timestamp), of signing the
\* reply and of the response's schema, a ValueError or TypeError, an exception
\* nobody catches, and the refusals it may raise itself, "CAPABILITY_DENIED" by
\* the documents.
Failures == {"SCHEMA_INVALID", "PAYLOAD_INVALID", "ENVELOPE_INVALID",
             "TIMESTAMP_INVALID", "REQUEST_INVALID", "CAPABILITY_DENIED",
             "UNAVAILABLE", "INTERNAL_ERROR"}

\* Any other error of a call the handler made to another Agent is passed on
\* with the ID of that request and its code, here one that stands for all.
Return(r) ==
    /\ pc[r] = "handler"
    /\ \/ \E code \in Failures \cup {"ok"} : Reply(r, code)
       \/ Answer(r, [code |-> "NONCE_REPLAYED", own |-> FALSE])
    /\ UNCHANGED <<nonces, consumed, handled, forgotten>>

-----------------------------------------------------------------------------
(* The environment *)

Publish(s) ==
    /\ version[s] < MaxVersion
    /\ version' = [version EXCEPT ![s] = @ + 1]
    /\ UNCHANGED <<now, nonces, locals, consumed, handled, forgotten>>

\* A worker dies and is started again: its routes are lost, and what it kept
\* in memory.
Restart(w) ==
    LET mine == {r \in Requests : worker[r] = w}
    IN  /\ \E r \in mine : InFlight(r) \/ (r \in DOMAIN consumed \ forgotten)
        /\ pc' = [r \in Requests |-> IF r \in mine /\ InFlight(r)
                                     THEN "done" ELSE pc[r]]
        /\ answer' = [r \in Requests |-> IF r \in mine /\ InFlight(r)
                                         THEN Own("LOST") ELSE answer[r]]
        /\ seen' = [r \in Requests |-> IF r \in mine THEN NoRecord ELSE seen[r]]
        /\ clock' = [r \in Requests |-> IF r \in mine THEN 0 ELSE clock[r]]
        /\ nonces' = IF persistent THEN nonces
                     ELSE [nonces EXCEPT ![StoreOf(w)] = [n \in {} |-> 0]]
        /\ forgotten' = IF persistent THEN forgotten
                        ELSE forgotten \cup (mine \cap DOMAIN consumed)
        /\ UNCHANGED <<now, version, inputs, verified, consumed, handled>>

Tick ==
    /\ now < MaxTime
    /\ now' = now + 1
    /\ UNCHANGED <<version, nonces, locals, consumed, handled, forgotten>>

Route(r) ==
    \/ Resolve(r) \/ Verify(r) \/ ReadClock(r) \/ Consume(r) \/ LockTimeout(r)
    \/ CallHandler(r) \/ Return(r)

Next ==
    \/ \E r \in Requests : Receive(r) \/ Route(r)
    \/ \E s \in Senders : Publish(s)
    \/ \E w \in Workers : Restart(w)
    \/ Tick

Spec == Init /\ [][Next]_vars

-----------------------------------------------------------------------------
(* Properties *)

Same(r, s) ==
    /\ r # s /\ Store(r) = Store(s)
    /\ env[r].sender = env[s].sender /\ env[r].id = env[s].id
Remembered == DOMAIN consumed \ forgotten

\* r was made by its sender for this endpoint, and verify_envelope found so: it
\* names this endpoint and a kid the sender once published, is signed by that
\* very key and was verified in its window.
Genuine(r) ==
    /\ r \in DOMAIN verified
    /\ env[r].audience = Identity /\ env[r].type = "agent.call"
    /\ env[r].kid \in 1..version[env[r].sender]
    /\ env[r].signer = KeyOf(env[r].sender, env[r].kid)
    /\ Distance(env[r].issued, verified[r]) <= Skew

\* A store holds the ID of every envelope consumed in it until it expires: no
\* worker's purge, with the clock it read before it had the lock, drops one
\* that is still valid.  And it holds no other: every row, with its expiry, is
\* that of an envelope that is Genuine and was verified before, so that a
\* refused envelope, and a forged one with the ID of another, burns nothing
\* (docs/PROTOCOL_V1.md:29).
NoncesMatchConsumed ==
    /\ \A r \in Remembered :
          now < Expiry(env[r]) =>
             Id(r) \in DOMAIN nonces[Store(r)]
    /\ \A st \in Stores : \A n \in DOMAIN nonces[st] :
          \E r \in Remembered : /\ Genuine(r)
                                /\ Store(r) = st /\ Id(r) = n
                                /\ nonces[st][n] = Expiry(env[r])

\* A request ID is consumed once while its row is valid, whatever the workers,
\* the deliveries and the restarts of a persistent store: a second time only
\* when the window of the first has passed, by an envelope issued later or by
\* the same one, verified in time, whose route had the lock too late.
ConsumedOnceInTime ==
    \A r, s \in Remembered :
        Same(r, s) => \/ Expiry(env[r]) <= consumed[s]
                      \/ Expiry(env[s]) <= consumed[r]

Guard == INSTANCE ReplayGuard WITH
    Uses <- Requests, Places <- Workers, time <- now, durable <- persistent,
    used <- [r \in Remembered |-> [place |-> Store(r), ids |-> {Id(r)},
                                   until |-> Expiry(env[r])]]

\* The stores are replay guards: an ID is accepted again only once it has
\* expired or its worker has lost all it remembered; a persistent store never
\* loses any, however the workers' clocks, locks and restarts interleave.
ImplementsGuard == Guard!Spec

\* The handler is called for a request only if its sender made it for this
\* endpoint and verify_envelope found so, and its ID was consumed.
HandledWasMeant ==
    \A r \in handled : r \in DOMAIN consumed /\ Genuine(r)

\* The codes that only the route itself gives, before anything is consumed, as
\* long as a handler raises no AgentAuthError with one of them.
Refusals == {"REQUEST_TOO_LARGE", "SIGNER_MISMATCH", "AUDIENCE_MISMATCH",
             "TYPE_MISMATCH", "TIMESTAMP_EXPIRED", "SIGNATURE_INVALID",
             "NONCE_REPLAYED"}

\* A caller that is answered with a refusal under its own request ID knows that
\* this delivery consumed nothing (and so called no handler), and after
\* "NONCE_REPLAYED" that another delivery of its envelope was accepted.  Any
\* other code says neither, and under another ID, with what the handler passed
\* on, no code does.
AnswersAreHonest ==
    \A r \in Requests :
        answer[r].own =>
           /\ answer[r].code \in Refusals => r \notin DOMAIN consumed
           /\ answer[r].code = "NONCE_REPLAYED" =>
                 \E s \in DOMAIN consumed : Same(r, s)

\* "Rejects concurrent replays atomically through the unique constraint"
\* (docs/SECURITY_MODEL.md:20): on SQLite no request ID is handled twice.
HandledOnce ==
    persistent => \A r, s \in handled : ~Same(r, s)
=============================================================================
