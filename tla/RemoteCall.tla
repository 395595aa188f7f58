----------------------------- MODULE RemoteCall -----------------------------
(***************************************************************************)
(* A remote call from AgentAuth.call to its result                         *)
(* (agent_auth/_auth.py, _server.py, _protocol.py): the caller resolves the*)
(* target, signs and posts a request; the endpoint verifies it, runs the   *)
(* handler and signs a reply; the caller resolves the target again and     *)
(* verifies the reply.                                                     *)
(*                                                                         *)
(* A call is a record [from, to, n].  Its request may be delivered late,   *)
(* more than once (a proxy that retries) or never, and an answer may reach *)
(* another call of the same process, once.  Agents are re-keyed and revoked*)
(* at any time; a resolve returns a record that a Directory believes, which*)
(* is what RegistryClient implements.  A kid is an Agent and the number of *)
(* its record, and so is its key; the ID of a request is its call, the ID  *)
(* of a reply the delivery it answers.  The steps of the endpoint and of   *)
(* consume that Receiver takes apart are one step here; all processes read *)
(* one clock.                                                              *)
(***************************************************************************)
EXTENDS Envelope, Sequences, Functions

CONSTANTS Agents, Calls,
          Deliveries,     \* bound: [call, copy] is one of the request of call
          Stale,          \* TTL + MaxWait of RegistryClient
          MaxTime,        \* bound on the clock
          MaxRecords,     \* bound on the records of all Agents together
          NoId, OtherId,  \* request_id: None, and that of a call made elsewhere
          NoMessage

ASSUME CallAssumption ==
    /\ Stale \in Nat /\ MaxTime \in Nat /\ MaxRecords \in Nat
    /\ \A c \in Calls : c.from \in Agents /\ c.to \in Agents
    /\ \A d \in Deliveries : d.call \in Calls
    /\ Calls \cap Deliveries = {}
    /\ {NoId, OtherId, NoReply} \cap (Calls \cup Deliveries) = {}
    /\ NoId # OtherId

VARIABLES now,
          log,       \* per Agent, its records so far: [at, active]
          signer,    \* per Agent, the record whose key its process signs with
          nonces,    \* per Agent, the nonce state: a set of [id, expires]
          pc, seen,  \* per call: its stage, the record it was addressed by
          request, reply, outcome,
          stage, answer,   \* per delivery: the route and its response
          handled    \* history: the deliveries whose handler was called

calls == <<pc, seen, request, reply, outcome>>
routes == <<stage, answer, handled>>
world == <<log, signer>>
vars == <<now, world, nonces, calls, routes>>

Error(code, id) == [code |-> code, id |-> id]
Key(a, v) == <<a, v>>
record(a, v) == [agent |-> a, kid |-> Key(a, v), key |-> Key(a, v)]

\* sign_envelope
Signed(id, type, from, to, replyTo) ==
    [id |-> id, type |-> type, sender |-> from, audience |-> to,
     kid |-> Key(from, signer[from]), signer |-> Key(from, signer[from]),
     issued |-> now, replyTo |-> replyTo]

\* What RegistryClient implements; here nobody is on the way to the Registry.
Dir == INSTANCE Directory WITH
    Askers <- Calls, Age <- Stale, Wait <- Stale, Nothing <- NoMessage,
    time <- now, asked <- [c \in {} |-> <<>>], told <- [c \in Calls |-> NoMessage]

CurrentSince(a, v, t) == Dir!CurrentSince(a, v, t)

\* What a resolve of a may return: what one who asks a Directory is told.
Believable(a) == Dir!Believable(a)

Init ==
    /\ now = 0
    /\ log = [a \in Agents |-> <<[at |-> 0, active |-> TRUE]>>]
    /\ signer = [a \in Agents |-> 1]
    /\ nonces = [a \in Agents |-> {}]
    /\ pc = [c \in Calls |-> "idle"]
    /\ seen = [c \in Calls |-> 0]
    /\ request = [c \in Calls |-> NoMessage]
    /\ reply = [c \in Calls |-> NoMessage]
    /\ outcome = [c \in Calls |-> NoMessage]
    /\ stage = [d \in Deliveries |-> "none"]
    /\ answer = [d \in Deliveries |-> NoMessage]
    /\ handled = {}

\* NonceState.consume
Live(a) == {n \in nonces[a] : n.expires > now}
Used(a, e) == \E n \in Live(a) : n.id = e.id
\* Mutant: the row bears the time of issue.
Consume_issued(a, e) ==
    nonces' = [nonces EXCEPT ![a] =
                  Live(a) \cup {[id |-> e.id, expires |-> e.issued]}]

Consume(a, e) ==
    nonces' = [nonces EXCEPT ![a] =
                  Live(a) \cup {[id |-> e.id, expires |-> Expiry(e)]}]

\* verify_envelope; the purge of a consume that finds the ID is left out.
Refusal(e, rec, audience, type, replyTo) ==
    LET refusal == VerifyRefusal(e, rec, audience, type, replyTo, now) IN
    IF refusal = "ok" /\ Used(audience, e) THEN "NONCE_REPLAYED" ELSE refusal

-----------------------------------------------------------------------------
(* _remote_call *)

Goto(c, label) == pc' = [pc EXCEPT ![c] = label]

End(c, result) ==
    /\ Goto(c, "done")
    /\ outcome' = [outcome EXCEPT ![c] = result]
    /\ seen' = [seen EXCEPT ![c] = 0]
    /\ reply' = [reply EXCEPT ![c] = NoMessage]
    /\ UNCHANGED request

Resolve(c) ==
    /\ pc[c] = "idle"
    /\ \E v \in Believable(c.to) : seen' = [seen EXCEPT ![c] = v]
    /\ Goto(c, "sign")
    /\ UNCHANGED <<now, world, nonces, request, reply, outcome, routes>>

Send(c) ==
    /\ pc[c] = "sign"
    /\ request' = [request EXCEPT ![c] =
                      Signed(c, "agent.call", c.from, c.to, NoReply)]
    /\ Goto(c, "sent")
    /\ UNCHANGED <<now, world, nonces, seen, reply, outcome, routes>>

\* The resolve, the DNS pin or the signature fails.
FailEarly(c) ==
    /\ pc[c] \in {"idle", "sign"}
    /\ End(c, Error("FAILED", NoId))
    /\ UNCHANGED <<now, world, nonces, routes>>

\* Mutant: the ID in the error is not looked at.
_remote_error_own(error, c) == Error(error.code, c)

_remote_error(error, c) ==
    Error(error.code, IF error.id = NoId THEN c ELSE error.id)

IsError(message) == DOMAIN message = {"code", "id"}

Receive(c, d) ==
    /\ pc[c] = "sent"
    /\ answer[d] # NoMessage /\ d.call.from = c.from
    /\ \/ /\ IsError(answer[d])
          /\ End(c, _remote_error(answer[d], c))
       \/ /\ ~ IsError(answer[d])
          /\ reply' = [reply EXCEPT ![c] = answer[d]]
          /\ Goto(c, "verify")
          /\ UNCHANGED <<seen, request, outcome>>
    /\ answer' = [answer EXCEPT ![d] = NoMessage]
    /\ UNCHANGED <<now, world, nonces, stage, handled>>

\* No answer in time, or one that is no envelope and no error object; the
\* request may be on its way.
GiveUp(c) ==
    /\ pc[c] = "sent"
    /\ End(c, Error("FAILED", c))
    /\ UNCHANGED <<now, world, nonces, routes>>

\* Mutant: the reply is verified with the record it was addressed by.
Sources_first(c) == {seen[c]}

\* The second resolve.
Sources(c) == Believable(c.to)

\* Mutant: the reply's correlation is not checked.
reply_refusal_uncorrelated(c, v) ==
    Refusal(reply[c], record(c.to, v), c.from, "agent.result", NoReply)

reply_refusal(c, v) ==
    Refusal(reply[c], record(c.to, v), c.from, "agent.result", c)

\* The resolve fails, or remote_tool finds that the result is not of the output
\* type: an exception without an ID.
VerifyReply(c) ==
    /\ pc[c] = "verify"
    /\ \/ End(c, Error("FAILED", NoId)) /\ UNCHANGED nonces
       \/ \E v \in Sources(c) :
             \/ /\ reply_refusal(c, v) # "ok"
                /\ End(c, Error(reply_refusal(c, v), reply[c].id))
                /\ UNCHANGED nonces
             \/ /\ reply_refusal(c, v) = "ok"
                /\ \/ End(c, Error("ok", reply[c].id))
                   \/ End(c, Error("FAILED", NoId))
                /\ Consume(c.from, reply[c])
    /\ UNCHANGED <<now, world, routes>>

-----------------------------------------------------------------------------
(* The endpoint of the target *)

Respond(d, message) ==
    /\ stage' = [stage EXCEPT ![d] = "done"]
    /\ answer' = [answer EXCEPT ![d] = message]

call_refusal(d, v) ==
    LET c == d.call IN
    Refusal(request[c], record(c.from, v), c.to, "agent.call", NoReply)

\* _error_response: the request's own ID, if the exception has none.
Accept(d) ==
    LET c == d.call IN
    /\ stage[d] = "none" /\ request[c] # NoMessage
    /\ \/ /\ Respond(d, Error("FAILED", c))
          /\ UNCHANGED <<nonces, handled>>
       \/ \E v \in Believable(c.from) :
             \/ /\ call_refusal(d, v) # "ok"
                /\ Respond(d, Error(call_refusal(d, v), c))
                /\ UNCHANGED <<nonces, handled>>
             \/ /\ call_refusal(d, v) = "ok"
                /\ Consume(c.to, request[c])
                /\ stage' = [stage EXCEPT ![d] = "handler"]
                /\ handled' = handled \cup {d}
                /\ UNCHANGED answer
    /\ UNCHANGED <<now, world, calls>>

\* A reply; a failure of the schema, the handler or the signature; or the
\* error of a call that the handler made, passed on with the ID it has (its
\* code stands for any).
Return(d) ==
    LET c == d.call IN
    /\ stage[d] = "handler"
    /\ \/ Respond(d, Signed(d, "agent.result", c.to, c.from, c))
       \/ Respond(d, Error("FAILED", c))
       \/ Respond(d, Error("NONCE_REPLAYED", OtherId))
    /\ UNCHANGED <<now, world, nonces, calls, handled>>

-----------------------------------------------------------------------------
(* The environment *)

\* A new key, or a revocation, which is the last record.
Change(a, active) ==
    /\ FoldFunction(LAMBDA l, n : Len(l) + n, 0, log) < MaxRecords
    /\ log[a][Len(log[a])].active
    /\ log' = [log EXCEPT ![a] = Append(@, [at |-> now, active |-> active])]
    /\ UNCHANGED <<now, signer, nonces, calls, routes>>

\* Mutant: the configuration may name a key that was never published.
Configured_ahead(a) == 1..(Len(log[a]) + 1)

\* Any key the Registry has ever had for the Agent: KeysInOrder of KeyRotation
\* promises no more of agent-auth.toml, which a lost update sets back.
Configured(a) == 1..Len(log[a])

\* The process dies and starts again, with the key it is configured with; the
\* nonces are on disk.
Restart(a) ==
    /\ \E v \in Configured(a) : signer' = [signer EXCEPT ![a] = v]
    /\ pc' = [c \in Calls |-> IF c.from = a /\ pc[c] # "idle"
                              THEN "done" ELSE pc[c]]
    /\ seen' = [c \in Calls |-> IF c.from = a THEN 0 ELSE seen[c]]
    /\ reply' = [c \in Calls |-> IF c.from = a THEN NoMessage ELSE reply[c]]
    /\ stage' = [d \in Deliveries |->
                    IF d.call.to = a /\ stage[d] = "handler"
                    THEN "done" ELSE stage[d]]
    /\ UNCHANGED <<now, log, nonces, request, outcome, answer, handled>>

Tick ==
    /\ now < MaxTime
    /\ now' = now + 1
    /\ UNCHANGED <<world, nonces, calls, routes>>

Next ==
    \/ \E c \in Calls :
          \/ Resolve(c) \/ Send(c) \/ FailEarly(c) \/ GiveUp(c) \/ VerifyReply(c)
          \/ \E d \in Deliveries : Receive(c, d)
    \/ \E d \in Deliveries : Accept(d) \/ Return(d)
    \/ \E a \in Agents :
          Restart(a) \/ \E active \in BOOLEAN : Change(a, active)
    \/ Tick

Spec == Init /\ [][Next]_vars

-----------------------------------------------------------------------------
(* Properties *)

Keys == Agents \X Nat
Records == [at : Nat, active : BOOLEAN]
Ids == Calls \cup Deliveries \cup {NoId, OtherId}
Codes == {"ok", "FAILED", "NONCE_REPLAYED", "SIGNER_MISMATCH", "AUDIENCE_MISMATCH",
          "TYPE_MISMATCH", "REPLY_MISMATCH", "TIMESTAMP_EXPIRED", "SIGNATURE_INVALID"}
Errors == [code : Codes, id : Ids]
Envelopes(ids, type, replyTo) ==
    [id : ids, type : {type}, sender : Agents, audience : Agents, kid : Keys,
     signer : Keys, issued : Nat, replyTo : replyTo]
Requests == Envelopes(Calls, "agent.call", {NoReply})
Replies == Envelopes(Deliveries, "agent.result", Calls)
Nonces == [id : Calls \cup Deliveries, expires : Nat]

\* The type invariant: an Agent signs with a key the Registry has had for it
\* (KeysInOrder of KeyRotation).
TypeOK ==
    /\ now \in Nat
    /\ log \in [Agents -> Seq(Records)]
    /\ signer \in [Agents -> Nat]
    /\ \A a \in Agents : signer[a] \in 1..Len(log[a])
    /\ nonces \in [Agents -> SUBSET Nonces]
    /\ pc \in [Calls -> {"idle", "sign", "sent", "verify", "done"}]
    /\ seen \in [Calls -> Nat]
    /\ request \in [Calls -> Requests \cup {NoMessage}]
    /\ reply \in [Calls -> Replies \cup {NoMessage}]
    /\ outcome \in [Calls -> Errors \cup {NoMessage}]
    /\ stage \in [Deliveries -> {"none", "handler", "done"}]
    /\ answer \in [Deliveries -> Replies \cup Errors \cup {NoMessage}]
    /\ handled \subseteq Deliveries

Returns(c) == outcome[c] = NoMessage /\ outcome'[c] # NoMessage

\* "The value returned has passed the checks of signature, audience, nonce,
\* timestamp and reply correlation" (docs/API_REFERENCE.md:21): it comes from
\* a handler that was called for this very request, and was signed with a key
\* that was the target's within the last Stale, whenever it was addressed,
\* whatever answers went astray and whoever was re-keyed or revoked meanwhile.
ResultIsGenuine ==
    [][\A c \in Calls : Returns(c) /\ outcome'[c].code = "ok" =>
          /\ reply[c].id \in {d \in handled : d.call = c}
          /\ \E v \in 1..Len(log[c.to]) :
                /\ reply[c].signer = Key(c.to, v)
                /\ CurrentSince(c.to, v, now - Stale)]_vars

\* The reply of a target that has had its key for longer than Stale and signs
\* with it is never refused for its signer, however long ago the target was
\* addressed: the second resolve of _remote_call is needed for that.
SettledReplyAccepted ==
    [][\A c \in Calls :
          Returns(c) /\ outcome'[c].code \in {"SIGNER_MISMATCH", "SIGNATURE_INVALID"}
          /\ pc[c] = "verify" =>
             \/ reply[c].sender # c.to
             \/ reply[c].kid # Key(c.to, Len(log[c.to]))
             \/ log[c.to][Len(log[c.to])].at >= now - Stale]_vars

Guard == INSTANCE ReplayGuard WITH
    Uses <- Deliveries, Places <- Agents, time <- now, durable <- TRUE,
    used <- [d \in handled |-> [place |-> d.call.to, ids |-> {d.call},
                                until |-> Expiry(request[d.call])]]

\* A handler is called once for a request that a proxy delivers again: a second
\* time only in the last instant of its window (accepted by verify_envelope,
\* expired for consume), whatever restarts and replies to other calls, whose
\* IDs the same nonce state keeps, come in between.
ImplementsGuard == Guard!Spec

\* What a caller may conclude from a failure, by its code and its request_id
\* together: with the request's own ID a refusal is the answer to a delivery
\* whose handler was not called, and "NONCE_REPLAYED" says that another one's
\* was; with the ID of a reply the handler was called.  The codes a handler may
\* end in, an error without an ID and one with the ID of another call say
\* nothing: the code alone never does.
ErrorsAreHonest ==
    \A c \in Calls : outcome[c] # NoMessage /\ outcome[c].code # "FAILED" =>
       /\ outcome[c].id = c =>
             /\ \E d \in Deliveries \ handled :
                   d.call = c /\ stage[d] = "done"
             /\ outcome[c].code = "NONCE_REPLAYED" =>
                   \E d \in handled : d.call = c
       /\ outcome[c].id \in Deliveries => outcome[c].id \in handled
=============================================================================
