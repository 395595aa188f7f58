--------------------------- MODULE RegistryService ---------------------------
(***************************************************************************)
(* The handlers of POST /v1/agents                                         *)
(* (packages/agent-auth-registry/src/agent_auth_registry/app.py).          *)
(*                                                                         *)
(* A request is one delivery of a mutation: the credentials of a developer *)
(* and a signed envelope.  The same delivery may arrive any number of      *)
(* times and in any order, and its client may be gone by the time it is    *)
(* answered.  The server is one process with one event loop (run.py,       *)
(* workers=1): mutate gives the loop up once, at "await request.json()",   *)
(* between the authentication of the developer and everything else.  From  *)
(* there on handlers do not interleave with each other, but each database  *)
(* access is a step of its own, because the administrator's processes and  *)
(* the clock run in between.                                               *)
(***************************************************************************)
EXTENDS RegistryStore

CONSTANTS Requests,
          Deliveries,     \* records [client, secret, env]
          RegistryUrl,
          NoCredentials,  \* a secret: a credential header is missing
          NotJson,        \* an env: request.json() fails
          NotEnvelope,    \* an env: not the ten fields of an envelope
          BadPayload,     \* a body: not the fields of the mutation type
          NoProof,        \* a proof that is not a JSON object
          NoCall, NoRecord

\* What from_dict, _payload and _text let through; e.body is BadPayload when
\* it is not an object with the fields of the type.
PublishBody == [agent : Agents, endpoint : Endpoints, kid : Kids, key : Keys]
WellTyped(e) ==
    /\ e.sender \in Agents
    /\ e.issued \in Nat
    /\ e.type = "registry.publish" /\ e.body # BadPayload =>
          e.body \in PublishBody
    /\ e.type = "registry.rotate" /\ e.body # BadPayload =>
          e.body.newKid \in Kids /\ e.body.newKey \in Keys

ASSUME DeliveriesAssumption ==
    \A d \in Deliveries :
        /\ d.client \in Clients
        /\ d.env \notin {NotJson, NotEnvelope} => WellTyped(d.env)

VARIABLES pc,             \* where the handler of a request is
          call,           \* the delivery it handles
          seen,           \* the record it verifies against
          answer,         \* what it answered: "ok" or the code of the error
          verified,       \* history: the clock when verify_envelope accepted
          committed       \* history: the requests whose mutation committed

handlers == <<pc, call, seen, answer, verified, committed>>

OnLoop == {"namespace", "resolve", "verify", "commit", "readback"}
Stages == {"idle", "body", "done"} \cup OnLoop
InFlight(r) == pc[r] \in OnLoop \cup {"body"}

\* Mutant: a handler keeps the loop while it waits for its body.
LoopNeverLent == \A r \in Requests : pc[r] \notin OnLoop \cup {"body"}

LoopFree == \A r \in Requests : pc[r] \notin OnLoop

env(r) == call[r].env
Records == [agent : Agents, kid : Kids, key : Keys]

ServiceTypeOK ==
    /\ pc \in [Requests -> Stages]
    /\ call \in [Requests -> Deliveries \cup {NoCall}]
    /\ \A r \in Requests : pc[r] # "idle" => call[r] \in Deliveries
    /\ seen \in [Requests -> Records \cup {NoRecord}]
    /\ DOMAIN answer = Requests
    /\ verified \in [Requests -> Nat]
    /\ committed \subseteq Requests

ServiceInit ==
    /\ pc = [r \in Requests |-> "idle"]
    /\ call = [r \in Requests |-> NoCall]
    /\ seen = [r \in Requests |-> NoRecord]
    /\ answer = [r \in Requests |-> "none"]
    /\ verified = [r \in Requests |-> 0]
    /\ committed = {}

-----------------------------------------------------------------------------
(* The checks of a handler that read no table. *)

_authenticate(d) ==
    IF d.secret = NoCredentials THEN "DEVELOPER_AUTH_MISSING"
    ELSE IF ~get_developer_active(d.client) THEN "DEVELOPER_NOT_FOUND"
    ELSE IF developers[d.client].secret # d.secret THEN "DEVELOPER_KEY_INVALID"
    ELSE "ok"

\* _validate_kid: "<agent>#key:v<positive number>".
KidBinds(agent, kid) == kid.agent = agent /\ kid.version > 0

payload_refusal(e) ==
    IF e.type \notin {"registry.publish", "registry.rotate", "registry.revoke"}
    THEN "MUTATION_TYPE_INVALID"
    ELSE IF e.body = BadPayload THEN "PAYLOAD_INVALID"
    ELSE IF \/ e.sender # e.body.agent
            \/ e.type = "registry.publish" /\ e.kid # e.body.kid
         THEN "SIGNER_MISMATCH"
    ELSE IF /\ e.type = "registry.publish"
            /\ e.body.endpoint.host # e.body.agent.host
         THEN "INVALID_ENDPOINT"
    ELSE IF e.type = "registry.publish" /\ ~KidBinds(e.body.agent, e.body.kid)
         THEN "KID_INVALID"
    ELSE "ok"

envelope_refusal(e) ==
    IF e = NotEnvelope THEN "ENVELOPE_INVALID"
    ELSE IF has_nonce(e.sender, e.id) THEN "NONCE_REPLAYED"
    ELSE payload_refusal(e)

\* The first publish of an Agent is verified against its own metadata.
claimed(e) == [agent |-> e.sender, kid |-> e.body.kid, key |-> e.body.key]

\* Mutant: the proof need not answer this rotation.
proof_of_anything(e) ==
    IF e.body.proof = NoProof THEN "ROTATION_PROOF_INVALID"
    ELSE VerifyRefusal(e.body.proof,
                       [agent |-> e.sender, kid |-> e.body.newKid,
                        key |-> e.body.newKey],
                       RegistryUrl, "registry.rotate.proof", NoReply, now)

\* The new key's half of a rotation, checked after the outer envelope.
proof_refusal(e) ==
    LET proof == e.body.proof
        wanted == [agent |-> e.sender, newKid |-> e.body.newKid,
                   newKey |-> e.body.newKey]
    IN  IF proof = NoProof THEN "ROTATION_PROOF_INVALID"
        ELSE IF proof.body # wanted \/ proof.replyTo # e.id
             THEN "ROTATION_PROOF_INVALID"
        ELSE IF ~KidBinds(e.sender, e.body.newKid) THEN "KID_INVALID"
        ELSE VerifyRefusal(proof, [agent |-> e.sender, kid |-> e.body.newKid,
                                   key |-> e.body.newKey],
                           RegistryUrl, "registry.rotate.proof", e.id, now)

\* Mutant: the proof answers the rotation, but nobody checks who signed it.
verify_proof_unsigned(e, rec) ==
    LET outer == VerifyRefusal(e, rec, RegistryUrl, e.type, NoReply, now)
    IN  IF outer # "ok" \/ e.type # "registry.rotate" THEN outer
        ELSE IF e.body.proof = NoProof THEN "ROTATION_PROOF_INVALID"
        ELSE IF e.body.proof.replyTo # e.id THEN "ROTATION_PROOF_INVALID"
        ELSE "ok"

verify_refusal(e, rec) ==
    LET outer == VerifyRefusal(e, rec, RegistryUrl, e.type, NoReply, now)
    IN  IF outer = "ok" /\ e.type = "registry.rotate"
        THEN proof_refusal(e) ELSE outer

-----------------------------------------------------------------------------
(* Steps of a handler. *)

Goto(r, stage) == pc' = [pc EXCEPT ![r] = stage]

Answer(r, result) ==
    /\ Goto(r, "done")
    /\ answer' = [answer EXCEPT ![r] = result]
    /\ seen' = [seen EXCEPT ![r] = NoRecord]

\* except StateConflictError / AgentAuthError: write the rejected audit row.
Refuse(r, code) ==
    /\ Answer(r, code)
    /\ rejections' = rejections + 1
    /\ UNCHANGED <<tables, verified, committed>>

\* A step that reads, then either refuses or goes on.
Check(r, code, next) ==
    IF code = "ok"
    THEN /\ Goto(r, next)
         /\ UNCHANGED <<tables, rejections, seen, answer, verified, committed>>
    ELSE Refuse(r, code)

Arrive(r) ==
    /\ pc[r] = "idle"
    /\ LoopFree
    /\ \E d \in Deliveries :
          /\ call' = [call EXCEPT ![r] = d]
          /\ Check(r, _authenticate(d), "body")
    /\ UNCHANGED now

\* A body that is not JSON is answered 400 by "except ValueError", unaudited.
ReadBody(r) ==
    /\ pc[r] = "body"
    /\ LoopFree
    /\ IF env(r) = NotJson
       THEN /\ Answer(r, "REQUEST_INVALID")
            /\ UNCHANGED <<tables, rejections, verified, committed>>
       ELSE Check(r, envelope_refusal(env(r)), "namespace")
    /\ UNCHANGED <<now, call>>

CheckNamespace(r) ==
    /\ pc[r] = "namespace"
    /\ Check(r, IF has_namespace(call[r].client, env(r).sender)
                THEN "ok" ELSE "NAMESPACE_NOT_AUTHORIZED", "resolve")
    /\ UNCHANGED <<now, call>>

Resolve(r) ==
    /\ pc[r] = "resolve"
    /\ IF Resolvable(env(r).sender) \/ env(r).type = "registry.publish"
       THEN /\ Goto(r, "verify")
            /\ seen' = [seen EXCEPT ![r] = IF Resolvable(env(r).sender)
                                           THEN resolve(env(r).sender)
                                           ELSE claimed(env(r))]
            /\ UNCHANGED <<tables, rejections, answer, verified, committed>>
       ELSE Refuse(r, "AGENT_NOT_FOUND")
    /\ UNCHANGED <<now, call>>

Verify(r) ==
    /\ pc[r] = "verify"
    /\ LET code == verify_refusal(env(r), seen[r])
       IN  IF code = "ok"
           THEN /\ Goto(r, "commit")
                /\ verified' = [verified EXCEPT ![r] = now]
                /\ UNCHANGED <<tables, rejections, seen, answer, committed>>
           ELSE Refuse(r, code)
    /\ UNCHANGED <<now, call>>

transaction_refusal(r) ==
    LET e == env(r) IN
    IF e.type = "registry.publish" THEN publish_refusal(e, call[r].client)
    ELSE IF e.type = "registry.rotate"
         THEN rotate_refusal(e, call[r].client, seen[r].kid)
    ELSE revoke_refusal(e, call[r].client, seen[r].kid)

transaction(r) ==
    \/ env(r).type = "registry.publish" /\ publish(env(r), call[r].client)
    \/ env(r).type = "registry.rotate" /\ rotate(env(r), seen[r].kid)
    \/ env(r).type = "registry.revoke" /\ revoke(env(r), seen[r].kid)

\* publish and rotate read the row back on another connection; revoke is done.
Commit(r) ==
    /\ pc[r] = "commit"
    /\ transaction_refusal(r) = "ok"
    /\ transaction(r)
    /\ committed' = committed \cup {r}
    /\ IF env(r).type = "registry.revoke"
       THEN Answer(r, "ok")
       ELSE Goto(r, "readback") /\ UNCHANGED <<seen, answer>>
    /\ UNCHANGED <<now, developers, namespaces, rejections, call, verified>>

RollBack(r) ==
    /\ pc[r] = "commit"
    /\ transaction_refusal(r) # "ok"
    /\ Refuse(r, transaction_refusal(r))
    /\ UNCHANGED <<now, call>>

\* BEGIN IMMEDIATE waits busy_timeout for another writer, then raises
\* sqlite3.OperationalError, which mutate does not catch.
LockTimeout(r) ==
    /\ pc[r] = "commit"
    /\ Answer(r, "INTERNAL_ERROR")
    /\ UNCHANGED <<now, tables, rejections, call, verified, committed>>

\* "published Agent missing" and "rotated Agent missing" are not caught either.
ReadBack(r) ==
    /\ pc[r] = "readback"
    /\ Answer(r, IF Resolvable(env(r).sender) THEN "ok" ELSE "INTERNAL_ERROR")
    /\ UNCHANGED <<now, tables, rejections, call, verified, committed>>

\* The process dies and systemd restarts it: handlers are lost, tables stay.
Crash ==
    /\ \E r \in Requests : InFlight(r)
    /\ pc' = [r \in Requests |-> IF InFlight(r) THEN "done" ELSE pc[r]]
    /\ answer' = [r \in Requests |-> IF InFlight(r) THEN "LOST" ELSE answer[r]]
    /\ seen' = [r \in Requests |-> NoRecord]
    /\ UNCHANGED <<now, tables, rejections, call, verified, committed>>

Step(r) ==
    \/ ReadBody(r) \/ CheckNamespace(r) \/ Resolve(r) \/ Verify(r)
    \/ Commit(r) \/ RollBack(r) \/ LockTimeout(r) \/ ReadBack(r)
=============================================================================
