---------------------------- MODULE RegistryStore ----------------------------
(***************************************************************************)
(* The Registry's SQLite tables and the transactions of RegistryStore      *)
(* (packages/agent-auth-registry/src/agent_auth_registry/storage.py).      *)
(*                                                                         *)
(* A table is a function from the primary keys it holds to its rows, so a  *)
(* row exists iff its key is in the DOMAIN.  Each operation gives the code *)
(* of the StateConflictError it raises, or "ok", as ...Refusal, and the    *)
(* table changes of a commit as an action.  An operation that raises       *)
(* changes no table: sqlite3's context manager rolls the whole transaction *)
(* back, the consumed nonces included.                                     *)
(*                                                                         *)
(* Simplifications: a developer is its client_id (both are unique), the    *)
(* API key hash is the key ("secret"), capabilities and updated_at go with *)
(* the endpoint, and the audit table is the number of accepted rows per    *)
(* Agent and action plus the number of rejected rows.                      *)
(*                                                                         *)
(* The clock moves in half seconds: an even value is the first instant of  *)
(* a second and the odd one after it any later instant of that second.     *)
(* Timestamps on the wire and _now() have whole seconds, verify_envelope   *)
(* reads the full clock.                                                   *)
(***************************************************************************)
EXTENDS Integers, FiniteSets, NamespacePath, Envelope

CONSTANTS Agents,        \* Agent IDs, records [host, path]
          Clients,       \* client_ids
          Secrets,       \* developer API keys
          Versions,      \* Vault key versions in kids
          Keys,          \* public keys
          Endpoints,     \* records [host, name]
          Scopes,        \* namespace scopes, records [domain, prefix]
          NamespaceIds   \* uuids of namespace rows

ASSUME VersionsAssumption == Versions \subseteq Nat

VARIABLES now,           \* the machine's clock
          developers, namespaces, agents, keyHistory, nonces,
          audit,         \* accepted rows, [Agents -> [AuditActions -> Nat]]
          rejections     \* number of rejected rows

tables == <<developers, namespaces, agents, keyHistory, nonces, audit>>

Kids == [agent : Agents, version : Versions]
AuditActions == {"publish", "rotate", "revoke", "admin.revoke"}

DeveloperRow == [secret : Secrets, status : {"active", "revoked"}]
NamespaceRow == [owner : Clients, scope : Scopes,
                 status : {"active", "revoked"}]
AgentRow     == [owner : Clients, endpoint : Endpoints, kid : Kids,
                 key : Keys, status : {"active", "revoked"}]
KeyRow       == [agent : Agents, key : Keys,
                 status : {"current", "inactive"}]

IsTable(table, K, R) == DOMAIN table \subseteq K /\ table \in [DOMAIN table -> R]

StoreTypeOK ==
    /\ now \in Nat
    /\ IsTable(developers, Clients, DeveloperRow)
    /\ IsTable(namespaces, NamespaceIds, NamespaceRow)
    /\ IsTable(agents, Agents, AgentRow)
    /\ IsTable(keyHistory, Kids, KeyRow)
    /\ \A n \in DOMAIN nonces : nonces[n] \in Int
    /\ audit \in [Agents -> [AuditActions -> Nat]]
    /\ rejections \in Nat

\* INSERT, or UPDATE of the row with that key.
Put(table, key, row) ==
    [k \in DOMAIN table \cup {key} |-> IF k = key THEN row ELSE table[k]]

\* _now(): the clock without its sub-second part.
Second == now - (now % 2)

-----------------------------------------------------------------------------
(* Reads.  Each is one SELECT of its own connection. *)

get_developer_active(client) ==
    /\ client \in DOMAIN developers
    /\ developers[client].status = "active"

\* Mutant: the namespace is granted to the Agent ID, whoever asks.
AnyonesNamespace(client, agent) ==
    \E n \in DOMAIN namespaces : /\ namespaces[n].status = "active"
                                 /\ Matches(agent, namespaces[n].scope)

has_namespace(client, agent) ==
    \E n \in DOMAIN namespaces : /\ namespaces[n].owner = client
                                 /\ namespaces[n].status = "active"
                                 /\ Matches(agent, namespaces[n].scope)

\* resolve() finds a row: the Agent exists and is not revoked.
Resolvable(agent) ==
    /\ agent \in DOMAIN agents
    /\ agents[agent].status = "active"

resolve(agent) ==
    [agent |-> agent, kid |-> agents[agent].kid, key |-> agents[agent].key]

\* Mutant: the request ID is not looked up before the transaction.
NeverSeen(sender, id) == FALSE

has_nonce(sender, id) ==
    /\ <<sender, id>> \in DOMAIN nonces
    /\ nonces[<<sender, id>>] > Second

-----------------------------------------------------------------------------
(* _consume: purge what has expired, then insert under the primary key. *)

\* Mutant: the purge does not look at expires_at.
PurgeAll(table) == [n \in {} |-> 0]

Purge(table) ==
    [n \in {m \in DOMAIN table : table[m] > Second} |-> table[n]]

\* The INSERT fails with NONCE_REPLAYED.
Replayed(table, sender, id) == <<sender, id>> \in DOMAIN Purge(table)

\* Mutant: the request ID is not recorded.
Unrecorded(table, sender, id, expires) == Purge(table)

Consumed(table, sender, id, expires) ==
    Put(Purge(table), <<sender, id>>, expires)

\* _audit(..., "accepted", ...), in the transaction of the change.
Audit(agent, action) == audit' = [audit EXCEPT ![agent][action] = @ + 1]

-----------------------------------------------------------------------------
(* Mutations.  e is the verified envelope, client the owner of the API key. *)

\* Mutant: the owner is not compared.
publish_by_anyone(e, client) ==
    IF Replayed(nonces, e.sender, e.id) THEN "NONCE_REPLAYED"
    ELSE IF e.sender \in DOMAIN agents /\ ~Resolvable(e.sender)
         THEN "AGENT_REVOKED" ELSE "ok"

publish_refusal(e, client) ==
    LET a == e.sender IN
    IF Replayed(nonces, a, e.id) THEN "NONCE_REPLAYED"
    ELSE IF a \notin DOMAIN agents
         THEN IF e.body.kid \in DOMAIN keyHistory
              THEN "KID_ALREADY_USED" ELSE "ok"
    ELSE IF agents[a].owner # client THEN "OWNER_MISMATCH"
    ELSE IF agents[a].status # "active" THEN "AGENT_REVOKED"
    ELSE IF <<agents[a].kid, agents[a].key>> # <<e.body.kid, e.body.key>>
         THEN "PUBLISH_CANNOT_CHANGE_KEY"
    ELSE "ok"

\* Mutant: key_history gets the status word of agents.
insert_agent_active(e, client) ==
    /\ agents' = Put(agents, e.sender,
                     [owner |-> client, endpoint |-> e.body.endpoint,
                      kid |-> e.body.kid, key |-> e.body.key,
                      status |-> "active"])
    /\ keyHistory' = Put(keyHistory, e.body.kid,
                         [agent |-> e.sender, key |-> e.body.key,
                          status |-> "active"])

insert_agent(e, client) ==
    /\ agents' = Put(agents, e.sender,
                     [owner |-> client, endpoint |-> e.body.endpoint,
                      kid |-> e.body.kid, key |-> e.body.key,
                      status |-> "active"])
    /\ keyHistory' = Put(keyHistory, e.body.kid,
                         [agent |-> e.sender, key |-> e.body.key,
                          status |-> "current"])

update_agent(e) ==
    /\ agents' = [agents EXCEPT ![e.sender].endpoint = e.body.endpoint]
    /\ UNCHANGED keyHistory

publish(e, client) ==
    /\ nonces' = Consumed(nonces, e.sender, e.id, Expiry(e))
    /\ IF e.sender \in DOMAIN agents
       THEN update_agent(e)
       ELSE insert_agent(e, client)
    /\ Audit(e.sender, "publish")

\* Mutant: any kid but the current one may come back.
rotate_to_old_kid(e, client, currentKid) ==
    IF Replayed(nonces, e.sender, e.id) THEN "NONCE_REPLAYED"
    ELSE IF ~Resolvable(e.sender) \/ agents[e.sender].kid # currentKid
         THEN "CURRENT_KEY_MISMATCH" ELSE "ok"

\* Both request IDs expire with the outer envelope, and each _consume purges
\* first, the second one also what the first has just inserted.
rotate_refusal(e, client, currentKid) ==
    LET a == e.sender IN
    IF \/ Replayed(nonces, a, e.id)
       \/ Replayed(Consumed(nonces, a, e.id, Expiry(e)), a, e.body.proof.id)
    THEN "NONCE_REPLAYED"
    ELSE IF a \notin DOMAIN agents THEN "AGENT_NOT_FOUND"
    ELSE IF agents[a].owner # client THEN "OWNER_MISMATCH"
    ELSE IF ~Resolvable(a) \/ agents[a].kid # currentKid
         THEN "CURRENT_KEY_MISMATCH"
    ELSE IF e.body.newKid \in DOMAIN keyHistory THEN "KID_ALREADY_USED"
    ELSE "ok"

rotate_keys(e, currentKid) ==
    keyHistory' = Put([keyHistory EXCEPT ![currentKid].status = "inactive"],
                      e.body.newKid,
                      [agent |-> e.sender, key |-> e.body.newKey,
                       status |-> "current"])

rotate(e, currentKid) ==
    /\ nonces' = Consumed(Consumed(nonces, e.sender, e.id, Expiry(e)),
                          e.sender, e.body.proof.id, Expiry(e))
    /\ rotate_keys(e, currentKid)
    /\ agents' = [agents EXCEPT ![e.sender].kid = e.body.newKid,
                                ![e.sender].key = e.body.newKey]
    /\ Audit(e.sender, "rotate")

revoke_refusal(e, client, currentKid) ==
    LET a == e.sender IN
    IF Replayed(nonces, a, e.id) THEN "NONCE_REPLAYED"
    ELSE IF a \notin DOMAIN agents THEN "AGENT_NOT_FOUND"
    ELSE IF agents[a].owner # client THEN "OWNER_MISMATCH"
    ELSE IF ~Resolvable(a) \/ agents[a].kid # currentKid
         THEN "CURRENT_KEY_MISMATCH"
    ELSE "ok"

revoke(e, currentKid) ==
    /\ nonces' = Consumed(nonces, e.sender, e.id, Expiry(e))
    /\ agents' = [agents EXCEPT ![e.sender].status = "revoked"]
    /\ keyHistory' = [keyHistory EXCEPT ![currentKid].status = "inactive"]
    /\ Audit(e.sender, "revoke")

\* Mutant: only the agents row is changed.
admin_revoke_row(agent) ==
    /\ agents' = [agents EXCEPT ![agent].status = "revoked"]
    /\ UNCHANGED keyHistory
    /\ Audit(agent, "admin.revoke")

\* Mutant: a revoked Agent's keys are forgotten.
admin_revoke_forget(agent) ==
    /\ agents' = [agents EXCEPT ![agent].status = "revoked"]
    /\ keyHistory' = [k \in {j \in DOMAIN keyHistory :
                               keyHistory[j].agent # agent} |-> keyHistory[k]]
    /\ Audit(agent, "admin.revoke")

\* Mutant: the administrator leaves no trace.
admin_revoke_unaudited(agent) ==
    /\ agents' = [agents EXCEPT ![agent].status = "revoked"]
    /\ keyHistory' = [k \in DOMAIN keyHistory |->
                        [keyHistory[k] EXCEPT !.status = "inactive"]]
    /\ UNCHANGED audit

\* AGENT_NOT_FOUND unless the Agent is Resolvable.
admin_revoke_agent(agent) ==
    /\ agents' = [agents EXCEPT ![agent].status = "revoked"]
    /\ keyHistory' = [k \in DOMAIN keyHistory |->
                        IF keyHistory[k].agent = agent
                        THEN [keyHistory[k] EXCEPT !.status = "inactive"]
                        ELSE keyHistory[k]]
    /\ Audit(agent, "admin.revoke")

-----------------------------------------------------------------------------
(* Developers and namespaces (the administrator's operations). *)

create_developer(client, secret) ==
    developers' = Put(developers, client,
                      [secret |-> secret, status |-> "active"])

rotate_developer_key(client, secret) ==
    developers' = [developers EXCEPT ![client].secret = secret]

revoke_developer(client) ==
    developers' = [developers EXCEPT ![client].status = "revoked"]

\* The SELECT of grant_namespace finds an overlapping active scope.
OverlapFound(scope) ==
    \E n \in DOMAIN namespaces : /\ namespaces[n].status = "active"
                                 /\ Overlaps(namespaces[n].scope, scope)

\* namespaces_active_unique rejects the INSERT.
IndexViolated(scope) ==
    \E n \in DOMAIN namespaces : /\ namespaces[n].status = "active"
                                 /\ namespaces[n].scope = scope

insert_namespace(id, client, scope) ==
    namespaces' = Put(namespaces, id, [owner |-> client, scope |-> scope,
                                       status |-> "active"])

revoke_namespace(id) ==
    namespaces' = [namespaces EXCEPT ![id].status = "revoked"]
=============================================================================
