------------------------------ MODULE Registry ------------------------------
(***************************************************************************)
(* The Registry: the service's handlers and the administrator's commands   *)
(* on one database, under one clock.                                       *)
(*                                                                         *)
(* A history starts from a provisioned database: developers and namespaces *)
(* the administrator added before, and no Agent.                           *)
(***************************************************************************)
EXTENDS RegistryService, RegistryAdmin

CONSTANTS Provisioned,          \* the developers table at the start
          ProvisionedScopes,    \* the namespaces table at the start
          MaxTime               \* bound on the clock

ASSUME MaxTimeAssumption == MaxTime \in Nat

ASSUME ProvisionedAssumption ==
    /\ IsTable(Provisioned, Clients, DeveloperRow)
    /\ IsTable(ProvisionedScopes, NamespaceIds, NamespaceRow)

vars == <<now, tables, rejections, handlers, commandLine>>

Init ==
    /\ now = 0
    /\ developers = Provisioned
    /\ namespaces = ProvisionedScopes
    /\ agents = [a \in {} |-> <<>>]
    /\ keyHistory = [k \in {} |-> <<>>]
    /\ nonces = [n \in {} |-> 0]
    /\ audit = [a \in Agents |-> [x \in AuditActions |-> 0]]
    /\ rejections = 0
    /\ ServiceInit
    /\ AdminInit

Tick ==
    /\ now < MaxTime
    /\ now' = now + 1
    /\ UNCHANGED <<tables, rejections, handlers, commandLine>>

ServiceStep ==
    /\ \/ \E r \in Requests : Arrive(r) \/ Step(r)
       \/ Crash
    /\ UNCHANGED commandLine

CommandStep ==
    /\ \E c \in Commands : AdminStep(c)
    /\ UNCHANGED handlers

Next == ServiceStep \/ CommandStep \/ Tick

Spec == Init /\ [][Next]_vars

\* The event loop runs every ready handler, and time passes.  Nothing is
\* assumed of the clients, of the administrator or of crashes.
FairSpec == Spec /\ \A r \in Requests : WF_vars(Step(r) /\ UNCHANGED commandLine)

-----------------------------------------------------------------------------
(* Properties *)

\* Every variable has its type.
TypeOK == StoreTypeOK /\ ServiceTypeOK /\ AdminTypeOK

\* The agents table and key_history agree, although every mutation writes them
\* with separate statements: an active Agent has exactly one current kid, its
\* own, with its own public key, a revoked Agent has none, and no kid belongs
\* to an Agent that was never registered (publish, rotate, revoke and
\* admin_revoke_agent).
KeyHistoryMatchesAgents ==
    /\ \A k \in DOMAIN keyHistory : keyHistory[k].agent \in DOMAIN agents
    /\ \A a \in DOMAIN agents :
          /\ agents[a].kid \in DOMAIN keyHistory
          /\ keyHistory[agents[a].kid].agent = a
          /\ keyHistory[agents[a].kid].key = agents[a].key
          /\ \A k \in DOMAIN keyHistory :
                keyHistory[k].agent = a =>
                   (keyHistory[k].status = "current" <=>
                      /\ k = agents[a].kid
                      /\ agents[a].status = "active")

KidsOf(a) == {k \in DOMAIN keyHistory : keyHistory[k].agent = a}
Committed(a, type) ==
    {r \in committed : env(r).sender = a /\ env(r).type = type}

\* The audit log accounts for the tables: every committed mutation has exactly
\* one accepted row, crashes and lost answers included, and the rows explain
\* which Agents exist, how many keys they have had and whether they are
\* revoked.
AuditExplainsTables ==
    \A a \in Agents :
        /\ audit[a]["publish"] = Cardinality(Committed(a, "registry.publish"))
        /\ audit[a]["rotate"] = Cardinality(Committed(a, "registry.rotate"))
        /\ audit[a]["revoke"] = Cardinality(Committed(a, "registry.revoke"))
        /\ a \in DOMAIN agents <=> audit[a]["publish"] > 0
        /\ Cardinality(KidsOf(a)) = IF a \in DOMAIN agents
                                    THEN 1 + audit[a]["rotate"] ELSE 0
        /\ audit[a]["revoke"] + audit[a]["admin.revoke"] =
              IF a \in DOMAIN agents /\ agents[a].status = "revoked"
              THEN 1 ELSE 0

NoncesOf(r) ==
    {<<env(r).sender, env(r).id>>} \cup
    IF env(r).type = "registry.rotate"
    THEN {<<env(r).sender, env(r).body.proof.id>>} ELSE {}

\* A request ID is in the nonces table exactly when a mutation that committed
\* consumed it, until its envelope expires: a refused or rolled back mutation
\* burns nothing, and no purge loses a request ID that could still be replayed
\* (_consume inside the transaction of publish, rotate and revoke).
NoncesMatchCommits ==
    /\ \A r \in committed :
          Second < Expiry(env(r)) => NoncesOf(r) \subseteq DOMAIN nonces
    /\ \A n \in DOMAIN nonces : \E r \in committed : n \in NoncesOf(r)

\* A request ID commits at most once as long as it is verified before the last
\* instant of its window: a second commit needs verify_envelope to read the
\* clock at exactly issued_at + skew, the one instant it still accepts and
\* has_nonce and _consume already take for expired.
ReplayOnlyAtTheEdge ==
    \A r, s \in committed :
        (r # s /\ NoncesOf(r) \cap NoncesOf(s) # {}) =>
            \E t \in {r, s} : verified[t] = Expiry(env(t))

Guard == INSTANCE ReplayGuard WITH
    Uses <- Requests, Places <- {"registry"}, time <- Second, durable <- TRUE,
    used <- [r \in committed |-> [place |-> "registry", ids |-> NoncesOf(r),
                                  until |-> Expiry(env(r))]]

\* The nonces table is a durable replay guard for mutations: a commit spends
\* all of its IDs, those of a rotation's proof too, and nothing commits with
\* one of them in the seconds before they expire, whoever signed it, whatever
\* was rolled back, lost in a crash or purged in between.
ImplementsGuard == Guard!Spec

\* What a handler has established about its envelope, and how far it still
\* holds in the tables: past ReadBody the payload is well formed; the record it
\* verifies against is its own claim (a first publish) or a row of key_history
\* that is still there with the same key; past Verify the envelope is signed by
\* the key of that record, and a rotation's proof by the new key.
Grounded(r) ==
    /\ pc[r] \in OnLoop =>
          /\ env(r) \notin {NotJson, NotEnvelope}
          /\ payload_refusal(env(r)) = "ok"
    /\ pc[r] \in {"verify", "commit"} =>
          /\ seen[r] \in Records
          /\ seen[r].agent = env(r).sender
          /\ \/ /\ seen[r].kid \in DOMAIN keyHistory
                /\ keyHistory[seen[r].kid].agent = seen[r].agent
                /\ keyHistory[seen[r].kid].key = seen[r].key
             \/ /\ env(r).type = "registry.publish"
                /\ seen[r] = claimed(env(r))
    /\ pc[r] = "commit" =>
          /\ env(r).kid = seen[r].kid
          /\ env(r).signer = seen[r].key
          /\ env(r).type = "registry.rotate" =>
                /\ env(r).body.proof.signer = env(r).body.newKey
                /\ env(r).body.proof.replyTo = env(r).id
    /\ r \in committed => pc[r] \in {"readback", "done"}

HandlersGrounded == \A r \in Requests : Grounded(r)

\* What r commits is signed by the key the agents row held at that moment, or
\* for a first publish by the key it registers; the row stays with the
\* developer of r, is still active when r comes, and a rotation carries a
\* proof that the new key signed for this very rotation.
Authentic(r) ==
    LET e == env(r)
        a == e.sender
    IN  /\ e.signer = IF a \in DOMAIN agents THEN agents[a].key
                                             ELSE agents'[a].key
        /\ a \in DOMAIN agents => Resolvable(a)
        /\ agents'[a].owner = call[r].client
        /\ e.type = "registry.rotate" =>
              /\ e.body.proof.signer = agents'[a].key
              /\ e.body.proof.replyTo = e.id

\* The record a handler verified against may be stale when it commits; what
\* the transaction checks again is enough to make every commit authentic.
AuthenticCommit == [][\A r \in committed' \ committed : Authentic(r)]_vars

\* An Agent belongs to a developer who was granted a namespace around it, be
\* the grant revoked since: nobody registers outside of what the administrator
\* gave him, and no transfer of a namespace moves its Agents (has_namespace
\* before publish, OWNER_MISMATCH inside).
OwnerWasGranted ==
    \A a \in DOMAIN agents : \E n \in DOMAIN namespaces :
        /\ namespaces[n].owner = agents[a].owner
        /\ Matches(a, namespaces[n].scope)

Overlapping(s, t) ==
    \E p \in {s, t} : LET below == [host |-> p.domain, path |-> p.prefix]
                      IN  Matches(below, s) /\ Matches(below, t)

\* "Active namespaces must not overlap" (docs/REGISTRY_OPERATIONS.md:76): no
\* two of them share an Agent ID.
ActiveScopesDisjoint ==
    \A m, n \in ActiveScopes :
        m # n => ~Overlapping(namespaces[m].scope, namespaces[n].scope)

\* The only ways around it: one of two overlapping active scopes is the root,
\* or two commands ran at the same time and neither SELECT could see the other's
\* row; even so the unique index never lets the same scope be active twice.
OverlapNeedsARace ==
    \A c, d \in Commands :
        (/\ c # d /\ c.id # d.id
         /\ {c.id, d.id} \subseteq ActiveScopes
         /\ namespaces[c.id].scope = c.scope /\ namespaces[d.id].scope = d.scope
         /\ Overlapping(c.scope, d.scope)) =>
            /\ c.scope # d.scope
            /\ \/ Root \in {c.scope.prefix, d.scope.prefix}
               \/ c.id \notin looked[d] /\ d.id \notin looked[c]

Generates(c) ==
    /\ c.op \in {"developer.add", "developer.rotate-key"}
    /\ c.client \in DOMAIN developers
    /\ developers[c.client].secret = c.secret

\* "The API key is shown once" (docs/REGISTRY_OPERATIONS.md:76).  A developer
\* has a key nobody has seen only while the command that made it is under way,
\* after it was killed, or after a developer.add failed at its namespace; and
\* in the last case that namespace was not granted, by whatever commands ran at
\* the same time.  A developer.add killed between its INSERT and its print is
\* the exception: it leaves a namespace to a key nobody knows.
UnseenKeyExplained ==
    \A c \in Commands :
        Generates(c) /\ c.secret \notin shown =>
           \/ stage[c] \in {"select", "insert", "print", "killed"}
           \/ /\ c.op = "developer.add" /\ c.scope # NoScope
              /\ stage[c] = "failed" /\ c.id \notin DOMAIN namespaces

Ledger == INSTANCE AgentLedger WITH
    ledger <- [a \in DOMAIN agents |->
                 [owner |-> agents[a].owner, kid |-> agents[a].kid,
                  key |-> agents[a].key,
                  active |-> agents[a].status = "active"]],
    spent <- [k \in DOMAIN keyHistory |->
                 [agent |-> keyHistory[k].agent, key |-> keyHistory[k].key]]

\* The tables implement the ledger of identities, under any interleaving of
\* handlers, administrator, clock and crashes.
ImplementsLedger == Ledger!Spec

\* Every request whose developer was authenticated is answered or lost in a
\* crash; none waits for ever for the event loop.
EveryRequestAnswered ==
    \A r \in Requests : pc[r] = "body" ~> pc[r] = "done"
=============================================================================
