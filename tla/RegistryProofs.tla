--------------------------- MODULE RegistryProofs ---------------------------
(***************************************************************************)
(* Theorems about Registry, for every set of developers, Agents, keys,     *)
(* requests, deliveries and administrator commands.                        *)
(***************************************************************************)
EXTENDS Registry, TLAPS

-----------------------------------------------------------------------------
(* Tables *)

\* Inserting or replacing a row of the right kind keeps a table a table.
LEMMA PutIsTable ==
    ASSUME NEW table, NEW K, NEW R, IsTable(table, K, R),
           NEW key \in K, NEW row \in R
    PROVE  IsTable(Put(table, key, row), K, R)
BY DEF IsTable, Put

-----------------------------------------------------------------------------
(* Type correctness *)

\* The locals of the handlers that Check and Refuse touch.
LocalsOK ==
    /\ pc \in [Requests -> Stages]
    /\ seen \in [Requests -> Records \cup {NoRecord}]
    /\ DOMAIN answer = Requests
    /\ rejections \in Nat

\* Handlers other than that of r stay where they are and keep their locals.
OthersStay(r) ==
    \A q \in Requests \ {r} : pc'[q] = pc[q] /\ seen'[q] = seen[q]

\* A refusal ends the handler, writes one rejected row and nothing else.
LEMMA RefuseEffect ==
    ASSUME LocalsOK, NEW r \in Requests, NEW code, Refuse(r, code)
    PROVE  /\ LocalsOK'
           /\ OthersStay(r)
           /\ pc'[r] = "done"
           /\ UNCHANGED <<tables, verified, committed>>
BY DEF LocalsOK, OthersStay, Refuse, Answer, Goto, Stages

\* A check refuses, or goes on to the next stage and changes nothing else.
LEMMA CheckEffect ==
    ASSUME LocalsOK, NEW r \in Requests, NEW code, NEW next \in Stages, Check(r, code, next)
    PROVE  /\ LocalsOK'
           /\ OthersStay(r)
           /\ \/ code = "ok" /\ pc'[r] = next /\ seen' = seen
              \/ code # "ok" /\ pc'[r] = "done"
           /\ UNCHANGED <<tables, verified, committed>>
<1>1. CASE code = "ok"
  BY <1>1 DEF LocalsOK, OthersStay, Check, Goto
<1>2. CASE code # "ok"
  BY <1>2, RefuseEffect DEF Check
<1> QED BY <1>1, <1>2

\* Type correctness covers those locals.
LEMMA LocalsTyped == ASSUME TypeOK PROVE LocalsOK
BY DEF TypeOK, StoreTypeOK, ServiceTypeOK, LocalsOK

\* What an envelope that passed ReadBody carries.
LEMMA AcceptedEnvelope ==
    ASSUME TypeOK, HandlersGrounded, NEW r \in Requests, pc[r] \in OnLoop
    PROVE  LET e == env(r) IN
           /\ call[r].client \in Clients
           /\ e.sender \in Agents
           /\ e.issued \in Nat
           /\ e.type \in {"registry.publish", "registry.rotate",
                          "registry.revoke"}
           /\ e.type = "registry.publish" =>
                 /\ e.body \in PublishBody
                 /\ e.body.agent = e.sender
                 /\ e.body.kid = e.kid
                 /\ claimed(e) \in Records
           /\ e.type = "registry.rotate" =>
                 e.body.newKid \in Kids /\ e.body.newKey \in Keys
<1>1. /\ call[r] \in Deliveries
      /\ call[r].client \in Clients
      /\ WellTyped(env(r))
      /\ payload_refusal(env(r)) = "ok"
  BY DeliveriesAssumption DEF TypeOK, ServiceTypeOK, HandlersGrounded, Grounded, OnLoop, env
<1>2. /\ env(r).type \in {"registry.publish", "registry.rotate",
                          "registry.revoke"}
      /\ env(r).body # BadPayload
      /\ env(r).type = "registry.publish" => env(r).body.kid = env(r).kid
      /\ env(r).sender = env(r).body.agent
  BY <1>1 DEF payload_refusal
<1> QED
  BY <1>1, <1>2 DEF WellTyped, PublishBody, claimed, Records

\* A resolvable Agent's record is a record.
LEMMA ResolveTyped ==
    ASSUME TypeOK, NEW a, Resolvable(a)
    PROVE  resolve(a) \in Records
BY DEF TypeOK, StoreTypeOK, IsTable, AgentRow, Resolvable, resolve, Records

\* Every step of a handler keeps the locals of the handlers typed.
LEMMA HandlerTypes ==
    ASSUME TypeOK, HandlersGrounded, ServiceStep
    PROVE  ServiceTypeOK' /\ rejections' \in Nat
<1> USE LocalsTyped
<1> DEFINE Goal == ServiceTypeOK' /\ rejections' \in Nat
<1>0. {"body", "namespace", "resolve", "verify", "commit", "readback", "done"}
        \subseteq Stages
  BY DEF Stages, OnLoop
<1>1. ASSUME NEW r \in Requests, Arrive(r) PROVE Goal
  <2>1. PICK d \in Deliveries : /\ call' = [call EXCEPT ![r] = d]
                                /\ Check(r, _authenticate(d), "body")
    BY <1>1 DEF Arrive
  <2>2. /\ LocalsOK' /\ OthersStay(r)
        /\ UNCHANGED <<verified, committed>>
    BY <2>1, <1>0, CheckEffect
  <2> QED
    BY <2>1, <2>2 DEF TypeOK, ServiceTypeOK, LocalsOK, OthersStay
<1>2. ASSUME NEW r \in Requests, pc[r] # "idle", LocalsOK', OthersStay(r),
             call' = call, verified' \in [Requests -> Nat],
             committed' \subseteq Requests
      PROVE  Goal
  BY <1>2 DEF TypeOK, ServiceTypeOK, LocalsOK, OthersStay
<1>3. ASSUME NEW r \in Requests, ReadBody(r) PROVE Goal
  <2>1. CASE env(r) # NotJson
    BY <1>3, <2>1, <1>0, <1>2, CheckEffect DEF ReadBody, TypeOK, ServiceTypeOK
  <2>2. CASE env(r) = NotJson
    <3>1. LocalsOK' /\ OthersStay(r)
      BY <1>3, <2>2, <1>0 DEF ReadBody, Answer, Goto, LocalsOK, OthersStay
    <3> QED
      BY <1>3, <2>2, <3>1, <1>2 DEF ReadBody, TypeOK, ServiceTypeOK
  <2> QED BY <2>1, <2>2
<1>4. ASSUME NEW r \in Requests, CheckNamespace(r) PROVE Goal
  BY <1>4, <1>0, <1>2, CheckEffect DEF CheckNamespace, TypeOK, ServiceTypeOK
<1>5. ASSUME NEW r \in Requests, Resolve(r) PROVE Goal
  <2>1. CASE Resolvable(env(r).sender) \/ env(r).type = "registry.publish"
    <3>1. (IF Resolvable(env(r).sender) THEN resolve(env(r).sender)
                                        ELSE claimed(env(r))) \in Records
      BY <1>5, <2>1, ResolveTyped, AcceptedEnvelope DEF Resolve, OnLoop
    <3>2. LocalsOK' /\ OthersStay(r)
      BY <1>5, <2>1, <3>1, <1>0 DEF Resolve, Goto, LocalsOK, OthersStay
    <3> QED
      BY <1>5, <2>1, <3>2, <1>2 DEF Resolve, TypeOK, ServiceTypeOK
  <2>2. CASE ~(Resolvable(env(r).sender) \/ env(r).type = "registry.publish")
    BY <1>5, <2>2, <1>0, <1>2, RefuseEffect DEF Resolve, TypeOK, ServiceTypeOK
  <2> QED BY <2>1, <2>2
<1>6. ASSUME NEW r \in Requests, Verify(r) PROVE Goal
  <2>1. CASE verify_refusal(env(r), seen[r]) = "ok"
    <3>1. /\ LocalsOK' /\ OthersStay(r)
          /\ verified' \in [Requests -> Nat]
      BY <1>6, <2>1, <1>0
      DEF Verify, Goto, LocalsOK, OthersStay, TypeOK, ServiceTypeOK, StoreTypeOK
    <3> QED
      BY <1>6, <2>1, <3>1, <1>2 DEF Verify, TypeOK, ServiceTypeOK
  <2>2. CASE verify_refusal(env(r), seen[r]) # "ok"
    BY <1>6, <2>2, <1>0, <1>2, RefuseEffect DEF Verify, TypeOK, ServiceTypeOK
  <2> QED BY <2>1, <2>2
<1>7. ASSUME NEW r \in Requests, Commit(r) PROVE Goal
  <2>1. LocalsOK' /\ OthersStay(r)
    BY <1>7, <1>0 DEF Commit, Answer, Goto, LocalsOK, OthersStay
  <2> QED
    BY <1>7, <2>1, <1>2 DEF Commit, TypeOK, ServiceTypeOK
<1>8. ASSUME NEW r \in Requests, RollBack(r) PROVE Goal
  BY <1>8, <1>0, <1>2, RefuseEffect DEF RollBack, TypeOK, ServiceTypeOK
<1>9. ASSUME NEW r \in Requests, LockTimeout(r) \/ ReadBack(r) PROVE Goal
  <2>1. LocalsOK' /\ OthersStay(r)
    BY <1>9, <1>0
    DEF LockTimeout, ReadBack, Answer, Goto, LocalsOK, OthersStay
  <2> QED
    BY <1>9, <2>1, <1>2 DEF LockTimeout, ReadBack, TypeOK, ServiceTypeOK
<1>10. ASSUME Crash PROVE Goal
  <2>1. /\ pc' \in [Requests -> Stages]
        /\ \A r \in Requests : pc'[r] # "idle" => pc[r] # "idle"
    BY <1>10, <1>0 DEF Crash, InFlight, LocalsOK, OnLoop
  <2>2. /\ seen' \in [Requests -> Records \cup {NoRecord}]
        /\ DOMAIN answer' = Requests
        /\ UNCHANGED <<call, verified, committed, rejections>>
    BY <1>10 DEF Crash
  <2> QED
    BY <2>1, <2>2 DEF LocalsOK, TypeOK, ServiceTypeOK
<1> QED
  BY <1>1, <1>3, <1>4, <1>5, <1>6, <1>7, <1>8, <1>9, <1>10 DEF ServiceStep, Step

\* Consuming a request ID keeps the expiry times of the nonces typed.
LEMMA ConsumedTyped ==
    ASSUME NEW table, \A n \in DOMAIN table : table[n] \in Int,
           NEW sender, NEW id, NEW expires \in Int
    PROVE  LET t == Consumed(table, sender, id, expires)
           IN  \A n \in DOMAIN t : t[n] \in Int
<1>1. \A n \in DOMAIN Purge(table) : Purge(table)[n] \in Int
  BY DEF Purge
<1> QED
  BY <1>1 DEF Consumed, Put

\* Counting one more accepted row keeps the audit table typed.
LEMMA AuditTyped ==
    ASSUME audit \in [Agents -> [AuditActions -> Nat]],
           NEW agent \in Agents, NEW action \in AuditActions,
           Audit(agent, action)
    PROVE  audit' \in [Agents -> [AuditActions -> Nat]]
BY DEF Audit

\* The transaction of a mutation keeps the tables typed.
LEMMA CommitTypes ==
    ASSUME TypeOK, HandlersGrounded, NEW r \in Requests, Commit(r)
    PROVE  StoreTypeOK'
<1> DEFINE e == env(r)
<1>1. /\ call[r].client \in Clients
      /\ e.sender \in Agents
      /\ Expiry(e) \in Int
      /\ e.type = "registry.publish" =>
            /\ e.body.kid \in Kids
            /\ e.body.key \in Keys
            /\ e.body.endpoint \in Endpoints
      /\ e.type = "registry.rotate" =>
            e.body.newKid \in Kids /\ e.body.newKey \in Keys
  BY AcceptedEnvelope, SkewAssumption DEF Commit, OnLoop, PublishBody, Expiry
<1>2. /\ now' \in Nat
      /\ IsTable(developers, Clients, DeveloperRow)'
      /\ IsTable(namespaces, NamespaceIds, NamespaceRow)'
      /\ rejections' \in Nat
  BY DEF Commit, TypeOK, StoreTypeOK, IsTable
<1>3. transaction_refusal(r) = "ok" /\ transaction(r)
  BY DEF Commit
<1>4. CASE e.type = "registry.publish"
  <2>1. publish(e, call[r].client)
    BY <1>3, <1>4 DEF transaction
  <2>2. audit' \in [Agents -> [AuditActions -> Nat]]
    BY <1>1, <2>1, AuditTyped DEF publish, AuditActions, TypeOK, StoreTypeOK
  <2>3. \A n \in DOMAIN nonces' : nonces'[n] \in Int
    BY <1>1, <2>1, ConsumedTyped DEF publish, TypeOK, StoreTypeOK
  <2>4. /\ IsTable(agents, Agents, AgentRow)'
        /\ IsTable(keyHistory, Kids, KeyRow)'
    <3>1. CASE e.sender \in DOMAIN agents
      <4>1. update_agent(e)
        BY <2>1, <3>1 DEF publish
      <4>2. IsTable(agents, Agents, AgentRow)'
        BY <1>1, <1>4, <4>1
        DEF update_agent, TypeOK, StoreTypeOK, IsTable, AgentRow
      <4>3. IsTable(keyHistory, Kids, KeyRow)'
        BY <4>1 DEF update_agent, TypeOK, StoreTypeOK, IsTable
      <4> QED BY <4>2, <4>3
    <3>2. CASE e.sender \notin DOMAIN agents
      <4>1. insert_agent(e, call[r].client)
        BY <2>1, <3>2 DEF publish
      <4> DEFINE agentRow == [owner |-> call[r].client,
                              endpoint |-> e.body.endpoint,
                              kid |-> e.body.kid, key |-> e.body.key,
                              status |-> "active"]
                 keyRow == [agent |-> e.sender, key |-> e.body.key,
                            status |-> "current"]
      <4>2. agentRow \in AgentRow /\ keyRow \in KeyRow
        BY <1>1, <1>4 DEF AgentRow, KeyRow
      <4>3. /\ agents' = Put(agents, e.sender, agentRow)
            /\ keyHistory' = Put(keyHistory, e.body.kid, keyRow)
        BY <4>1 DEF insert_agent
      <4>4. /\ IsTable(Put(agents, e.sender, agentRow), Agents, AgentRow)
            /\ IsTable(Put(keyHistory, e.body.kid, keyRow), Kids, KeyRow)
        <5> HIDE DEF agentRow, keyRow
        <5> QED BY <1>1, <1>4, <4>2, PutIsTable DEF TypeOK, StoreTypeOK
      <4> QED BY <4>3, <4>4 DEF IsTable
    <3> QED BY <3>1, <3>2
  <2> QED
    BY <1>2, <2>2, <2>3, <2>4 DEF StoreTypeOK
<1>5. CASE e.type = "registry.rotate"
  <2>1. rotate(e, seen[r].kid) /\ e.sender \in DOMAIN agents
    BY <1>3, <1>5 DEF transaction, transaction_refusal, rotate_refusal
  <2>2. audit' \in [Agents -> [AuditActions -> Nat]]
    BY <1>1, <2>1, AuditTyped DEF rotate, AuditActions, TypeOK, StoreTypeOK
  <2>3. \A n \in DOMAIN nonces' : nonces'[n] \in Int
    BY <1>1, <2>1, ConsumedTyped DEF rotate, TypeOK, StoreTypeOK
  <2>4. IsTable(agents, Agents, AgentRow)'
    BY <1>1, <1>5, <2>1
    DEF rotate, TypeOK, StoreTypeOK, IsTable, AgentRow
  <2>5. IsTable(keyHistory, Kids, KeyRow)'
    <3> DEFINE old == [keyHistory EXCEPT ![seen[r].kid].status = "inactive"]
               row == [agent |-> e.sender, key |-> e.body.newKey,
                       status |-> "current"]
    <3>1. IsTable(old, Kids, KeyRow)
      BY DEF TypeOK, StoreTypeOK, IsTable, KeyRow
    <3>2. row \in KeyRow
      BY <1>1, <1>5 DEF KeyRow
    <3>3. keyHistory' = Put(old, e.body.newKid, row)
      BY <2>1 DEF rotate, rotate_keys
    <3>4. IsTable(Put(old, e.body.newKid, row), Kids, KeyRow)
      BY <1>1, <1>5, <3>1, <3>2, PutIsTable
    <3> QED BY <3>3, <3>4 DEF IsTable
  <2> QED
    BY <1>2, <2>2, <2>3, <2>4, <2>5 DEF StoreTypeOK
<1>6. CASE e.type = "registry.revoke"
  <2>1. revoke(e, seen[r].kid) /\ e.sender \in DOMAIN agents
    BY <1>3, <1>6 DEF transaction, transaction_refusal, revoke_refusal
  <2>2. audit' \in [Agents -> [AuditActions -> Nat]]
    BY <1>1, <2>1, AuditTyped DEF revoke, AuditActions, TypeOK, StoreTypeOK
  <2>3. \A n \in DOMAIN nonces' : nonces'[n] \in Int
    BY <1>1, <2>1, ConsumedTyped DEF revoke, TypeOK, StoreTypeOK
  <2>4. IsTable(agents, Agents, AgentRow)'
    BY <1>1, <2>1 DEF revoke, TypeOK, StoreTypeOK, IsTable, AgentRow
  <2>5. IsTable(keyHistory, Kids, KeyRow)'
    BY <2>1 DEF revoke, TypeOK, StoreTypeOK, IsTable, KeyRow
  <2> QED
    BY <1>2, <2>2, <2>3, <2>4, <2>5 DEF StoreTypeOK
<1> QED
  BY <1>3, <1>4, <1>5, <1>6 DEF transaction

\* A command of the administrator keeps its own state and the tables typed.
LEMMA CommandTypes ==
    ASSUME TypeOK, CommandStep
    PROVE  StoreTypeOK' /\ AdminTypeOK'
<1> DEFINE Goal == StoreTypeOK' /\ AdminTypeOK'
<1>1. PICK c \in Commands : AdminStep(c) /\ UNCHANGED handlers
  BY DEF CommandStep
<1>2. /\ c.client \in Clients /\ c.secret \in Secrets
      /\ \/ c.scope = NoScope /\ c.op # "namespace.grant"
         \/ c.scope \in Scopes /\ c.id \in NamespaceIds
      /\ c.op = "agent.revoke" => c.agent \in Agents
  BY CommandsAssumption
<1>3. now' \in Nat /\ rejections' \in Nat
  BY <1>1 DEF AdminStep, TypeOK, StoreTypeOK
<1>4. ASSUME NEW s \in Ended \cup {"select", "insert", "print"}, Enter(c, s),
             s \in {"select", "insert"} => c.scope \in Scopes /\ c.id \in NamespaceIds
      PROVE  AdminTypeOK'
  <2>1. ActiveScopes \in SUBSET NamespaceIds
    BY DEF ActiveScopes, TypeOK, StoreTypeOK, IsTable
  <2>2. looked' \in [Commands -> SUBSET NamespaceIds]
    BY <1>4, <2>1 DEF Enter, TypeOK, AdminTypeOK
  <2> QED
    BY <1>4, <2>2 DEF Enter, TypeOK, AdminTypeOK, Ended
<1>5. ASSUME UNCHANGED tables PROVE StoreTypeOK'
  BY <1>3, <1>5 DEF tables, TypeOK, StoreTypeOK, IsTable
<1>6. ASSUME Fail(c) PROVE Goal
  BY <1>4, <1>5, <1>6 DEF Fail, Ended
<1>7. CASE DeveloperAdd(c) \/ DeveloperRotateKey(c) \/ DeveloperRevoke(c)
  <2>1. CASE Fail(c) BY <1>6, <2>1
  <2>2. CASE ~Fail(c)
    <3>1. AdminTypeOK'
      <4>1. CASE DeveloperAdd(c)
        BY <1>2, <1>4, <2>2, <4>1 DEF DeveloperAdd
      <4>2. CASE DeveloperRotateKey(c) \/ DeveloperRevoke(c)
        BY <1>4, <2>2, <4>2 DEF DeveloperRotateKey, DeveloperRevoke, Ended
      <4> QED BY <1>7, <4>1, <4>2
    <3>2. UNCHANGED <<namespaces, agents, keyHistory, nonces, audit>>
      BY <1>7, <2>2 DEF DeveloperAdd, DeveloperRotateKey, DeveloperRevoke
    <3>3. IsTable(developers, Clients, DeveloperRow)'
      <4>1. CASE DeveloperAdd(c)
        <5> DEFINE row == [secret |-> c.secret, status |-> "active"]
        <5>1. developers' = Put(developers, c.client, row)
          BY <2>2, <4>1 DEF DeveloperAdd, create_developer
        <5>2. row \in DeveloperRow
          BY <1>2 DEF DeveloperRow
        <5>3. IsTable(Put(developers, c.client, row), Clients, DeveloperRow)
          BY <1>2, <5>2, PutIsTable DEF TypeOK, StoreTypeOK
        <5> QED BY <5>1, <5>3 DEF IsTable
      <4>2. CASE DeveloperRotateKey(c)
        BY <1>2, <2>2, <4>2 DEF DeveloperRotateKey, rotate_developer_key,
           get_developer_active, TypeOK, StoreTypeOK, IsTable, DeveloperRow
      <4>3. CASE DeveloperRevoke(c)
        BY <2>2, <4>3 DEF DeveloperRevoke, revoke_developer,
           get_developer_active, TypeOK, StoreTypeOK, IsTable, DeveloperRow
      <4> QED BY <1>7, <4>1, <4>2, <4>3
    <3> QED
      BY <1>3, <3>1, <3>2, <3>3 DEF TypeOK, StoreTypeOK, IsTable
  <2> QED BY <2>1, <2>2
<1>8. CASE NamespaceGrant(c) \/ GrantSelect(c)
  <2>1. CASE Fail(c) BY <1>6, <2>1
  <2>2. CASE ~Fail(c)
    <3>1. UNCHANGED tables
      BY <1>8, <2>2 DEF NamespaceGrant, GrantSelect
    <3>2. c.scope \in Scopes /\ c.id \in NamespaceIds
      BY <1>2, <1>8 DEF NamespaceGrant, GrantSelect, Begin, TypeOK, AdminTypeOK
    <3>3. AdminTypeOK'
      BY <1>4, <1>8, <2>2, <3>2 DEF NamespaceGrant, GrantSelect
    <3> QED BY <1>5, <3>1, <3>3
  <2> QED BY <2>1, <2>2
<1>9. CASE GrantInsert(c) \/ NamespaceRevoke(c)
  <2>1. CASE Fail(c) BY <1>6, <2>1
  <2>2. CASE ~Fail(c)
    <3>1. AdminTypeOK'
      BY <1>4, <1>9, <2>2 DEF GrantInsert, NamespaceRevoke, Ended
    <3>2. UNCHANGED <<developers, agents, keyHistory, nonces, audit>>
      BY <1>9, <2>2 DEF GrantInsert, NamespaceRevoke
    <3>3. IsTable(namespaces, NamespaceIds, NamespaceRow)'
      <4>1. CASE GrantInsert(c)
        <5> DEFINE row == [owner |-> c.client, scope |-> c.scope,
                           status |-> "active"]
        <5>1. namespaces' = Put(namespaces, c.id, row)
          BY <2>2, <4>1 DEF GrantInsert, insert_namespace
        <5>2. row \in NamespaceRow /\ c.id \in NamespaceIds
          BY <1>2, <4>1 DEF GrantInsert, NamespaceRow, TypeOK, AdminTypeOK
        <5>3. IsTable(Put(namespaces, c.id, row), NamespaceIds, NamespaceRow)
          BY <5>2, PutIsTable DEF TypeOK, StoreTypeOK
        <5> QED BY <5>1, <5>3 DEF IsTable
      <4>2. CASE NamespaceRevoke(c)
        BY <2>2, <4>2 DEF NamespaceRevoke, revoke_namespace, TypeOK,
           StoreTypeOK, IsTable, NamespaceRow
      <4> QED BY <1>9, <4>1, <4>2
    <3> QED
      BY <1>3, <3>1, <3>2, <3>3 DEF TypeOK, StoreTypeOK, IsTable
  <2> QED BY <2>1, <2>2
<1>10. CASE AgentRevoke(c)
  <2>1. CASE Fail(c) BY <1>6, <2>1
  <2>2. CASE ~Fail(c)
    <3>1. admin_revoke_agent(c.agent) /\ c.agent \in DOMAIN agents
      BY <1>10, <2>2 DEF AgentRevoke, Resolvable
    <3>2. c.agent \in Agents
      BY <1>2, <1>10 DEF AgentRevoke, Begin
    <3>3. audit' \in [Agents -> [AuditActions -> Nat]]
      BY <3>1, <3>2, AuditTyped
      DEF admin_revoke_agent, AuditActions, TypeOK, StoreTypeOK
    <3>4. IsTable(agents, Agents, AgentRow)'
      BY <3>1 DEF admin_revoke_agent, TypeOK, StoreTypeOK, IsTable, AgentRow
    <3>5. IsTable(keyHistory, Kids, KeyRow)'
      BY <3>1 DEF admin_revoke_agent, TypeOK, StoreTypeOK, IsTable, KeyRow
    <3>6. UNCHANGED <<developers, namespaces, nonces>>
      BY <1>10, <2>2 DEF AgentRevoke
    <3>7. AdminTypeOK'
      BY <1>4, <1>10, <2>2 DEF AgentRevoke, Ended
    <3> QED
      BY <1>3, <3>3, <3>4, <3>5, <3>6, <3>7 DEF TypeOK, StoreTypeOK, IsTable
  <2> QED BY <2>1, <2>2
<1>11. CASE PrintResult(c)
  BY <1>2, <1>5, <1>11 DEF PrintResult, TypeOK, AdminTypeOK, Ended
<1>12. CASE Kill(c)
  BY <1>4, <1>5, <1>12 DEF Kill, Ended
<1> QED
  BY <1>1, <1>7, <1>8, <1>9, <1>10, <1>11, <1>12 DEF AdminStep, Advance

\* Only Commit writes the tables of a mutation.
LEMMA HandlerFrame ==
    ASSUME NEW r \in Requests, Arrive(r) \/ Step(r), ~Commit(r)
    PROVE  UNCHANGED <<now, tables, committed>>
<1>1. ASSUME NEW code, NEW next, Check(r, code, next)
      PROVE  UNCHANGED <<tables, committed>>
  BY <1>1 DEF Check, Refuse
<1>2. CASE Arrive(r)
  BY <1>1, <1>2 DEF Arrive
<1>3. CASE ReadBody(r)
  BY <1>1, <1>3 DEF ReadBody
<1>4. CASE CheckNamespace(r)
  BY <1>1, <1>4 DEF CheckNamespace
<1>5. CASE Resolve(r) \/ Verify(r)
  BY <1>5 DEF Resolve, Verify, Refuse
<1>6. CASE RollBack(r) \/ LockTimeout(r) \/ ReadBack(r)
  BY <1>6 DEF RollBack, LockTimeout, ReadBack, Refuse
<1> QED
  BY <1>2, <1>3, <1>4, <1>5, <1>6 DEF Step

\* Types are preserved by every step.
LEMMA TypeStep ==
    ASSUME TypeOK, HandlersGrounded, [Next]_vars
    PROVE  TypeOK'
<1>1. CASE ServiceStep
  <2>1. AdminTypeOK'
    BY <1>1 DEF ServiceStep, commandLine, TypeOK, AdminTypeOK
  <2>2. ServiceTypeOK' /\ rejections' \in Nat
    BY <1>1, HandlerTypes
  <2>3. CASE \E r \in Requests : Commit(r)
    BY <2>1, <2>2, <2>3, CommitTypes DEF TypeOK
  <2>4. CASE ~\E r \in Requests : Commit(r)
    <3>1. UNCHANGED <<now, tables>>
      BY <1>1, <2>4, HandlerFrame DEF ServiceStep, Crash
    <3>2. StoreTypeOK'
      BY <2>2, <3>1 DEF tables, TypeOK, StoreTypeOK, IsTable
    <3> QED BY <2>1, <2>2, <3>2 DEF TypeOK
  <2> QED BY <2>3, <2>4
<1>2. CASE CommandStep
  <2>1. ServiceTypeOK'
    BY <1>2 DEF CommandStep, handlers, TypeOK, ServiceTypeOK
  <2> QED BY <1>2, <2>1, CommandTypes DEF TypeOK
<1>3. CASE Tick \/ UNCHANGED vars
  <2>1. UNCHANGED <<tables, rejections, handlers, commandLine>>
    BY <1>3 DEF Tick, vars
  <2>2. now' \in Nat
    BY <1>3 DEF Tick, vars, TypeOK, StoreTypeOK
  <2>3. StoreTypeOK'
    BY <2>1, <2>2 DEF tables, TypeOK, StoreTypeOK, IsTable
  <2>4. ServiceTypeOK' /\ AdminTypeOK'
    BY <2>1 DEF handlers, commandLine, TypeOK, ServiceTypeOK, AdminTypeOK
  <2> QED BY <2>3, <2>4 DEF TypeOK
<1> QED BY <1>1, <1>2, <1>3 DEF Next

\* The initial database and the initial locals are typed.
LEMMA TypeInit == ASSUME Init PROVE TypeOK
<1>1. StoreTypeOK
  BY ProvisionedAssumption DEF Init, StoreTypeOK, IsTable
<1>2. ServiceTypeOK
  BY DEF Init, ServiceInit, ServiceTypeOK, Stages
<1>3. AdminTypeOK
  BY DEF Init, AdminInit, AdminTypeOK
<1> QED BY <1>1, <1>2, <1>3 DEF TypeOK

-----------------------------------------------------------------------------
(* Identities: agents and key_history *)

\* How a step changes what identities are made of: not at all, by the
\* transaction of a mutation, or by the administrator's agent revoke.
LEMMA IdentityStep ==
    ASSUME [Next]_vars
    PROVE  \/ UNCHANGED <<agents, keyHistory>>
           \/ \E r \in Requests : Commit(r)
           \/ \E a : Resolvable(a) /\ admin_revoke_agent(a)
<1>1. CASE ServiceStep
  BY <1>1, HandlerFrame DEF ServiceStep, Crash, tables
<1>2. CASE CommandStep
  <2>1. PICK c \in Commands : AdminStep(c)
    BY <1>2 DEF CommandStep
  <2>2. CASE AgentRevoke(c)
    BY <2>2 DEF AgentRevoke, Fail, tables
  <2>3. CASE ~AgentRevoke(c)
    BY <2>1, <2>3 DEF AdminStep, Advance, DeveloperAdd, DeveloperRotateKey,
       DeveloperRevoke, NamespaceGrant, GrantSelect, GrantInsert,
       NamespaceRevoke, PrintResult, Kill, Fail, tables
  <2> QED BY <2>2, <2>3
<1>3. CASE Tick \/ UNCHANGED vars
  BY <1>3 DEF Tick, vars, tables
<1> QED BY <1>1, <1>2, <1>3 DEF Next

\* A committed mutation is one of four changes of the identity tables.
LEMMA CommitCases ==
    ASSUME TypeOK, HandlersGrounded, NEW r \in Requests, Commit(r)
    PROVE  LET e == env(r)
               a == env(r).sender
           IN
           \/ /\ a \notin DOMAIN agents
              /\ e.body.kid \notin DOMAIN keyHistory
              /\ e.type = "registry.publish"
              /\ insert_agent(e, call[r].client)
           \/ /\ Resolvable(a)
              /\ agents[a].owner = call[r].client
              /\ agents[a].kid = e.body.kid
              /\ agents[a].key = e.body.key
              /\ e.type = "registry.publish"
              /\ update_agent(e)
           \/ /\ Resolvable(a)
              /\ agents[a].owner = call[r].client
              /\ agents[a].kid = seen[r].kid
              /\ e.body.newKid \notin DOMAIN keyHistory
              /\ e.type = "registry.rotate"
              /\ rotate_keys(e, seen[r].kid)
              /\ agents' = [agents EXCEPT ![a].kid = e.body.newKid,
                                          ![a].key = e.body.newKey]
           \/ /\ Resolvable(a)
              /\ agents[a].owner = call[r].client
              /\ agents[a].kid = seen[r].kid
              /\ e.type = "registry.revoke"
              /\ agents' = [agents EXCEPT ![a].status = "revoked"]
              /\ keyHistory' = [keyHistory EXCEPT ![seen[r].kid].status = "inactive"]
<1>1. transaction_refusal(r) = "ok" /\ transaction(r)
  BY DEF Commit
<1>2. CASE env(r).type = "registry.publish"
  <2>1. publish_refusal(env(r), call[r].client) = "ok" /\ publish(env(r), call[r].client)
    BY <1>1, <1>2 DEF transaction_refusal, transaction
  <2> QED
    BY <1>2, <2>1 DEF publish_refusal, publish, Resolvable
<1>3. CASE env(r).type = "registry.rotate"
  <2>1. /\ rotate_refusal(env(r), call[r].client, seen[r].kid) = "ok"
        /\ rotate(env(r), seen[r].kid)
    BY <1>1, <1>3 DEF transaction_refusal, transaction
  <2> QED
    BY <1>3, <2>1 DEF rotate_refusal, rotate
<1>4. CASE env(r).type = "registry.revoke"
  <2>1. /\ revoke_refusal(env(r), call[r].client, seen[r].kid) = "ok"
        /\ revoke(env(r), seen[r].kid)
    BY <1>1, <1>4 DEF transaction_refusal, transaction
  <2> QED
    BY <1>4, <2>1 DEF revoke_refusal, revoke
<1> QED BY <1>1, <1>2, <1>3, <1>4 DEF transaction

\* agents and key_history still agree after every step.
LEMMA HistoryStep ==
    ASSUME TypeOK, HandlersGrounded, KeyHistoryMatchesAgents, [Next]_vars
    PROVE  KeyHistoryMatchesAgents'
<1> USE DEF KeyHistoryMatchesAgents
<1>1. CASE UNCHANGED <<agents, keyHistory>>
  BY <1>1
<1>2. ASSUME NEW r \in Requests, Commit(r) PROVE KeyHistoryMatchesAgents'
  <2> DEFINE e == env(r)
             a == env(r).sender
  <2>1. CASE /\ a \notin DOMAIN agents
             /\ e.body.kid \notin DOMAIN keyHistory
             /\ insert_agent(e, call[r].client)
    <3> DEFINE agentRow == [owner |-> call[r].client,
                            endpoint |-> e.body.endpoint,
                            kid |-> e.body.kid, key |-> e.body.key,
                            status |-> "active"]
               keyRow == [agent |-> a, key |-> e.body.key,
                          status |-> "current"]
    <3>1. /\ agents' = Put(agents, a, agentRow)
          /\ keyHistory' = Put(keyHistory, e.body.kid, keyRow)
      BY <2>1 DEF insert_agent
    <3>2. /\ DOMAIN agents' = DOMAIN agents \cup {a}
          /\ agents'[a] = agentRow
          /\ \A b \in DOMAIN agents : agents'[b] = agents[b]
          /\ DOMAIN keyHistory' = DOMAIN keyHistory \cup {e.body.kid}
          /\ keyHistory'[e.body.kid] = keyRow
          /\ \A k \in DOMAIN keyHistory : keyHistory'[k] = keyHistory[k]
      <4> HIDE DEF agentRow, keyRow
      <4> QED BY <2>1, <3>1 DEF Put
    <3> QED BY <2>1, <3>2
  <2>2. CASE Resolvable(a) /\ update_agent(e)
    BY <2>2 DEF Resolvable, update_agent, TypeOK, StoreTypeOK, IsTable, AgentRow
  <2>3. CASE /\ Resolvable(a)
             /\ agents[a].kid = seen[r].kid
             /\ e.body.newKid \notin DOMAIN keyHistory
             /\ rotate_keys(e, seen[r].kid)
             /\ agents' = [agents EXCEPT ![a].kid = e.body.newKid,
                                         ![a].key = e.body.newKey]
    <3> DEFINE old == agents[a].kid
               new == e.body.newKid
    <3>1. /\ DOMAIN agents' = DOMAIN agents
          /\ agents'[a].kid = new
          /\ agents'[a].key = e.body.newKey
          /\ agents'[a].status = "active"
          /\ \A b \in DOMAIN agents \ {a} : agents'[b] = agents[b]
      <4>1. a \in DOMAIN agents /\ agents[a] \in AgentRow /\ agents[a].status = "active"
        BY <2>3 DEF Resolvable, TypeOK, StoreTypeOK, IsTable
      <4>2. agents'[a] = [agents[a] EXCEPT !.kid = new, !.key = e.body.newKey]
        BY <2>3, <4>1
      <4>3. /\ DOMAIN agents' = DOMAIN agents
            /\ \A b \in DOMAIN agents \ {a} : agents'[b] = agents[b]
        BY <2>3, <4>1
      <4> QED BY <4>1, <4>2, <4>3 DEF AgentRow
    <3>2. /\ DOMAIN keyHistory' = DOMAIN keyHistory \cup {new}
          /\ keyHistory'[new] = [agent |-> a, key |-> e.body.newKey,
                                 status |-> "current"]
          /\ keyHistory'[old].status = "inactive"
          /\ keyHistory'[old].agent = a
          /\ \A k \in DOMAIN keyHistory \ {old} : keyHistory'[k] = keyHistory[k]
      BY <2>3 DEF rotate_keys, Put, Resolvable, TypeOK, StoreTypeOK, IsTable, KeyRow
    <3> QED BY <2>3, <3>1, <3>2 DEF Resolvable
  <2>4. CASE /\ Resolvable(a)
             /\ agents[a].kid = seen[r].kid
             /\ agents' = [agents EXCEPT ![a].status = "revoked"]
             /\ keyHistory' = [keyHistory EXCEPT ![seen[r].kid].status = "inactive"]
    BY <2>4 DEF Resolvable, TypeOK, StoreTypeOK, IsTable, AgentRow, KeyRow
  <2> QED BY <1>2, <2>1, <2>2, <2>3, <2>4, CommitCases
<1>3. ASSUME NEW a, Resolvable(a), admin_revoke_agent(a)
      PROVE  KeyHistoryMatchesAgents'
  BY <1>3 DEF Resolvable, admin_revoke_agent, TypeOK, StoreTypeOK, IsTable, AgentRow, KeyRow
<1> QED BY <1>1, <1>2, <1>3, IdentityStep

\* Once in key_history, a kid keeps its Agent and its public key.
LEMMA KidsAreForEver ==
    ASSUME TypeOK, HandlersGrounded, KeyHistoryMatchesAgents, [Next]_vars
    PROVE  \A k \in DOMAIN keyHistory :
              /\ k \in DOMAIN keyHistory'
              /\ keyHistory'[k].agent = keyHistory[k].agent
              /\ keyHistory'[k].key = keyHistory[k].key
<1> DEFINE Kept == \A k \in DOMAIN keyHistory :
                      /\ k \in DOMAIN keyHistory'
                      /\ keyHistory'[k].agent = keyHistory[k].agent
                      /\ keyHistory'[k].key = keyHistory[k].key
<1>1. CASE UNCHANGED <<agents, keyHistory>>
  BY <1>1
<1>2. ASSUME NEW r \in Requests, Commit(r) PROVE Kept
  <2>1. CASE /\ env(r).body.kid \notin DOMAIN keyHistory
             /\ insert_agent(env(r), call[r].client)
    BY <2>1 DEF insert_agent, Put
  <2>2. CASE update_agent(env(r))
    BY <2>2 DEF update_agent
  <2>3. CASE /\ env(r).body.newKid \notin DOMAIN keyHistory
             /\ rotate_keys(env(r), seen[r].kid)
    BY <2>3 DEF rotate_keys, Put, TypeOK, StoreTypeOK, IsTable, KeyRow
  <2>4. CASE keyHistory' = [keyHistory EXCEPT ![seen[r].kid].status = "inactive"]
    BY <2>4 DEF TypeOK, StoreTypeOK, IsTable, KeyRow
  <2> QED BY <1>2, <2>1, <2>2, <2>3, <2>4, CommitCases
<1>3. ASSUME NEW a, admin_revoke_agent(a) PROVE Kept
  BY <1>3 DEF admin_revoke_agent, TypeOK, StoreTypeOK, IsTable, KeyRow
<1> QED BY <1>1, <1>2, <1>3, IdentityStep

-----------------------------------------------------------------------------
(* What handlers know *)

\* A handler that does not move keeps its ground: the rows it relies on stay.
LEMMA StayGrounded ==
    ASSUME TypeOK, HandlersGrounded, KeyHistoryMatchesAgents, [Next]_vars,
           NEW r \in Requests,
           pc'[r] = pc[r], seen'[r] = seen[r], call'[r] = call[r],
           r \in committed' => r \in committed
    PROVE  Grounded(r)'
<1>1. Grounded(r)
  BY DEF HandlersGrounded
<1>2. payload_refusal(env(r))' = payload_refusal(env(r))
  BY DEF payload_refusal, env, KidBinds
<1>3. claimed(env(r))' = claimed(env(r))
  BY DEF claimed, env
<1> QED
  BY <1>1, <1>2, <1>3, KidsAreForEver DEF Grounded, env

\* A handler that is over has nothing to rely on.
LEMMA OverGrounded ==
    ASSUME NEW r \in Requests, pc'[r] = "done"
    PROVE  Grounded(r)'
BY DEF Grounded, OnLoop

\* A handler that passes a check without a new record keeps its ground.
LEMMA CheckGrounded ==
    ASSUME TypeOK, HandlersGrounded, KeyHistoryMatchesAgents, [Next]_vars,
           NEW r \in Requests, NEW code, NEW next \in Stages,
           Check(r, code, next), next \notin {"verify", "commit"},
           r \notin committed,
           code = "ok" /\ next \in OnLoop =>
              /\ env(r)' \notin {NotJson, NotEnvelope}
              /\ payload_refusal(env(r))' = "ok"
    PROVE  Grounded(r)' /\ OthersStay(r) /\ UNCHANGED committed
BY LocalsTyped, CheckEffect, OverGrounded DEF Grounded

\* What verify_envelope establishes.
LEMMA VerifiedEnvelope ==
    ASSUME NEW e, NEW rec, verify_refusal(e, rec) = "ok"
    PROVE  /\ e.kid = rec.kid
           /\ e.sender = rec.agent
           /\ e.signer = rec.key
           /\ e.type = "registry.rotate" =>
                 /\ e.body.proof.signer = e.body.newKey
                 /\ e.body.proof.replyTo = e.id
<1>1. ASSUME NEW f, NEW r, NEW aud, NEW type, NEW reply, NEW t,
             VerifyRefusal(f, r, aud, type, reply, t) = "ok"
      PROVE  f.kid = r.kid /\ f.sender = r.agent /\ f.signer = r.key
  BY <1>1 DEF VerifyRefusal, SignedBy
<1>2. VerifyRefusal(e, rec, RegistryUrl, e.type, NoReply, now) = "ok"
  BY DEF verify_refusal
<1>3. ASSUME e.type = "registry.rotate"
      PROVE  /\ e.body.proof.signer = e.body.newKey
             /\ e.body.proof.replyTo = e.id
  <2>1. proof_refusal(e) = "ok"
    BY <1>2, <1>3 DEF verify_refusal
  <2>2. /\ e.body.proof.replyTo = e.id
        /\ VerifyRefusal(e.body.proof,
                         [agent |-> e.sender, kid |-> e.body.newKid,
                          key |-> e.body.newKey],
                         RegistryUrl, "registry.rotate.proof", e.id, now) = "ok"
    BY <2>1 DEF proof_refusal
  <2> QED BY <1>1, <2>2
<1> QED BY <1>1, <1>2, <1>3

\* Handlers stay grounded in every step.
LEMMA GroundedStep ==
    ASSUME TypeOK, HandlersGrounded, KeyHistoryMatchesAgents, [Next]_vars
    PROVE  HandlersGrounded'
<1>0. /\ {"body", "namespace", "resolve", "verify", "commit", "readback", "done"}
            \subseteq Stages
      /\ "body" \notin OnLoop
  BY DEF Stages, OnLoop
<1>1. ASSUME UNCHANGED handlers PROVE HandlersGrounded'
  BY <1>1, StayGrounded DEF handlers, HandlersGrounded
<1>2. ASSUME NEW r \in Requests, Arrive(r) \/ Step(r) PROVE HandlersGrounded'
  <2>0. ASSUME Grounded(r)', OthersStay(r), committed' \subseteq committed \cup {r},
               \A q \in Requests \ {r} : call'[q] = call[q]
        PROVE  HandlersGrounded'
    BY <2>0, StayGrounded DEF OthersStay, HandlersGrounded
  <2>1. Grounded(r) /\ LocalsOK
    BY LocalsTyped DEF HandlersGrounded
  <2>2. CASE Arrive(r)
    <3>1. PICK d \in Deliveries : /\ call' = [call EXCEPT ![r] = d]
                                  /\ Check(r, _authenticate(d), "body")
      BY <2>2 DEF Arrive
    <3>2. r \notin committed
      BY <2>1, <2>2 DEF Arrive, Grounded
    <3>3. Grounded(r)' /\ OthersStay(r) /\ UNCHANGED committed
      BY <1>0, <3>1, <3>2, CheckGrounded
    <3> QED
      BY <2>0, <3>1, <3>3 DEF TypeOK, ServiceTypeOK
  <2>3. CASE ReadBody(r)
    <3>1. r \notin committed
      BY <2>1, <2>3 DEF ReadBody, Grounded
    <3>2. CASE env(r) = NotJson
      BY <2>0, <2>1, <2>3, <3>2, OverGrounded
      DEF ReadBody, Answer, Goto, LocalsOK, OthersStay
    <3>3. CASE env(r) # NotJson
      <4>1. Check(r, envelope_refusal(env(r)), "namespace") /\ call' = call
        BY <2>3, <3>3 DEF ReadBody
      <4>2. envelope_refusal(env(r)) = "ok" =>
               /\ env(r)' \notin {NotJson, NotEnvelope}
               /\ payload_refusal(env(r))' = "ok"
        BY <3>3, <4>1 DEF envelope_refusal, env, payload_refusal, KidBinds
      <4>3. Grounded(r)' /\ OthersStay(r) /\ UNCHANGED committed
        BY <1>0, <3>1, <4>1, <4>2, CheckGrounded
      <4> QED BY <2>0, <4>1, <4>3
    <3> QED BY <3>2, <3>3
  <2>4. CASE CheckNamespace(r)
    <3>1. /\ r \notin committed
          /\ env(r)' \notin {NotJson, NotEnvelope}
          /\ payload_refusal(env(r))' = "ok"
      BY <2>1, <2>4 DEF CheckNamespace, Grounded, OnLoop, env, payload_refusal, KidBinds
    <3>2. Grounded(r)' /\ OthersStay(r) /\ UNCHANGED committed
      BY <1>0, <2>4, <3>1, CheckGrounded DEF CheckNamespace
    <3> QED BY <2>0, <2>4, <3>2 DEF CheckNamespace
  <2>5. CASE Resolve(r)
    <3>1. CASE ~(Resolvable(env(r).sender) \/ env(r).type = "registry.publish")
      <4>1. Refuse(r, "AGENT_NOT_FOUND") /\ call' = call
        BY <2>5, <3>1 DEF Resolve
      <4> QED BY <2>0, <2>1, <4>1, RefuseEffect, OverGrounded
    <3>2. CASE Resolvable(env(r).sender) \/ env(r).type = "registry.publish"
      <4> DEFINE rec == IF Resolvable(env(r).sender)
                        THEN resolve(env(r).sender) ELSE claimed(env(r))
      <4>1. /\ pc' = [pc EXCEPT ![r] = "verify"]
            /\ seen' = [seen EXCEPT ![r] = rec]
            /\ UNCHANGED <<tables, call, committed>>
        BY <2>5, <3>2 DEF Resolve, Goto
      <4>2. /\ pc[r] = "resolve" /\ pc[r] \in OnLoop /\ r \notin committed
            /\ payload_refusal(env(r)) = "ok"
            /\ env(r) \notin {NotJson, NotEnvelope}
        BY <2>1, <2>5 DEF Resolve, Grounded, OnLoop
      <4>3. /\ rec \in Records
            /\ rec.agent = env(r).sender
            /\ \/ /\ rec.kid \in DOMAIN keyHistory
                  /\ keyHistory[rec.kid].agent = rec.agent
                  /\ keyHistory[rec.kid].key = rec.key
               \/ /\ env(r).type = "registry.publish"
                  /\ rec = claimed(env(r))
        <5>1. CASE Resolvable(env(r).sender)
          BY <5>1, ResolveTyped
          DEF KeyHistoryMatchesAgents, Resolvable, resolve
        <5>2. CASE ~Resolvable(env(r).sender)
          BY <3>2, <4>2, <5>2, AcceptedEnvelope DEF claimed
        <5> QED BY <5>1, <5>2
      <4>4. /\ payload_refusal(env(r))' = "ok"
            /\ env(r)' = env(r) /\ claimed(env(r))' = claimed(env(r))
        BY <4>1, <4>2 DEF env, payload_refusal, KidBinds, claimed
      <4>5. pc'[r] = "verify" /\ seen'[r] = rec
        BY <2>1, <4>1 DEF LocalsOK
      <4>6. Grounded(r)'
        <5> HIDE DEF rec
        <5> QED BY <4>1, <4>2, <4>3, <4>4, <4>5 DEF Grounded, tables
      <4>7. OthersStay(r)
        BY <2>1, <4>1 DEF OthersStay, LocalsOK
      <4> QED BY <2>0, <4>1, <4>6, <4>7
    <3> QED BY <3>1, <3>2
  <2>6. CASE Verify(r)
    <3>1. CASE verify_refusal(env(r), seen[r]) # "ok"
      <4>1. Refuse(r, verify_refusal(env(r), seen[r])) /\ call' = call
        BY <2>6, <3>1 DEF Verify
      <4> QED BY <2>0, <2>1, <4>1, RefuseEffect, OverGrounded
    <3>2. CASE verify_refusal(env(r), seen[r]) = "ok"
      <4>1. /\ pc' = [pc EXCEPT ![r] = "commit"]
            /\ UNCHANGED <<tables, seen, call, committed>>
        BY <2>6, <3>2 DEF Verify, Goto
      <4>2. pc[r] = "verify" /\ pc'[r] = "commit" /\ OthersStay(r)
        BY <2>1, <2>6, <4>1 DEF Verify, LocalsOK, OthersStay
      <4>3. /\ payload_refusal(env(r))' = payload_refusal(env(r))
            /\ env(r)' = env(r) /\ claimed(env(r))' = claimed(env(r))
        BY <4>1 DEF env, payload_refusal, KidBinds, claimed
      <4>4. Grounded(r)'
        BY <2>1, <3>2, <4>1, <4>2, <4>3, VerifiedEnvelope
        DEF Grounded, OnLoop, tables
      <4> QED BY <2>0, <4>1, <4>2, <4>4
    <3> QED BY <3>1, <3>2
  <2>7. CASE Commit(r)
    <3>1. /\ pc'[r] \in {"readback", "done"} /\ OthersStay(r)
          /\ committed' = committed \cup {r} /\ call' = call
      BY <2>1, <2>7 DEF Commit, Answer, Goto, LocalsOK, OthersStay
    <3>2. /\ payload_refusal(env(r))' = "ok"
          /\ env(r)' \notin {NotJson, NotEnvelope}
      BY <2>1, <2>7, <3>1 DEF Commit, Grounded, OnLoop, env, payload_refusal, KidBinds
    <3>3. Grounded(r)'
      BY <3>1, <3>2 DEF Grounded
    <3> QED BY <2>0, <3>1, <3>3
  <2>8. CASE RollBack(r)
    <3>1. Refuse(r, transaction_refusal(r)) /\ call' = call
      BY <2>8 DEF RollBack
    <3> QED BY <2>0, <2>1, <3>1, RefuseEffect, OverGrounded
  <2>9. CASE LockTimeout(r) \/ ReadBack(r)
    <3>1. /\ pc'[r] = "done" /\ OthersStay(r)
          /\ committed' = committed /\ call' = call
      BY <2>1, <2>9 DEF LockTimeout, ReadBack, Answer, Goto, LocalsOK, OthersStay
    <3> QED BY <2>0, <3>1, OverGrounded
  <2> QED
    BY <1>2, <2>2, <2>3, <2>4, <2>5, <2>6, <2>7, <2>8, <2>9 DEF Step
<1>3. ASSUME Crash PROVE HandlersGrounded'
  <2>1. ASSUME NEW r \in Requests PROVE Grounded(r)'
    <3>1. CASE InFlight(r)
      BY <1>3, <3>1, OverGrounded DEF Crash
    <3>2. CASE ~InFlight(r)
      <4>1. pc'[r] = pc[r] /\ pc[r] \notin OnLoop /\ committed' = committed
        BY <1>3, <3>2 DEF Crash, InFlight
      <4> QED BY <4>1 DEF HandlersGrounded, Grounded, OnLoop
    <3> QED BY <3>1, <3>2
  <2> QED BY <2>1 DEF HandlersGrounded
<1> QED
  BY <1>1, <1>2, <1>3 DEF Next, ServiceStep, CommandStep, Tick, vars

-----------------------------------------------------------------------------
(* Theorems *)

\* The inductive invariant.  KeyHistoryMatchesAgents is inductive only with
\* what the handlers know (a rotation or revocation names the kid of the row it
\* changes) and the types of the rows.
IInv == TypeOK /\ HandlersGrounded /\ KeyHistoryMatchesAgents

THEOREM Invariance == Spec => []IInv
<1>1. Init => IInv
  <2> SUFFICES ASSUME Init PROVE IInv
    OBVIOUS
  <2>1. HandlersGrounded
    BY DEF Init, ServiceInit, HandlersGrounded, Grounded, OnLoop
  <2>2. KeyHistoryMatchesAgents
    BY DEF Init, KeyHistoryMatchesAgents
  <2> QED BY <2>1, <2>2, TypeInit DEF IInv
<1>2. IInv /\ [Next]_vars => IInv'
  BY TypeStep, HistoryStep, GroundedStep DEF IInv
<1> QED
  BY <1>1, <1>2, PTL DEF Spec

\* Every variable of the Registry always has its type.
THEOREM TypeCorrect == Spec => []TypeOK
<1>1. IInv => TypeOK
  BY DEF IInv
<1> QED BY <1>1, Invariance, PTL

\* agents and key_history always agree, whatever handlers, administrator,
\* clock and crashes do.
THEOREM HistoryAgrees == Spec => []KeyHistoryMatchesAgents
<1>1. IInv => KeyHistoryMatchesAgents
  BY DEF IInv
<1> QED BY <1>1, Invariance, PTL

\* What a handler verified against is always still backed by the tables.
THEOREM AlwaysGrounded == Spec => []HandlersGrounded
<1>1. IInv => HandlersGrounded
  BY DEF IInv
<1> QED BY <1>1, Invariance, PTL

\* The commit of a mutation is authentic.
LEMMA CommitAuthentic ==
    ASSUME IInv, [Next]_vars, NEW r \in Requests, Commit(r)
    PROVE  Authentic(r)
<1> DEFINE e == env(r)
           a == env(r).sender
<1> USE DEF IInv
<1>1. /\ e.kid = seen[r].kid
      /\ e.signer = seen[r].key
      /\ seen[r].agent = a
      /\ \/ /\ seen[r].kid \in DOMAIN keyHistory
            /\ keyHistory[seen[r].kid].agent = seen[r].agent
            /\ keyHistory[seen[r].kid].key = seen[r].key
         \/ /\ e.type = "registry.publish"
            /\ seen[r] = claimed(e)
      /\ e.type = "registry.rotate" =>
            /\ e.body.proof.signer = e.body.newKey
            /\ e.body.proof.replyTo = e.id
  BY DEF Commit, HandlersGrounded, Grounded
<1>2. e.type = "registry.publish" => e.body.kid = e.kid
  BY AcceptedEnvelope DEF Commit, OnLoop
<1>3. CASE /\ a \notin DOMAIN agents
           /\ e.type = "registry.publish"
           /\ insert_agent(e, call[r].client)
  <2>1. agents'[a].key = e.body.key /\ agents'[a].owner = call[r].client
    BY <1>3 DEF insert_agent, Put
  <2>2. seen[r] = claimed(e)
    BY <1>1, <1>3 DEF KeyHistoryMatchesAgents
  <2> QED
    BY <1>1, <1>3, <2>1, <2>2 DEF Authentic, claimed
<1>4. CASE /\ Resolvable(a)
           /\ agents[a].owner = call[r].client
           /\ agents[a].kid = e.body.kid
           /\ agents[a].key = e.body.key
           /\ e.type = "registry.publish"
           /\ update_agent(e)
  <2>1. a \in DOMAIN agents /\ agents'[a].owner = call[r].client
    BY <1>4 DEF update_agent, Resolvable, TypeOK, StoreTypeOK, IsTable, AgentRow
  <2>2. e.signer = agents[a].key
    BY <1>1, <1>2, <1>4, <2>1 DEF KeyHistoryMatchesAgents, claimed
  <2> QED BY <1>4, <2>1, <2>2 DEF Authentic
<1>5. CASE /\ Resolvable(a)
           /\ agents[a].owner = call[r].client
           /\ agents[a].kid = seen[r].kid
           /\ e.type = "registry.rotate"
           /\ agents' = [agents EXCEPT ![a].kid = e.body.newKid,
                                       ![a].key = e.body.newKey]
  <2>1. a \in DOMAIN agents /\ agents[a] \in AgentRow
    BY <1>5 DEF Resolvable, TypeOK, StoreTypeOK, IsTable
  <2>2. agents'[a] = [agents[a] EXCEPT !.kid = e.body.newKid,
                                       !.key = e.body.newKey]
    BY <1>5, <2>1
  <2>3. agents'[a].owner = call[r].client /\ agents'[a].key = e.body.newKey
    BY <1>5, <2>1, <2>2 DEF AgentRow
  <2>4. e.signer = agents[a].key
    BY <1>1, <1>5, <2>1 DEF KeyHistoryMatchesAgents
  <2> QED BY <1>1, <1>5, <2>1, <2>3, <2>4 DEF Authentic
<1>6. CASE /\ Resolvable(a)
           /\ agents[a].owner = call[r].client
           /\ agents[a].kid = seen[r].kid
           /\ e.type = "registry.revoke"
           /\ agents' = [agents EXCEPT ![a].status = "revoked"]
  <2>1. a \in DOMAIN agents /\ agents[a] \in AgentRow
    BY <1>6 DEF Resolvable, TypeOK, StoreTypeOK, IsTable
  <2>2. agents'[a].owner = call[r].client
    BY <1>6, <2>1 DEF AgentRow
  <2>3. e.signer = agents[a].key
    BY <1>1, <1>6, <2>1 DEF KeyHistoryMatchesAgents
  <2> QED BY <1>6, <2>1, <2>2, <2>3 DEF Authentic
<1> QED BY <1>3, <1>4, <1>5, <1>6, CommitCases

\* Every commit is signed by the key the Agent has at that moment and stays
\* with its owner, although the handler read the row before the transaction.
THEOREM AuthenticCommits == Spec => AuthenticCommit
<1>1. IInv /\ [Next]_vars =>
         [\A r \in committed' \ committed : Authentic(r)]_vars
  <2> SUFFICES ASSUME IInv, Next, NEW r \in committed' \ committed
               PROVE  Authentic(r)
    BY DEF vars, handlers
  <2>1. \E q \in Requests : Commit(q)
    BY HandlerFrame DEF Next, ServiceStep, CommandStep, Tick, Crash, handlers
  <2>2. PICK q \in Requests : Commit(q)
    BY <2>1
  <2>3. r = q
    BY <2>2 DEF Commit
  <2> QED BY <2>2, <2>3, CommitAuthentic
<1> QED BY <1>1, Invariance, PTL DEF Spec, AuthenticCommit

\* A first publish registers the Agent in the ledger.
LEMMA InsertRegisters ==
    ASSUME NEW e, NEW client, e.sender \notin DOMAIN agents,
           e.body.kid \notin DOMAIN keyHistory, insert_agent(e, client)
    PROVE  Ledger!Register(e.sender, client, e.body.kid, e.body.key)
<1> DEFINE agentRow == [owner |-> client, endpoint |-> e.body.endpoint,
                        kid |-> e.body.kid, key |-> e.body.key,
                        status |-> "active"]
           keyRow == [agent |-> e.sender, key |-> e.body.key,
                      status |-> "current"]
<1>1. /\ agents' = Put(agents, e.sender, agentRow)
      /\ keyHistory' = Put(keyHistory, e.body.kid, keyRow)
  BY DEF insert_agent
<1>2. /\ DOMAIN agents' = DOMAIN agents \cup {e.sender}
      /\ \A a \in DOMAIN agents' :
            agents'[a] = IF a = e.sender THEN agentRow ELSE agents[a]
  <2> HIDE DEF agentRow, keyRow
  <2> QED BY <1>1 DEF Put
<1>3. /\ DOMAIN keyHistory' = DOMAIN keyHistory \cup {e.body.kid}
      /\ \A k \in DOMAIN keyHistory' :
            keyHistory'[k] = IF k = e.body.kid THEN keyRow ELSE keyHistory[k]
  <2> HIDE DEF agentRow, keyRow
  <2> QED BY <1>1 DEF Put
<1>4. Ledger!Spend(e.sender, e.body.kid, e.body.key)
  BY <1>3 DEF Ledger!Spend, Ledger!Add
<1>5. [owner |-> agentRow.owner, kid |-> agentRow.kid, key |-> agentRow.key,
       active |-> agentRow.status = "active"]
      = [owner |-> client, kid |-> e.body.kid, key |-> e.body.key,
         active |-> TRUE]
  OBVIOUS
<1>6. [a \in DOMAIN agents' |->
         [owner |-> agents'[a].owner, kid |-> agents'[a].kid,
          key |-> agents'[a].key, active |-> agents'[a].status = "active"]]
      = Ledger!Add([a \in DOMAIN agents |->
                      [owner |-> agents[a].owner, kid |-> agents[a].kid,
                       key |-> agents[a].key,
                       active |-> agents[a].status = "active"]],
                   e.sender,
                   [owner |-> client, kid |-> e.body.kid, key |-> e.body.key,
                    active |-> TRUE])
  <2> HIDE DEF agentRow
  <2> QED BY <1>2, <1>5 DEF Ledger!Add
<1> QED BY <1>4, <1>6 DEF Ledger!Register

\* A rotation is a rotation of the ledger.
LEMMA RotateRotates ==
    ASSUME TypeOK, NEW e, NEW old, Resolvable(e.sender), agents[e.sender].kid = old,
           e.body.newKid \notin DOMAIN keyHistory, rotate_keys(e, old),
           agents' = [agents EXCEPT ![e.sender].kid = e.body.newKid,
                                    ![e.sender].key = e.body.newKey]
    PROVE  Ledger!Rotate(e.sender, e.body.newKid, e.body.newKey)
<1> DEFINE a == e.sender
           keyRow == [agent |-> a, key |-> e.body.newKey, status |-> "current"]
           retired == [keyHistory EXCEPT ![old].status = "inactive"]
<1>1. /\ a \in DOMAIN agents
      /\ agents[a].status = "active"
      /\ \A b \in DOMAIN agents : agents[b] \in AgentRow
      /\ \A k \in DOMAIN keyHistory : keyHistory[k] \in KeyRow
  BY DEF Resolvable, TypeOK, StoreTypeOK, IsTable
<1>2. /\ DOMAIN agents' = DOMAIN agents
      /\ \A b \in DOMAIN agents \ {a} : agents'[b] = agents[b]
      /\ agents'[a] = [agents[a] EXCEPT !.kid = e.body.newKid,
                                        !.key = e.body.newKey]
  BY <1>1
<1>3. /\ agents'[a].owner = agents[a].owner
      /\ agents'[a].kid = e.body.newKid
      /\ agents'[a].key = e.body.newKey
      /\ agents'[a].status = "active"
  BY <1>1, <1>2 DEF AgentRow
<1>4. /\ DOMAIN keyHistory' = DOMAIN keyHistory \cup {e.body.newKid}
      /\ keyHistory'[e.body.newKid] = keyRow
      /\ \A k \in DOMAIN keyHistory : keyHistory'[k] = retired[k]
  <2> HIDE DEF keyRow, retired
  <2>1. keyHistory' = Put(retired, e.body.newKid, keyRow) /\ DOMAIN retired = DOMAIN keyHistory
    BY DEF rotate_keys, keyRow, retired
  <2> QED BY <2>1 DEF Put
<1>5. \A k \in DOMAIN keyHistory : /\ keyHistory'[k].agent = keyHistory[k].agent
                                   /\ keyHistory'[k].key = keyHistory[k].key
  BY <1>1, <1>4 DEF KeyRow
<1>6. Ledger!Spend(a, e.body.newKid, e.body.newKey)
  BY <1>4, <1>5 DEF Ledger!Spend, Ledger!Add
<1>7. DOMAIN agents' = DOMAIN agents
  BY <1>2
<1> QED BY <1>1, <1>2, <1>3, <1>6 DEF Ledger!Rotate

\* Revoking an Agent, whoever does it, retires it in the ledger.
LEMMA RevokeRetires ==
    ASSUME TypeOK, NEW a \in Agents, Resolvable(a),
           agents' = [agents EXCEPT ![a].status = "revoked"],
           DOMAIN keyHistory' = DOMAIN keyHistory,
           \A k \in DOMAIN keyHistory :
              /\ keyHistory'[k].agent = keyHistory[k].agent
              /\ keyHistory'[k].key = keyHistory[k].key
    PROVE  Ledger!Next
<1>1. /\ a \in DOMAIN agents
      /\ agents[a].status = "active"
      /\ \A b \in DOMAIN agents : agents[b] \in AgentRow
  BY DEF Resolvable, TypeOK, StoreTypeOK, IsTable
<1>2. /\ DOMAIN agents' = DOMAIN agents
      /\ \A b \in DOMAIN agents \ {a} : agents'[b] = agents[b]
      /\ agents'[a] = [agents[a] EXCEPT !.status = "revoked"]
  BY <1>1
<1>3. /\ agents'[a].owner = agents[a].owner
      /\ agents'[a].kid = agents[a].kid
      /\ agents'[a].key = agents[a].key
      /\ agents'[a].status = "revoked"
  BY <1>1, <1>2 DEF AgentRow
<1>4. Ledger!Retire(a)
  BY <1>1, <1>2, <1>3 DEF Ledger!Retire
<1> QED BY <1>4 DEF Ledger!Next

\* A step of the Registry is a step of the ledger or leaves it alone.
LEMMA LedgerStep ==
    ASSUME IInv, [Next]_vars
    PROVE  [Ledger!Next]_(Ledger!entries)
<1> USE DEF IInv
<1>1. CASE UNCHANGED <<agents, keyHistory>>
  BY <1>1 DEF Ledger!entries
<1>2. ASSUME NEW r \in Requests, Commit(r) PROVE [Ledger!Next]_(Ledger!entries)
  <2> DEFINE e == env(r)
             a == env(r).sender
  <2>0. a \in Agents /\ call[r].client \in Clients
    BY <1>2, AcceptedEnvelope DEF Commit, OnLoop
  <2>1. CASE /\ a \notin DOMAIN agents
             /\ e.body.kid \notin DOMAIN keyHistory
             /\ e.type = "registry.publish"
             /\ insert_agent(e, call[r].client)
    <3>1. e.body.kid \in Kids /\ e.body.key \in Keys
      BY <1>2, <2>1, AcceptedEnvelope DEF Commit, OnLoop, PublishBody
    <3> QED BY <2>0, <2>1, <3>1, InsertRegisters DEF Ledger!Next
  <2>2. CASE Resolvable(a) /\ update_agent(e)
    <3>1. a \in DOMAIN agents /\ agents[a] \in AgentRow
      BY <2>2 DEF Resolvable, TypeOK, StoreTypeOK, IsTable
    <3>2. /\ DOMAIN agents' = DOMAIN agents
          /\ \A b \in DOMAIN agents \ {a} : agents'[b] = agents[b]
          /\ agents'[a] = [agents[a] EXCEPT !.endpoint = e.body.endpoint]
          /\ keyHistory' = keyHistory
      BY <2>2, <3>1 DEF update_agent
    <3>3. \A b \in DOMAIN agents : /\ agents'[b].owner = agents[b].owner
                                   /\ agents'[b].kid = agents[b].kid
                                   /\ agents'[b].key = agents[b].key
                                   /\ agents'[b].status = agents[b].status
      BY <3>1, <3>2 DEF AgentRow
    <3> QED BY <3>2, <3>3 DEF Ledger!entries
  <2>3. CASE /\ Resolvable(a)
             /\ agents[a].kid = seen[r].kid
             /\ e.body.newKid \notin DOMAIN keyHistory
             /\ e.type = "registry.rotate"
             /\ rotate_keys(e, seen[r].kid)
             /\ agents' = [agents EXCEPT ![a].kid = e.body.newKid,
                                         ![a].key = e.body.newKey]
    <3>1. e.body.newKid \in Kids /\ e.body.newKey \in Keys
      BY <1>2, <2>3, AcceptedEnvelope DEF Commit, OnLoop
    <3> QED BY <2>0, <2>3, <3>1, RotateRotates DEF Ledger!Next
  <2>4. CASE /\ Resolvable(a)
             /\ agents[a].kid = seen[r].kid
             /\ agents' = [agents EXCEPT ![a].status = "revoked"]
             /\ keyHistory' = [keyHistory EXCEPT ![seen[r].kid].status = "inactive"]
    <3>1. DOMAIN keyHistory' = DOMAIN keyHistory
      BY <2>4
    <3>2. \A k \in DOMAIN keyHistory :
             /\ keyHistory'[k].agent = keyHistory[k].agent
             /\ keyHistory'[k].key = keyHistory[k].key
      BY KidsAreForEver
    <3> QED BY <2>0, <2>4, <3>1, <3>2, RevokeRetires
  <2> QED BY <1>2, <2>1, <2>2, <2>3, <2>4, CommitCases
<1>3. ASSUME NEW a, Resolvable(a), admin_revoke_agent(a)
      PROVE  [Ledger!Next]_(Ledger!entries)
  <2>1. a \in Agents
    BY <1>3 DEF Resolvable, TypeOK, StoreTypeOK, IsTable
  <2>2. DOMAIN keyHistory' = DOMAIN keyHistory
    BY <1>3 DEF admin_revoke_agent
  <2> QED BY <1>3, <2>1, <2>2, KidsAreForEver, RevokeRetires DEF admin_revoke_agent
<1> QED BY <1>1, <1>2, <1>3, IdentityStep

\* The Registry implements the ledger of identities: one registration, one
\* owner, one key at a time, no kid used twice, nothing after retirement.
THEOREM Implementation == Spec => ImplementsLedger
<1>1. Init => Ledger!Init
  BY DEF Init, Ledger!Init
<1>2. IInv /\ [Next]_vars => [Ledger!Next]_(Ledger!entries)
  BY LedgerStep
<1> QED
  BY <1>1, <1>2, Invariance, PTL DEF Spec, ImplementsLedger, Ledger!Spec
====
