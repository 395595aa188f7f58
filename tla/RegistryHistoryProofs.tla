------------------------ MODULE RegistryHistoryProofs ------------------------
(***************************************************************************)
(* Theorems about what the tables of the Registry remember of its past:    *)
(* consumed request IDs, accepted audit rows and granted namespaces.       *)
(***************************************************************************)
EXTENDS RegistryProofs, FiniteSetTheorems

-----------------------------------------------------------------------------
(* What a step does to the past *)

\* Only the commit of a request adds to what has committed or consumes IDs, and
\* time never runs backwards.
LEMMA PastStep ==
    ASSUME TypeOK, [Next]_vars
    PROVE  /\ now' \in Nat /\ now <= now'
           /\ \/ UNCHANGED <<committed, nonces>>
              \/ \E r \in Requests : Commit(r) /\ UNCHANGED commandLine
<1>1. CASE ServiceStep
  BY <1>1, HandlerFrame DEF ServiceStep, Crash, tables, Commit, TypeOK, StoreTypeOK
<1>2. CASE CommandStep
  BY <1>2 DEF CommandStep, AdminStep, Advance, DeveloperAdd, DeveloperRotateKey,
     DeveloperRevoke, NamespaceGrant, GrantSelect, GrantInsert, NamespaceRevoke,
     AgentRevoke, PrintResult, Kill, Fail, tables, handlers, TypeOK, StoreTypeOK
<1>3. CASE Tick \/ UNCHANGED vars
  BY <1>3 DEF Tick, vars, tables, handlers, TypeOK, StoreTypeOK
<1> QED BY <1>1, <1>2, <1>3 DEF Next

\* A handler keeps its delivery once it has one.
LEMMA CallStays ==
    ASSUME [Next]_vars, NEW r \in Requests, pc[r] # "idle", TypeOK
    PROVE  call'[r] = call[r]
<1>1. CASE ServiceStep
  <2>1. CASE Crash
    BY <2>1 DEF Crash
  <2>2. ASSUME NEW q \in Requests, Arrive(q) PROVE call'[r] = call[r]
    BY <2>2 DEF Arrive, TypeOK, ServiceTypeOK
  <2>3. ASSUME NEW q \in Requests, Step(q) PROVE call'[r] = call[r]
    BY <2>3 DEF Step, ReadBody, CheckNamespace, Resolve, Verify, Commit,
       RollBack, LockTimeout, ReadBack
  <2> QED BY <1>1, <2>1, <2>2, <2>3 DEF ServiceStep
<1>2. CASE ~ServiceStep
  BY <1>2 DEF Next, CommandStep, Tick, vars, handlers
<1> QED BY <1>1, <1>2

\* The request IDs of what has committed are settled.
LEMMA CommittedStays ==
    ASSUME TypeOK, HandlersGrounded, [Next]_vars,
           NEW r \in Requests, r \in committed \/ pc[r] \in OnLoop
    PROVE  env(r)' = env(r) /\ NoncesOf(r)' = NoncesOf(r)
<1>1. pc[r] # "idle"
  BY DEF HandlersGrounded, Grounded, OnLoop
<1> QED BY <1>1, CallStays DEF env, NoncesOf

\* The second never runs backwards.
LEMMA SecondGrows ==
    ASSUME now \in Nat, now' \in Nat, now <= now'
    PROVE  Second \in Nat /\ Second' \in Nat /\ Second <= Second' /\ Second <= now
<1>1. ASSUME NEW t \in Nat, NEW u \in Nat, t <= u
      PROVE  t - (t % 2) \in Nat /\ t - (t % 2) <= u - (u % 2) /\ t - (t % 2) <= t
  <2>1. \A n \in Nat : n % 2 \in 0 .. 1 /\ n = 2 * (n \div 2) + (n % 2) /\ n \div 2 \in Nat
    OBVIOUS
  <2>2. PICK h \in Nat, x \in 0 .. 1 : t = 2 * h + x /\ x = t % 2
    BY <2>1
  <2>3. PICK k \in Nat, y \in 0 .. 1 : u = 2 * k + y /\ y = u % 2
    BY <2>1
  <2> QED BY <1>1, <2>2, <2>3
<1>2. Second = now - (now % 2) /\ Second' = now' - (now' % 2)
  BY DEF Second
<1>3. Second \in Nat /\ Second <= Second' /\ Second <= now
  <2>1. /\ now - (now % 2) \in Nat
        /\ now - (now % 2) <= now' - (now' % 2)
        /\ now - (now % 2) <= now
    BY <1>1
  <2> QED BY <1>2, <2>1
<1>4. Second' \in Nat
  <2>1. now' <= now'
    OBVIOUS
  <2>2. now' - (now' % 2) \in Nat
    BY <1>1, <2>1
  <2> QED BY <1>2, <2>2
<1> QED BY <1>3, <1>4

-----------------------------------------------------------------------------
(* Request IDs *)

\* The row of a request ID that is still valid has the expiry of the very
\* envelope that consumed it; NoncesMatchCommits says only that it has a row,
\* and a row of another envelope could be purged earlier.
Remembered ==
    /\ \A r \in committed : Expiry(env(r)) \in Int
    /\ \A r \in committed :
          Second < Expiry(env(r)) =>
             \A n \in NoncesOf(r) : n \in DOMAIN nonces /\ nonces[n] = Expiry(env(r))
    /\ \A n \in DOMAIN nonces : \E r \in committed : n \in NoncesOf(r)

\* Consuming a new ID adds its row, drops the expired rows and leaves the
\* others alone.
LEMMA ConsumedRows ==
    ASSUME NEW table, NEW sender, NEW id, NEW expires,
           ~Replayed(table, sender, id)
    PROVE  LET t == Consumed(table, sender, id, expires) IN
           /\ DOMAIN t \subseteq DOMAIN table \cup {<<sender, id>>}
           /\ <<sender, id>> \in DOMAIN t
           /\ t[<<sender, id>>] = expires
           /\ \A n \in DOMAIN table : table[n] > Second =>
                 n \in DOMAIN t /\ t[n] = table[n] /\ n # <<sender, id>>
BY DEF Consumed, Purge, Replayed, Put

\* What the transaction of a request does to the table of request IDs.
LEMMA CommitNonces ==
    ASSUME TypeOK, HandlersGrounded, NEW r \in Requests, Commit(r)
    PROVE  /\ DOMAIN nonces' \subseteq DOMAIN nonces \cup NoncesOf(r)
           /\ \A n \in DOMAIN nonces : nonces[n] > Second =>
                 n \in DOMAIN nonces' /\ nonces'[n] = nonces[n] /\ n \notin NoncesOf(r)
           /\ Second < Expiry(env(r)) =>
                 \A n \in NoncesOf(r) : n \in DOMAIN nonces' /\ nonces'[n] = Expiry(env(r))
<1> DEFINE e == env(r)
           x == Expiry(env(r))
           one == Consumed(nonces, e.sender, e.id, x)
<1>1. transaction_refusal(r) = "ok" /\ transaction(r)
  BY DEF Commit
<1>2. CASE e.type = "registry.rotate"
  <2> DEFINE two == Consumed(one, e.sender, e.body.proof.id, x)
  <2>1. /\ nonces' = two
        /\ ~Replayed(nonces, e.sender, e.id)
        /\ ~Replayed(one, e.sender, e.body.proof.id)
    BY <1>1, <1>2 DEF transaction_refusal, transaction, rotate, rotate_refusal
  <2>2. /\ DOMAIN one \subseteq DOMAIN nonces \cup {<<e.sender, e.id>>}
        /\ <<e.sender, e.id>> \in DOMAIN one
        /\ one[<<e.sender, e.id>>] = x
        /\ \A n \in DOMAIN nonces : nonces[n] > Second =>
              n \in DOMAIN one /\ one[n] = nonces[n] /\ n # <<e.sender, e.id>>
    BY <2>1, ConsumedRows
  <2>3. /\ DOMAIN two \subseteq DOMAIN one \cup {<<e.sender, e.body.proof.id>>}
        /\ <<e.sender, e.body.proof.id>> \in DOMAIN two
        /\ two[<<e.sender, e.body.proof.id>>] = x
        /\ \A n \in DOMAIN one : one[n] > Second =>
              n \in DOMAIN two /\ two[n] = one[n] /\ n # <<e.sender, e.body.proof.id>>
    <3> HIDE DEF one
    <3> QED BY <2>1, ConsumedRows
  <2>4. NoncesOf(r) = {<<e.sender, e.id>>, <<e.sender, e.body.proof.id>>}
    BY <1>2 DEF NoncesOf
  <2>5. x \in Int /\ Second \in Int
    BY AcceptedEnvelope, SkewAssumption, SecondGrows
    DEF Commit, OnLoop, Expiry, TypeOK, StoreTypeOK, Second
  <2> HIDE DEF one, two, x
  <2> QED BY <2>1, <2>2, <2>3, <2>4, <2>5 DEF x
<1>3. CASE e.type # "registry.rotate"
  <2>1. nonces' = one /\ ~Replayed(nonces, e.sender, e.id)
    BY <1>1, <1>3 DEF transaction_refusal, transaction, publish, publish_refusal,
       revoke, revoke_refusal
  <2>2. NoncesOf(r) = {<<e.sender, e.id>>}
    BY <1>3 DEF NoncesOf
  <2> QED BY <2>1, <2>2, ConsumedRows
<1> QED BY <1>2, <1>3

LEMMA RememberedStep ==
    ASSUME IInv, Remembered, [Next]_vars
    PROVE  Remembered'
<1> USE DEF IInv
<1>0. committed \subseteq Requests
  BY DEF TypeOK, ServiceTypeOK
<1>1. /\ Second \in Nat /\ Second' \in Nat /\ Second <= Second'
      /\ \/ UNCHANGED <<committed, nonces>>
         \/ \E r \in Requests : Commit(r)
  BY PastStep, SecondGrows DEF TypeOK, StoreTypeOK
<1>2. \A r \in committed : env(r)' = env(r) /\ NoncesOf(r)' = NoncesOf(r)
  BY <1>0, CommittedStays
<1>3. \A r \in committed : Expiry(env(r))' = Expiry(env(r)) /\ Expiry(env(r)) \in Int
  BY <1>2 DEF Expiry, Remembered
<1>4. CASE UNCHANGED <<committed, nonces>>
  BY <1>1, <1>2, <1>3, <1>4 DEF Remembered
<1>5. ASSUME NEW r \in Requests, Commit(r) PROVE Remembered'
  <2>1. committed' = committed \cup {r} /\ now' = now /\ Second' = Second
    BY <1>5 DEF Commit, Second
  <2>2. env(r)' = env(r) /\ NoncesOf(r)' = NoncesOf(r) /\ Expiry(env(r))' = Expiry(env(r))
    BY <1>5, CommittedStays DEF Commit, OnLoop, Expiry
  <2>3. Expiry(env(r)) \in Int
    BY <1>5, AcceptedEnvelope, SkewAssumption DEF Commit, OnLoop, Expiry
  <2>4. ASSUME NEW q \in committed, Second < Expiry(env(q)), NEW n \in NoncesOf(q)
        PROVE  n \in DOMAIN nonces' /\ nonces'[n] = Expiry(env(q))
    <3>1. n \in DOMAIN nonces /\ nonces[n] = Expiry(env(q)) /\ nonces[n] > Second
      BY <1>1, <1>3, <2>4 DEF Remembered
    <3> QED BY <1>5, <3>1, CommitNonces
  <2>5. Second < Expiry(env(r)) =>
           \A n \in NoncesOf(r) : n \in DOMAIN nonces' /\ nonces'[n] = Expiry(env(r))
    BY <1>5, CommitNonces
  <2>6. DOMAIN nonces' \subseteq DOMAIN nonces \cup NoncesOf(r)
    BY <1>5, CommitNonces
  <2>7. \A q \in committed' : Expiry(env(q))' \in Int
    BY <1>3, <2>1, <2>2, <2>3
  <2>8. \A q \in committed' : Second' < Expiry(env(q))' =>
           \A n \in NoncesOf(q)' : n \in DOMAIN nonces' /\ nonces'[n] = Expiry(env(q))'
    BY <1>2, <1>3, <2>1, <2>2, <2>4, <2>5
  <2>9. \A n \in DOMAIN nonces' : \E q \in committed' : n \in NoncesOf(q)'
    <3> SUFFICES ASSUME NEW n \in DOMAIN nonces'
                 PROVE  \E q \in committed' : n \in NoncesOf(q)'
      OBVIOUS
    <3>1. CASE n \in NoncesOf(r)
      BY <2>1, <2>2, <3>1
    <3>2. CASE n \in DOMAIN nonces
      BY <1>2, <2>1, <3>2 DEF Remembered
    <3> QED BY <2>6, <3>1, <3>2
  <2> QED BY <2>7, <2>8, <2>9 DEF Remembered
<1> QED BY <1>1, <1>4, <1>5

\* The table of request IDs is exact, however requests, crashes and the clock
\* interleave.
THEOREM NoncesExact == Spec => []NoncesMatchCommits
<1>1. Init => Remembered
  BY DEF Init, ServiceInit, Remembered
<1>2. Remembered => NoncesMatchCommits
  BY DEF Remembered, NoncesMatchCommits
<1>3. IInv /\ Remembered /\ [Next]_vars => Remembered'
  BY RememberedStep
<1> QED BY <1>1, <1>2, <1>3, Invariance, PTL DEF Spec

\* A commit is a use of all its IDs: one that is remembered would have been
\* refused.  Nothing else uses or forgets any.
LEMMA GuardStep ==
    ASSUME IInv, Remembered, [Next]_vars
    PROVE  Guard!Next
<1> USE DEF IInv
<1>0. committed \subseteq Requests
  BY DEF TypeOK, ServiceTypeOK
<1>1. /\ Second \in Nat /\ Second <= Second'
      /\ \/ UNCHANGED <<committed, nonces>>
         \/ \E r \in Requests : Commit(r)
  BY PastStep, SecondGrows DEF TypeOK, StoreTypeOK
<1>2. \A r \in committed : /\ NoncesOf(r)' = NoncesOf(r)
                           /\ Expiry(env(r))' = Expiry(env(r))
  BY <1>0, CommittedStays DEF Expiry
<1>3. CASE UNCHANGED <<committed, nonces>>
  BY <1>1, <1>2, <1>3 DEF Guard!Next, Guard!Pass
<1>4. ASSUME NEW r \in Requests, Commit(r) PROVE Guard!Use(r)
  <2>1. r \notin committed /\ committed' = committed \cup {r} /\ Second' = Second
    BY <1>4 DEF HandlersGrounded, Grounded, Commit, Second
  <2>2. NoncesOf(r)' = NoncesOf(r)
    BY <1>4, CommittedStays DEF Commit, OnLoop
  <2>3. ASSUME NEW q \in committed, NoncesOf(q) \cap NoncesOf(r) # {}
        PROVE  Expiry(env(q)) <= Second
    <3>1. PICK n \in NoncesOf(q) : n \in NoncesOf(r)
      BY <2>3
    <3>2. SUFFICES ASSUME Second < Expiry(env(q)) PROVE FALSE
      BY <1>1 DEF Remembered
    <3>3. n \in DOMAIN nonces /\ nonces[n] > Second
      BY <1>1, <3>1, <3>2 DEF Remembered
    <3> QED BY <1>4, <3>1, <3>3, CommitNonces
  <2> QED BY <1>2, <2>1, <2>2, <2>3 DEF Guard!Use, Guard!Clash
<1> QED BY <1>1, <1>3, <1>4 DEF Guard!Next

\* The nonces table implements the replay guard, for any deliveries: that IDs
\* are unique is not assumed (publish, rotate and revoke of storage.py).
THEOREM TableGuards == Spec => ImplementsGuard
<1>1. Init => Guard!Init
  BY DEF Init, ServiceInit, Guard!Init
<1>2. Init => Remembered
  BY DEF Init, ServiceInit, Remembered
<1>3. IInv /\ Remembered /\ [Next]_vars => Remembered' /\ [Guard!Next]_(Guard!guard)
  BY RememberedStep, GuardStep
<1> QED
  BY <1>1, <1>2, <1>3, Invariance, PTL DEF Spec, ImplementsGuard, Guard!Spec

-----------------------------------------------------------------------------
(* Granted namespaces *)

\* A grant, whatever became of it, covers the Agent for the developer.
Granted(client, a) ==
    \E n \in DOMAIN namespaces :
        namespaces[n].owner = client /\ Matches(a, namespaces[n].scope)

\* A handler that passed the check of the namespace had a grant; the grant may
\* be revoked before the commit, but its row stays.
HandlersWereGranted ==
    \A r \in Requests :
        pc[r] \in {"resolve", "verify", "commit"} =>
            Granted(call[r].client, env(r).sender)

\* Rows of namespaces are never dropped, moved or given away.
LEMMA GrantsAreForEver ==
    ASSUME TypeOK, [Next]_vars, NEW client, NEW a, Granted(client, a)
    PROVE  Granted(client, a)'
<1> DEFINE Kept == \A n \in DOMAIN namespaces :
                      /\ n \in DOMAIN namespaces'
                      /\ namespaces'[n].owner = namespaces[n].owner
                      /\ namespaces'[n].scope = namespaces[n].scope
<1>1. SUFFICES Kept
  BY DEF Granted
<1>2. CASE ServiceStep
  BY <1>2, HandlerFrame DEF ServiceStep, Crash, tables, Commit
<1>3. CASE CommandStep
  <2>1. PICK c \in Commands : AdminStep(c)
    BY <1>3 DEF CommandStep
  <2>2. CASE GrantInsert(c)
    BY <2>2 DEF GrantInsert, Fail, tables, insert_namespace, Put
  <2>3. CASE NamespaceRevoke(c)
    BY <2>3 DEF NamespaceRevoke, Fail, tables, revoke_namespace, TypeOK,
       StoreTypeOK, IsTable, NamespaceRow
  <2>4. CASE ~GrantInsert(c) /\ ~NamespaceRevoke(c)
    BY <2>1, <2>4 DEF AdminStep, Advance, DeveloperAdd, DeveloperRotateKey,
       DeveloperRevoke, NamespaceGrant, GrantSelect, AgentRevoke, PrintResult,
       Kill, Fail, tables
  <2> QED BY <2>2, <2>3, <2>4
<1>4. CASE Tick \/ UNCHANGED vars
  BY <1>4 DEF Tick, vars, tables
<1> QED BY <1>2, <1>3, <1>4 DEF Next

\* Only a handler that passed the check of the namespace goes on.
LEMMA HandlersGrantedStep ==
    ASSUME TypeOK, HandlersWereGranted, [Next]_vars
    PROVE  HandlersWereGranted'
<1> DEFINE Late == {"resolve", "verify", "commit"}
<1> SUFFICES ASSUME NEW r \in Requests, pc'[r] \in Late
             PROVE  Granted(call[r].client, env(r).sender)'
  BY DEF HandlersWereGranted
<1>1. pc \in [Requests -> Stages]
  BY DEF TypeOK, ServiceTypeOK
<1>2. CASE pc[r] \in Late
  <2>1. call'[r] = call[r]
    BY <1>2, CallStays
  <2>2. PICK client, a : client = call[r].client /\ a = env(r).sender
    OBVIOUS
  <2>3. Granted(client, a)
    BY <1>2, <2>2 DEF HandlersWereGranted
  <2>4. Granted(client, a)'
    BY <2>3, GrantsAreForEver
  <2> QED BY <2>1, <2>2, <2>4 DEF Granted, env
<1>3. CASE pc[r] \notin Late
  <2>1. /\ pc'[r] # "idle" /\ pc'[r] # "body" /\ pc'[r] # "done"
        /\ pc'[r] # "namespace" /\ pc'[r] # "readback" /\ pc'[r] # pc[r]
    BY <1>3
  <2>2. ASSUME NEW q \in Requests, NEW code, NEW next, Check(q, code, next)
        PROVE  pc'[r] # pc[r] => r = q /\ pc'[r] \in {next, "done"}
    BY <1>1, <2>2 DEF Check, Refuse, Answer, Goto
  <2>3. ASSUME NEW q \in Requests, Arrive(q) \/ ReadBody(q) PROVE FALSE
    <3>1. CASE Arrive(q)
      BY <2>1, <2>2, <3>1 DEF Arrive
    <3>2. CASE ReadBody(q)
      BY <1>1, <2>1, <2>2, <3>2 DEF ReadBody, Answer, Goto
    <3> QED BY <2>3, <3>1, <3>2
  <2>4. ASSUME NEW q \in Requests,
               Resolve(q) \/ Verify(q) \/ Commit(q) \/ RollBack(q) \/ LockTimeout(q) \/ ReadBack(q)
        PROVE  FALSE
    BY <1>1, <1>3, <2>1, <2>4
    DEF Resolve, Verify, Commit, RollBack, LockTimeout, ReadBack, Refuse, Answer, Goto
  <2>5. ASSUME NEW q \in Requests, CheckNamespace(q)
        PROVE  Granted(call[r].client, env(r).sender)'
    <3>1. r = q
      BY <2>1, <2>2, <2>5 DEF CheckNamespace
    <3>2. has_namespace(call[r].client, env(r).sender)
      BY <1>1, <2>1, <2>5, <3>1 DEF CheckNamespace, Check, Refuse, Answer, Goto
    <3>3. UNCHANGED <<namespaces, call>>
      BY <2>5 DEF CheckNamespace, Check, Refuse, tables
    <3> QED BY <3>2, <3>3 DEF has_namespace, Granted, env
  <2>6. ~Crash /\ ~CommandStep /\ ~Tick /\ ~UNCHANGED vars
    BY <2>1 DEF Crash, CommandStep, Tick, vars, handlers
  <2> QED BY <2>3, <2>4, <2>5, <2>6 DEF Next, ServiceStep, Step
<1> QED BY <1>2, <1>3

\* Only an insert makes an owner, and he is the client of the handler.
LEMMA OwnerStep ==
    ASSUME IInv, HandlersWereGranted, OwnerWasGranted, [Next]_vars
    PROVE  OwnerWasGranted'
<1> USE DEF IInv
<1> SUFFICES ASSUME NEW a \in DOMAIN agents'
             PROVE  Granted(agents[a].owner, a)'
  BY DEF OwnerWasGranted, Granted
<1>1. CASE a \in DOMAIN agents /\ agents'[a].owner = agents[a].owner
  <2>1. PICK client : client = agents[a].owner
    OBVIOUS
  <2>2. Granted(client, a)
    BY <1>1, <2>1 DEF OwnerWasGranted, Granted
  <2>3. Granted(client, a)'
    BY <2>2, GrantsAreForEver
  <2> QED BY <1>1, <2>1, <2>3 DEF Granted
<1>2. CASE ~(a \in DOMAIN agents /\ agents'[a].owner = agents[a].owner)
  <2>0. \A b \in DOMAIN agents : agents[b] \in AgentRow
    BY DEF TypeOK, StoreTypeOK, IsTable
  <2>1. ASSUME NEW b, admin_revoke_agent(b) PROVE FALSE
    <3>1. /\ DOMAIN agents' = DOMAIN agents
          /\ agents'[a] = agents[a] \/ agents'[a] = [agents[a] EXCEPT !.status = "revoked"]
      BY <2>1 DEF admin_revoke_agent
    <3> QED BY <1>2, <2>0, <3>1 DEF AgentRow
  <2>2. PICK r \in Requests : Commit(r)
    BY <1>2, <2>1, IdentityStep
  <2>3. insert_agent(env(r), call[r].client)
    <3>1. ASSUME NEW b, NEW x, agents' = [agents EXCEPT ![b].endpoint = x] PROVE FALSE
      BY <1>2, <2>0, <3>1 DEF AgentRow
    <3>2. ASSUME NEW b, NEW x, NEW y, agents' = [agents EXCEPT ![b].kid = x, ![b].key = y]
          PROVE  FALSE
      <4>1. /\ DOMAIN agents' = DOMAIN agents
            /\ a # b => agents'[a] = agents[a]
            /\ a = b => agents'[a] = [agents[a] EXCEPT !.kid = x, !.key = y]
        BY <3>2
      <4> QED BY <1>2, <2>0, <4>1 DEF AgentRow
    <3>3. ASSUME NEW b, NEW x, agents' = [agents EXCEPT ![b].status = x] PROVE FALSE
      BY <1>2, <2>0, <3>3 DEF AgentRow
    <3>4. \/ insert_agent(env(r), call[r].client)
          \/ update_agent(env(r))
          \/ agents' = [agents EXCEPT ![env(r).sender].kid = env(r).body.newKid,
                                      ![env(r).sender].key = env(r).body.newKey]
          \/ agents' = [agents EXCEPT ![env(r).sender].status = "revoked"]
      BY <2>2, CommitCases
    <3>5. ~update_agent(env(r))
      BY <3>1 DEF update_agent
    <3>6. agents' # [agents EXCEPT ![env(r).sender].kid = env(r).body.newKid,
                                   ![env(r).sender].key = env(r).body.newKey]
      BY ONLY <3>2
    <3>7. agents' # [agents EXCEPT ![env(r).sender].status = "revoked"]
      BY ONLY <3>3
    <3> QED BY <3>4, <3>5, <3>6, <3>7
  <2>4. a = env(r).sender /\ agents'[a].owner = call[r].client
    BY <1>2, <2>3 DEF insert_agent, Put
  <2>5. PICK client : client = call[r].client
    OBVIOUS
  <2>6. Granted(client, a)
    BY <2>2, <2>4, <2>5 DEF HandlersWereGranted, Commit
  <2>7. Granted(client, a)'
    BY <2>6, GrantsAreForEver
  <2> QED BY <2>4, <2>5, <2>7 DEF Granted
<1> QED BY <1>1, <1>2

\* Nobody owns an Agent outside of what he was granted, although the grant is
\* checked before the transaction and may be revoked in between.
THEOREM OwnersGranted == Spec => []OwnerWasGranted
<1>1. Init => HandlersWereGranted /\ OwnerWasGranted
  BY DEF Init, ServiceInit, HandlersWereGranted, OwnerWasGranted
<1>2. IInv /\ HandlersWereGranted /\ OwnerWasGranted /\ [Next]_vars
         => HandlersWereGranted' /\ OwnerWasGranted'
  BY HandlersGrantedStep, OwnerStep DEF IInv
<1> QED BY <1>1, <1>2, Invariance, PTL DEF Spec

-----------------------------------------------------------------------------
(* The audit log *)

\* What AuditExplainsTables says of one Agent; who has no row yet has never
\* rotated, which makes the number of his kids right when he gets one.
Accounted(a) ==
    /\ audit[a]["publish"] = Cardinality(Committed(a, "registry.publish"))
    /\ audit[a]["rotate"] = Cardinality(Committed(a, "registry.rotate"))
    /\ audit[a]["revoke"] = Cardinality(Committed(a, "registry.revoke"))
    /\ a \in DOMAIN agents <=> audit[a]["publish"] > 0
    /\ a \notin DOMAIN agents => audit[a]["rotate"] = 0
    /\ Cardinality(KidsOf(a)) = IF a \in DOMAIN agents
                                THEN 1 + audit[a]["rotate"] ELSE 0
    /\ audit[a]["revoke"] + audit[a]["admin.revoke"] =
          IF a \in DOMAIN agents /\ agents[a].status = "revoked"
          THEN 1 ELSE 0

\* However many requests and kids are possible, finitely many have come so far.
AuditExact ==
    /\ IsFiniteSet(committed)
    /\ IsFiniteSet(DOMAIN keyHistory)
    /\ \A a \in Agents : Accounted(a)

\* A step changes the tables of identities and the log together, by a commit or
\* by agent revoke, or not at all.
LEMMA AccountStep ==
    ASSUME TypeOK, [Next]_vars
    PROVE  \/ UNCHANGED <<agents, keyHistory, audit, committed>>
           \/ \E r \in Requests : Commit(r)
           \/ \E a : Resolvable(a) /\ admin_revoke_agent(a) /\ UNCHANGED committed
<1>1. CASE ServiceStep
  BY <1>1, HandlerFrame DEF ServiceStep, Crash, tables
<1>2. CASE CommandStep
  <2>1. PICK c \in Commands : AdminStep(c) /\ UNCHANGED committed
    BY <1>2 DEF CommandStep, handlers
  <2>2. CASE AgentRevoke(c)
    BY <2>1, <2>2 DEF AgentRevoke, Fail, tables
  <2>3. CASE ~AgentRevoke(c)
    BY <2>1, <2>3 DEF AdminStep, Advance, DeveloperAdd, DeveloperRotateKey,
       DeveloperRevoke, NamespaceGrant, GrantSelect, GrantInsert,
       NamespaceRevoke, PrintResult, Kill, Fail, tables
  <2> QED BY <2>2, <2>3
<1>3. CASE Tick \/ UNCHANGED vars
  BY <1>3 DEF Tick, vars, tables, handlers
<1> QED BY <1>1, <1>2, <1>3 DEF Next

\* A commit counts once, for its Agent and its type.
LEMMA CommitCounts ==
    ASSUME IInv, IsFiniteSet(committed), [Next]_vars,
           NEW r \in Requests, Commit(r), NEW a, NEW type
    PROVE  /\ IsFiniteSet(committed)'
           /\ Cardinality(Committed(a, type)) \in Nat
           /\ Cardinality(Committed(a, type))' =
                 Cardinality(Committed(a, type)) +
                 (IF env(r).sender = a /\ env(r).type = type THEN 1 ELSE 0)
<1> USE DEF IInv
<1>1. committed' = committed \cup {r} /\ r \notin committed /\ committed \subseteq Requests
  BY DEF Commit, HandlersGrounded, Grounded, TypeOK, ServiceTypeOK
<1>2. \A q \in committed' : env(q)' = env(q)
  BY <1>1, CommittedStays DEF Commit, OnLoop
<1>3. Committed(a, type)' = {q \in committed' : env(q).sender = a /\ env(q).type = type}
  BY <1>2 DEF Committed
<1>4. IsFiniteSet(Committed(a, type)) /\ r \notin Committed(a, type)
  BY <1>1, FS_Subset DEF Committed
<1>5. Committed(a, type)' = IF env(r).sender = a /\ env(r).type = type
                            THEN Committed(a, type) \cup {r} ELSE Committed(a, type)
  BY <1>1, <1>3 DEF Committed
<1>6. Cardinality(Committed(a, type))' = Cardinality(Committed(a, type)')
  OBVIOUS
<1> HIDE DEF IInv
<1>7. Cardinality(Committed(a, type)) \in Nat
  BY <1>4, FS_CardinalityType
<1>8. IsFiniteSet(committed)'
  BY <1>1, FS_AddElement
<1>9. Cardinality(Committed(a, type) \cup {r}) = Cardinality(Committed(a, type)) + 1
  BY <1>4, FS_AddElement
<1> QED BY <1>5, <1>6, <1>7, <1>8, <1>9

\* A new kid counts once, for its Agent.
LEMMA NewKid ==
    ASSUME IsFiniteSet(DOMAIN keyHistory), NEW k, k \notin DOMAIN keyHistory,
           DOMAIN keyHistory' = DOMAIN keyHistory \cup {k},
           \A j \in DOMAIN keyHistory : keyHistory'[j].agent = keyHistory[j].agent,
           NEW a
    PROVE  /\ IsFiniteSet(DOMAIN keyHistory)'
           /\ Cardinality(KidsOf(a)) \in Nat
           /\ Cardinality(KidsOf(a))' =
                 Cardinality(KidsOf(a)) + (IF keyHistory'[k].agent = a THEN 1 ELSE 0)
<1>1. IsFiniteSet(KidsOf(a)) /\ k \notin KidsOf(a)
  BY FS_Subset DEF KidsOf
<1>2. KidsOf(a)' = IF keyHistory'[k].agent = a THEN KidsOf(a) \cup {k} ELSE KidsOf(a)
  BY DEF KidsOf
<1>3. Cardinality(KidsOf(a))' = Cardinality(KidsOf(a)')
  OBVIOUS
<1>4. Cardinality(KidsOf(a)) \in Nat
  BY <1>1, FS_CardinalityType
<1>5. IsFiniteSet(DOMAIN keyHistory)'
  BY FS_AddElement
<1>6. Cardinality(KidsOf(a) \cup {k}) = Cardinality(KidsOf(a)) + 1
  BY <1>1, FS_AddElement
<1> QED BY <1>2, <1>3, <1>4, <1>5, <1>6

\* A step that adds no kid leaves every Agent his kids.
LEMMA SameKids ==
    ASSUME DOMAIN keyHistory' = DOMAIN keyHistory,
           \A j \in DOMAIN keyHistory : keyHistory'[j].agent = keyHistory[j].agent,
           NEW a
    PROVE  /\ (IsFiniteSet(DOMAIN keyHistory) => IsFiniteSet(DOMAIN keyHistory)')
           /\ Cardinality(KidsOf(a))' = Cardinality(KidsOf(a))
<1>1. KidsOf(a)' = KidsOf(a)
  BY DEF KidsOf
<1> QED BY <1>1

\* What the commit of each type does to one Agent's row, his kids and the log.
LEMMA CommitAccounted ==
    ASSUME IInv, AuditExact, [Next]_vars, NEW r \in Requests, Commit(r), NEW a \in Agents
    PROVE  Accounted(a)' /\ IsFiniteSet(DOMAIN keyHistory)'
<1> DEFINE e == env(r)
<1> USE DEF IInv
<1>1. /\ e.sender \in Agents
      /\ transaction(r)
      /\ IsFiniteSet(committed) /\ IsFiniteSet(DOMAIN keyHistory) /\ Accounted(a)
  BY AcceptedEnvelope DEF Commit, OnLoop, AuditExact
<1>2. ASSUME NEW type PROVE
         /\ Cardinality(Committed(a, type)) \in Nat
         /\ Cardinality(Committed(a, type))' =
               Cardinality(Committed(a, type)) + (IF e.sender = a /\ e.type = type THEN 1 ELSE 0)
  BY <1>1, CommitCounts
<1>3. /\ DOMAIN agents \subseteq Agents
      /\ \A b \in DOMAIN agents : agents[b] \in AgentRow
      /\ \A k \in DOMAIN keyHistory : keyHistory[k] \in KeyRow
  BY DEF TypeOK, StoreTypeOK, IsTable
<1> DEFINE pub == audit[a]["publish"]
           rot == audit[a]["rotate"]
           rev == audit[a]["revoke"]
           adm == audit[a]["admin.revoke"]
           revoked == a \in DOMAIN agents /\ agents[a].status = "revoked"
<1>4. pub \in Nat /\ rot \in Nat /\ rev \in Nat /\ adm \in Nat
  BY DEF TypeOK, StoreTypeOK, AuditActions
<1>5. CASE /\ e.sender \notin DOMAIN agents
           /\ e.body.kid \notin DOMAIN keyHistory
           /\ e.type = "registry.publish"
           /\ insert_agent(e, call[r].client)
  <2>1. Audit(e.sender, "publish")
    BY <1>1, <1>5 DEF transaction, publish
  <2>2. /\ pub' = pub + (IF a = e.sender THEN 1 ELSE 0)
        /\ rot' = rot /\ rev' = rev /\ adm' = adm
    BY <1>1, <2>1 DEF Audit, AuditActions, TypeOK, StoreTypeOK
  <2>3. /\ DOMAIN agents' = DOMAIN agents \cup {e.sender}
        /\ agents'[e.sender].status = "active"
        /\ \A b \in DOMAIN agents : agents'[b] = agents[b]
    BY <1>5 DEF insert_agent, Put
  <2>4. /\ DOMAIN keyHistory' = DOMAIN keyHistory \cup {e.body.kid}
        /\ keyHistory'[e.body.kid].agent = e.sender
        /\ \A k \in DOMAIN keyHistory : keyHistory'[k] = keyHistory[k]
    BY <1>5 DEF insert_agent, Put
  <2>5. PICK k : k = e.body.kid
    OBVIOUS
  <2>6. /\ IsFiniteSet(DOMAIN keyHistory)'
        /\ Cardinality(KidsOf(a)) \in Nat
        /\ Cardinality(KidsOf(a))' =
              Cardinality(KidsOf(a)) + (IF e.sender = a THEN 1 ELSE 0)
    BY <1>1, <1>5, <2>4, <2>5, NewKid
  <2> QED
    BY <1>1, <1>2, <1>4, <1>5, <2>2, <2>3, <2>6 DEF Accounted
<1>6. CASE Resolvable(e.sender) /\ e.type = "registry.publish" /\ update_agent(e)
  <2>1. Audit(e.sender, "publish")
    BY <1>1, <1>6 DEF transaction, publish
  <2>2. /\ pub' = pub + (IF a = e.sender THEN 1 ELSE 0)
        /\ rot' = rot /\ rev' = rev /\ adm' = adm
    BY <1>1, <2>1 DEF Audit, AuditActions, TypeOK, StoreTypeOK
  <2>3. /\ DOMAIN agents' = DOMAIN agents
        /\ \A b \in DOMAIN agents : agents'[b].status = agents[b].status
    BY <1>3, <1>6 DEF update_agent, AgentRow
  <2>4. /\ IsFiniteSet(DOMAIN keyHistory)'
        /\ Cardinality(KidsOf(a))' = Cardinality(KidsOf(a))
    BY <1>1, <1>6, SameKids DEF update_agent
  <2> QED
    BY <1>1, <1>2, <1>4, <1>6, <2>2, <2>3, <2>4 DEF Accounted, Resolvable
<1>7. CASE /\ Resolvable(e.sender)
           /\ e.body.newKid \notin DOMAIN keyHistory
           /\ e.type = "registry.rotate"
           /\ rotate_keys(e, seen[r].kid)
           /\ agents' = [agents EXCEPT ![e.sender].kid = e.body.newKid,
                                       ![e.sender].key = e.body.newKey]
  <2>1. Audit(e.sender, "rotate")
    BY <1>1, <1>7 DEF transaction, rotate
  <2>2. /\ rot' = rot + (IF a = e.sender THEN 1 ELSE 0)
        /\ pub' = pub /\ rev' = rev /\ adm' = adm
    BY <1>1, <2>1 DEF Audit, AuditActions, TypeOK, StoreTypeOK
  <2>3. /\ DOMAIN agents' = DOMAIN agents
        /\ \A b \in DOMAIN agents : agents'[b].status = agents[b].status
    <3>1. DOMAIN agents' = DOMAIN agents
      BY <1>7
    <3>2. ASSUME NEW b \in DOMAIN agents
          PROVE  \/ agents'[b] = agents[b]
                 \/ agents'[b] = [agents[b] EXCEPT !.kid = e.body.newKid, !.key = e.body.newKey]
      BY <1>7
    <3> QED BY <1>3, <3>1, <3>2 DEF AgentRow
  <2>4. /\ DOMAIN keyHistory' = DOMAIN keyHistory \cup {e.body.newKid}
        /\ keyHistory'[e.body.newKid].agent = e.sender
        /\ \A k \in DOMAIN keyHistory : keyHistory'[k].agent = keyHistory[k].agent
    BY <1>3, <1>7 DEF rotate_keys, Put, KeyRow
  <2>5. PICK k : k = e.body.newKid
    OBVIOUS
  <2>6. /\ IsFiniteSet(DOMAIN keyHistory)'
        /\ Cardinality(KidsOf(a)) \in Nat
        /\ Cardinality(KidsOf(a))' =
              Cardinality(KidsOf(a)) + (IF e.sender = a THEN 1 ELSE 0)
    BY <1>1, <1>7, <2>4, <2>5, NewKid
  <2> QED
    BY <1>1, <1>2, <1>4, <1>7, <2>2, <2>3, <2>6 DEF Accounted, Resolvable
<1>8. CASE /\ Resolvable(e.sender)
           /\ e.type = "registry.revoke"
           /\ agents' = [agents EXCEPT ![e.sender].status = "revoked"]
           /\ keyHistory' = [keyHistory EXCEPT ![seen[r].kid].status = "inactive"]
  <2>1. Audit(e.sender, "revoke")
    BY <1>1, <1>8 DEF transaction, revoke
  <2>2. /\ rev' = rev + (IF a = e.sender THEN 1 ELSE 0)
        /\ pub' = pub /\ rot' = rot /\ adm' = adm
    BY <1>1, <2>1 DEF Audit, AuditActions, TypeOK, StoreTypeOK
  <2>3. /\ DOMAIN agents' = DOMAIN agents
        /\ \A b \in DOMAIN agents :
              agents'[b].status = IF b = e.sender THEN "revoked" ELSE agents[b].status
    BY <1>3, <1>8 DEF AgentRow
  <2>4. /\ IsFiniteSet(DOMAIN keyHistory)'
        /\ Cardinality(KidsOf(a))' = Cardinality(KidsOf(a))
    <3>1. /\ DOMAIN keyHistory' = DOMAIN keyHistory
          /\ \A k \in DOMAIN keyHistory : keyHistory'[k].agent = keyHistory[k].agent
      BY <1>3, <1>8 DEF KeyRow
    <3> QED BY <1>1, <3>1, SameKids
  <2> QED
    BY <1>1, <1>2, <1>4, <1>8, <2>2, <2>3, <2>4 DEF Accounted, Resolvable
<1> QED BY <1>5, <1>6, <1>7, <1>8, CommitCases

\* agent revoke counts once and adds no kid.
LEMMA AdminRevokeAccounted ==
    ASSUME TypeOK, AuditExact, NEW b, Resolvable(b), admin_revoke_agent(b),
           NEW a \in Agents, \A type : Committed(a, type)' = Committed(a, type)
    PROVE  Accounted(a)' /\ IsFiniteSet(DOMAIN keyHistory)'
<1>1. /\ b \in DOMAIN agents /\ b \in Agents
      /\ \A c \in DOMAIN agents : agents[c] \in AgentRow
      /\ \A k \in DOMAIN keyHistory : keyHistory[k] \in KeyRow
      /\ IsFiniteSet(DOMAIN keyHistory) /\ Accounted(a)
  BY DEF Resolvable, TypeOK, StoreTypeOK, IsTable, AuditExact
<1>2. /\ \A x \in AuditActions : audit[a][x] \in Nat
      /\ \A x \in AuditActions \ {"admin.revoke"} : audit'[a][x] = audit[a][x]
      /\ audit'[a]["admin.revoke"] = audit[a]["admin.revoke"] + (IF a = b THEN 1 ELSE 0)
  BY <1>1 DEF admin_revoke_agent, Audit, AuditActions, TypeOK, StoreTypeOK
<1>3. /\ DOMAIN agents' = DOMAIN agents
      /\ \A c \in DOMAIN agents :
            agents'[c].status = IF c = b THEN "revoked" ELSE agents[c].status
  BY <1>1 DEF admin_revoke_agent, AgentRow
<1>4. /\ IsFiniteSet(DOMAIN keyHistory)'
      /\ Cardinality(KidsOf(a))' = Cardinality(KidsOf(a))
  <2>1. /\ DOMAIN keyHistory' = DOMAIN keyHistory
        /\ \A k \in DOMAIN keyHistory : keyHistory'[k].agent = keyHistory[k].agent
    BY <1>1 DEF admin_revoke_agent, KeyRow
  <2> QED BY <1>1, <2>1, SameKids
<1>5. agents[b].status = "active"
  BY DEF Resolvable
<1>6. \A type : Cardinality(Committed(a, type))' = Cardinality(Committed(a, type))
  OBVIOUS
<1>7. /\ audit'[a]["publish"] = audit[a]["publish"]
      /\ audit'[a]["rotate"] = audit[a]["rotate"]
      /\ audit'[a]["revoke"] = audit[a]["revoke"]
      /\ audit[a]["revoke"] \in Nat /\ audit[a]["admin.revoke"] \in Nat
  BY <1>2 DEF AuditActions
<1>8. /\ (a \in DOMAIN agents)' <=> a \in DOMAIN agents
      /\ audit'[a]["revoke"] + audit'[a]["admin.revoke"] =
            IF a \in DOMAIN agents' /\ agents'[a].status = "revoked" THEN 1 ELSE 0
  <2>1. /\ audit'[a]["admin.revoke"] = audit[a]["admin.revoke"] + (IF a = b THEN 1 ELSE 0)
        /\ audit[a]["revoke"] + audit[a]["admin.revoke"] =
              IF a \in DOMAIN agents /\ agents[a].status = "revoked" THEN 1 ELSE 0
    BY <1>1, <1>2 DEF Accounted
  <2>2. CASE a = b
    BY <1>1, <1>3, <1>5, <1>7, <2>1, <2>2
  <2>3. CASE a # b
    BY <1>3, <1>7, <2>1, <2>3
  <2> QED BY <2>2, <2>3
<1> QED BY <1>1, <1>4, <1>6, <1>7, <1>8 DEF Accounted

LEMMA AuditStep ==
    ASSUME IInv, AuditExact, [Next]_vars
    PROVE  AuditExact'
<1> USE DEF IInv
<1>1. committed \subseteq Requests
  BY DEF TypeOK, ServiceTypeOK
<1>2. ASSUME UNCHANGED committed, NEW a, NEW type
      PROVE  Committed(a, type)' = Committed(a, type)
  <2>1. \A q \in committed : env(q)' = env(q)
    BY <1>1, CommittedStays
  <2> QED BY <1>2, <2>1 DEF Committed
<1>3. CASE UNCHANGED <<agents, keyHistory, audit, committed>>
  BY <1>2, <1>3 DEF AuditExact, Accounted, KidsOf
<1>4. ASSUME NEW r \in Requests, Commit(r) PROVE AuditExact'
  <2>1. IsFiniteSet(committed)'
    BY <1>4, FS_AddElement DEF Commit, AuditExact
  <2>2. \A a \in Agents : Accounted(a)' /\ IsFiniteSet(DOMAIN keyHistory)'
    BY <1>4, CommitAccounted
  <2>3. env(r).sender \in Agents
    BY <1>4, AcceptedEnvelope DEF Commit, OnLoop
  <2> QED BY <2>1, <2>2, <2>3 DEF AuditExact
<1>5. ASSUME NEW b, Resolvable(b), admin_revoke_agent(b), UNCHANGED committed
      PROVE  AuditExact'
  <2>1. \A a \in Agents : Accounted(a)' /\ IsFiniteSet(DOMAIN keyHistory)'
    BY <1>2, <1>5, AdminRevokeAccounted
  <2>2. b \in Agents
    BY <1>5 DEF Resolvable, TypeOK, StoreTypeOK, IsTable
  <2>3. IsFiniteSet(committed)'
    BY <1>5 DEF AuditExact
  <2> QED BY <2>1, <2>2, <2>3 DEF AuditExact
<1> QED BY <1>3, <1>4, <1>5, AccountStep

\* The log explains the tables, for any number of Agents, requests and commands.
THEOREM AuditComplete == Spec => []AuditExplainsTables
<1>1. Init => AuditExact
  <2> SUFFICES ASSUME Init PROVE AuditExact
    OBVIOUS
  <2>1. \A a, type : Committed(a, type) = {}
    BY DEF Init, ServiceInit, Committed
  <2>2. \A a : KidsOf(a) = {}
    BY DEF Init, KidsOf
  <2>3. committed = {} /\ DOMAIN keyHistory = {} /\ DOMAIN agents = {}
    BY DEF Init, ServiceInit
  <2>4. \A a \in Agents : \A x \in AuditActions : audit[a][x] = 0
    BY DEF Init
  <2>5. IsFiniteSet({}) /\ Cardinality({}) = 0
    BY FS_EmptySet
  <2>6. /\ \A a, type : Cardinality(Committed(a, type)) = 0
        /\ \A a : Cardinality(KidsOf(a)) = 0
    BY <2>1, <2>2, <2>5
  <2>7. \A a \in Agents : Accounted(a)
    BY <2>3, <2>4, <2>6 DEF Accounted, AuditActions
  <2> QED BY <2>3, <2>5, <2>7 DEF AuditExact
<1>2. AuditExact => AuditExplainsTables
  BY DEF AuditExact, Accounted, AuditExplainsTables
<1>3. IInv /\ AuditExact /\ [Next]_vars => AuditExact'
  BY AuditStep
<1> QED BY <1>1, <1>2, <1>3, Invariance, PTL DEF Spec

-----------------------------------------------------------------------------
(* Replays *)

IdsOf(e) ==
    {<<e.sender, e.id>>} \cup
    IF e.type = "registry.rotate" THEN {<<e.sender, e.body.proof.id>>} ELSE {}

\* Every mutation that is signed gets IDs of its own (uuid4): two deliveries
\* that share one are deliveries of one signing.
OwnIds ==
    \A d, f \in Deliveries :
        (/\ d.env \notin {NotJson, NotEnvelope} /\ f.env \notin {NotJson, NotEnvelope}
         /\ IdsOf(d.env) \cap IdsOf(f.env) # {}) =>
            d.env.id = f.env.id /\ d.env.issued = f.env.issued

\* The event loop runs one handler at a time after its body.
OneOnLoop ==
    \A r, s \in Requests : pc[r] \in OnLoop /\ pc[s] \in OnLoop => r = s

Shares(r, s) == NoncesOf(r) \cap NoncesOf(s) # {}

\* What has committed was an envelope.  A handler on the loop whose ID has been
\* consumed found its row expired: the clock is at the end of the window or
\* past it, and verify_envelope accepts no later time.
AtTheEdge ==
    /\ \A r \in committed : env(r) \notin {NotJson, NotEnvelope}
    /\ \A r \in committed : \A s \in Requests :
          pc[s] \in OnLoop \ {"readback"} /\ Shares(r, s) =>
             /\ Expiry(env(s)) <= now
             /\ pc[s] = "commit" => verified[s] = Expiry(env(s))

\* Where a step may take a handler.
LEMMA LoopStep ==
    ASSUME TypeOK, [Next]_vars, NEW s \in Requests, pc'[s] \in OnLoop
    PROVE  \/ pc'[s] = pc[s] /\ verified'[s] = verified[s] /\ committed' = committed
           \/ pc[s] \in OnLoop \ {"readback"} /\ pc'[s] \notin {"commit", "readback"}
                /\ verified'[s] = verified[s] /\ committed' = committed
           \/ ReadBody(s) /\ committed' = committed
           \/ Verify(s) /\ committed' = committed
           \/ \E q \in Requests : Commit(q)
<1>1. pc \in [Requests -> Stages] /\ verified \in [Requests -> Nat]
  BY DEF TypeOK, ServiceTypeOK
<1>2. ASSUME NEW q \in Requests, NEW code, NEW next, Check(q, code, next)
      PROVE  /\ verified' = verified /\ committed' = committed
             /\ \/ pc'[s] = pc[s]
                \/ s = q /\ pc'[s] = next
                \/ s = q /\ pc'[s] = "done"
  BY <1>1, <1>2 DEF Check, Refuse, Answer, Goto
<1>3. ASSUME NEW q \in Requests, Arrive(q) \/ Step(q), ~Commit(q)
      PROVE  \/ pc'[s] = pc[s] /\ verified'[s] = verified[s] /\ committed' = committed
             \/ pc[s] \in OnLoop \ {"readback"} /\ pc'[s] \notin {"commit", "readback"}
                  /\ verified'[s] = verified[s] /\ committed' = committed
             \/ ReadBody(s) /\ committed' = committed
             \/ Verify(s) /\ committed' = committed
  <2>1. CASE Arrive(q)
    BY <1>2, <2>1 DEF Arrive, OnLoop
  <2>2. CASE ReadBody(q)
    <3>1. CASE env(q) = NotJson
      BY <1>1, <2>2, <3>1 DEF ReadBody, Answer, Goto, OnLoop
    <3>2. CASE env(q) # NotJson
      BY <1>2, <2>2, <3>2 DEF ReadBody, OnLoop
    <3> QED BY <3>1, <3>2
  <2>3. CASE CheckNamespace(q)
    BY <1>2, <2>3 DEF CheckNamespace, OnLoop
  <2>4. CASE Resolve(q)
    BY <1>1, <2>4 DEF Resolve, Refuse, Answer, Goto, OnLoop
  <2>5. CASE Verify(q)
    BY <1>1, <2>5 DEF Verify, Refuse, Answer, Goto, OnLoop
  <2>6. CASE RollBack(q) \/ LockTimeout(q) \/ ReadBack(q)
    BY <1>1, <2>6 DEF RollBack, LockTimeout, ReadBack, Refuse, Answer, Goto, OnLoop
  <2> QED BY <1>3, <2>1, <2>2, <2>3, <2>4, <2>5, <2>6 DEF Step
<1>4. CASE Crash
  BY <1>4 DEF Crash, InFlight, OnLoop
<1>5. CASE CommandStep \/ Tick \/ UNCHANGED vars
  BY <1>5 DEF CommandStep, Tick, vars, handlers
<1> QED BY <1>3, <1>4, <1>5 DEF Next, ServiceStep

\* A handler gets on the loop only when it is free.
LEMMA OneOnLoopStep ==
    ASSUME TypeOK, OneOnLoop, [Next]_vars
    PROVE  OneOnLoop'
<1>1. pc \in [Requests -> Stages]
  BY DEF TypeOK, ServiceTypeOK
<1>2. ASSUME NEW q \in Requests, Arrive(q) \/ Step(q)
      PROVE  /\ \A r \in Requests \ {q} : pc'[r] = pc[r]
             /\ \/ pc'[q] \notin OnLoop \/ pc[q] \in OnLoop
                \/ \A r \in Requests : pc[r] \notin OnLoop
  <2>1. ASSUME NEW code, NEW next, Check(q, code, next)
        PROVE  \A r \in Requests \ {q} : pc'[r] = pc[r]
    BY <1>1, <2>1 DEF Check, Refuse, Answer, Goto
  <2>2. CASE Arrive(q) \/ ReadBody(q)
    BY <1>1, <2>1, <2>2 DEF Arrive, ReadBody, LoopFree, Answer, Goto
  <2>3. CASE CheckNamespace(q)
    BY <2>1, <2>3 DEF CheckNamespace, OnLoop
  <2>4. CASE Resolve(q) \/ Verify(q) \/ Commit(q)
    BY <1>1, <2>4 DEF Resolve, Verify, Commit, Refuse, Answer, Goto, OnLoop
  <2>5. CASE RollBack(q) \/ LockTimeout(q) \/ ReadBack(q)
    BY <1>1, <2>5 DEF RollBack, LockTimeout, ReadBack, Refuse, Answer, Goto, OnLoop
  <2> QED BY <1>2, <2>2, <2>3, <2>4, <2>5 DEF Step
<1>3. CASE \E q \in Requests : Arrive(q) \/ Step(q)
  BY <1>2, <1>3 DEF OneOnLoop
<1>4. CASE Crash
  BY <1>4 DEF Crash, InFlight, OneOnLoop, OnLoop
<1>5. CASE CommandStep \/ Tick \/ UNCHANGED vars
  BY <1>5 DEF CommandStep, Tick, vars, handlers, OneOnLoop
<1> QED BY <1>3, <1>4, <1>5 DEF Next, ServiceStep

\* Two handlers that share a request ID carry the same signing.
LEMMA SharedSigning ==
    ASSUME TypeOK, HandlersGrounded, OwnIds, NEW r \in Requests, NEW s \in Requests,
           pc[r] # "idle", pc[s] # "idle", Shares(r, s),
           env(r) \notin {NotJson, NotEnvelope}, env(s) \notin {NotJson, NotEnvelope}
    PROVE  /\ env(s).sender = env(r).sender
           /\ env(s).id = env(r).id
           /\ Expiry(env(s)) = Expiry(env(r))
           /\ Shares(s, r)
<1>1. call[r] \in Deliveries /\ call[s] \in Deliveries
  BY DEF TypeOK, ServiceTypeOK
<1>2. NoncesOf(r) = IdsOf(call[r].env) /\ NoncesOf(s) = IdsOf(call[s].env)
  BY DEF NoncesOf, IdsOf, env
<1>3. \E n : n \in IdsOf(call[r].env) /\ n \in IdsOf(call[s].env)
  BY <1>2 DEF Shares
<1>4. env(s).id = env(r).id /\ env(s).issued = env(r).issued
  BY <1>1, <1>3 DEF OwnIds, env
<1>5. env(s).sender = env(r).sender
  BY <1>3 DEF IdsOf, env
<1> QED BY <1>4, <1>5 DEF Expiry, Shares

\* The part of AtTheEdge that a handler on the loop has to keep.
LEMMA EdgeHandler ==
    ASSUME IInv, Remembered, AtTheEdge, OneOnLoop, OwnIds, [Next]_vars,
           UNCHANGED committed, NEW r \in committed, NEW s \in Requests,
           pc'[s] \in OnLoop \ {"readback"}, Shares(r, s)', ~\E q \in Requests : Commit(q)
    PROVE  /\ Expiry(env(s))' <= now'
           /\ pc'[s] = "commit" => verified'[s] = Expiry(env(s))'
<1> USE DEF IInv
<1>1. r \in Requests /\ env(r) \notin {NotJson, NotEnvelope} /\ Expiry(env(r)) \in Int
  BY DEF TypeOK, ServiceTypeOK, AtTheEdge, Remembered
<1>2. now \in Nat /\ now' \in Nat /\ now <= now' /\ Second \in Nat /\ Second <= now
  BY PastStep, SecondGrows DEF TypeOK, StoreTypeOK
<1>3. env(r)' = env(r) /\ NoncesOf(r)' = NoncesOf(r)
  BY <1>1, CommittedStays
<1>4. pc[r] # "idle"
  BY <1>1 DEF HandlersGrounded, Grounded
<1>5. CASE pc[s] \in OnLoop
  <2>1. env(s)' = env(s) /\ NoncesOf(s)' = NoncesOf(s)
    BY <1>5, CommittedStays
  <2>2. Shares(r, s) /\ Expiry(env(s))' = Expiry(env(s))
    BY <1>3, <2>1 DEF Shares, Expiry
  <2>3. env(s) \notin {NotJson, NotEnvelope}
    BY <1>5 DEF HandlersGrounded, Grounded
  <2>4. /\ env(s).sender = env(r).sender
        /\ Expiry(env(s)) = Expiry(env(r))
    <3>1. pc[s] # "idle"
      BY <1>5 DEF OnLoop
    <3> QED BY <1>1, <1>4, <2>2, <2>3, <3>1, SharedSigning
  <2>5. ~ReadBody(s)
    BY <1>5 DEF ReadBody, OnLoop
  <2>6. CASE pc[s] # "readback"
    <3>1. Expiry(env(s)) <= now /\ (pc[s] = "commit" => verified[s] = Expiry(env(s)))
      BY <1>1, <1>5, <2>2, <2>6 DEF AtTheEdge
    <3>2. CASE Verify(s)
      <4>1. UNCHANGED now
        BY <3>2 DEF Verify
      <4>2. CASE pc'[s] = "commit"
        <5>1. verify_refusal(env(s), seen[s]) = "ok" /\ verified'[s] = now
          BY <3>2, <4>2 DEF Verify, Refuse, Answer, Goto, TypeOK, ServiceTypeOK
        <5>2. Fresh(env(s), now)
          BY <5>1 DEF verify_refusal, VerifyRefusal
        <5>3. env(s).issued \in Nat
          BY <1>5, AcceptedEnvelope
        <5>4. now <= Expiry(env(s))
          BY <1>2, <5>2, <5>3, SkewAssumption DEF Fresh, Distance, Expiry
        <5> QED BY <1>1, <1>2, <2>2, <2>4, <3>1, <4>1, <5>1, <5>4
      <4> QED BY <2>2, <3>1, <4>1, <4>2
    <3>3. CASE ~Verify(s)
      <4>1. \/ pc'[s] = pc[s] /\ verified'[s] = verified[s]
            \/ pc'[s] # "commit"
        BY <2>5, <3>3, LoopStep
      <4> QED BY <1>1, <1>2, <2>2, <2>4, <3>1, <4>1
    <3> QED BY <3>2, <3>3
  <2>7. CASE pc[s] = "readback"
    <3>1. ~Verify(s)
      BY <2>7 DEF Verify
    <3> QED BY <2>5, <2>7, <3>1, LoopStep
  <2> QED BY <2>6, <2>7
<1>6. CASE pc[s] \notin OnLoop
  <2>1. ReadBody(s)
    <3>1. ~Verify(s)
      BY <1>6 DEF Verify, OnLoop
    <3> QED BY <1>6, <3>1, LoopStep
  <2>2. /\ pc[s] = "body" /\ UNCHANGED <<call, now>>
        /\ env(s) # NotJson /\ envelope_refusal(env(s)) = "ok" /\ pc'[s] = "namespace"
    BY <2>1 DEF ReadBody, Check, Refuse, Answer, Goto, TypeOK, ServiceTypeOK, OnLoop
  <2>3. env(s) # NotEnvelope /\ ~has_nonce(env(s).sender, env(s).id)
    BY <2>2 DEF envelope_refusal
  <2>4. env(s)' = env(s) /\ NoncesOf(s)' = NoncesOf(s)
    BY <2>2 DEF env, NoncesOf
  <2>5. Shares(r, s) /\ Expiry(env(s))' = Expiry(env(s))
    BY <1>3, <2>4 DEF Shares, Expiry
  <2>6. /\ env(s).sender = env(r).sender /\ env(s).id = env(r).id
        /\ Expiry(env(s)) = Expiry(env(r))
    BY <1>1, <1>4, <2>2, <2>3, <2>5, SharedSigning
  <2>7. <<env(s).sender, env(s).id>> \in NoncesOf(r)
    BY <2>6 DEF NoncesOf
  <2>8. ~(Second < Expiry(env(r)))
    BY <2>3, <2>7 DEF Remembered, has_nonce
  <2>9. Expiry(env(r)) <= now
    BY <1>1, <1>2, <2>8
  <2> QED BY <2>2, <2>5, <2>6, <2>9
<1> QED BY <1>5, <1>6

\* The commit of a request whose ID had been consumed was verified at the edge.
LEMMA EdgeStep ==
    ASSUME IInv, Remembered, AtTheEdge, OneOnLoop, OwnIds, ReplayOnlyAtTheEdge, [Next]_vars
    PROVE  AtTheEdge' /\ ReplayOnlyAtTheEdge'
<1> USE DEF IInv
<1>1. committed \subseteq Requests
  BY DEF TypeOK, ServiceTypeOK
<1>2. \A r \in committed : /\ env(r)' = env(r) /\ NoncesOf(r)' = NoncesOf(r)
                            /\ Expiry(env(r))' = Expiry(env(r))
  BY <1>1, CommittedStays DEF Expiry
<1>3. \A r \in committed : pc[r] \in {"readback", "done"}
  BY <1>1 DEF HandlersGrounded, Grounded
<1>4. CASE ~\E q \in Requests : Commit(q)
  <2>1. committed' = committed
    BY <1>4, PastStep
  <2>2. AtTheEdge'
    <3>1. \A r \in committed : env(r)' \notin {NotJson, NotEnvelope}
      BY <1>2 DEF AtTheEdge
    <3>2. ASSUME NEW r \in committed, NEW s \in Requests,
                 pc'[s] \in OnLoop \ {"readback"}, Shares(r, s)'
          PROVE  /\ Expiry(env(s))' <= now'
                 /\ pc'[s] = "commit" => verified'[s] = Expiry(env(s))'
      BY <1>4, <2>1, <3>2, EdgeHandler
    <3> QED BY <2>1, <3>1, <3>2 DEF AtTheEdge
  <2>3. \A r \in committed : verified'[r] = verified[r]
    <3>1. CASE \E q \in Requests : Verify(q)
      <4>1. PICK q \in Requests : Verify(q)
        BY <3>1
      <4>2. q \notin committed
        BY <1>3, <4>1 DEF Verify
      <4> QED BY <1>1, <4>1, <4>2 DEF Verify, Refuse, TypeOK, ServiceTypeOK
    <3>2. CASE ~\E q \in Requests : Verify(q)
      <4>1. ASSUME NEW q \in Requests, NEW code, NEW next, Check(q, code, next)
            PROVE  verified' = verified
        BY <4>1 DEF Check, Refuse
      <4>2. ASSUME NEW q \in Requests, Arrive(q) \/ Step(q) PROVE verified' = verified
        <5>1. CASE Arrive(q) \/ ReadBody(q) \/ CheckNamespace(q)
          BY <4>1, <5>1 DEF Arrive, ReadBody, CheckNamespace
        <5>2. CASE Resolve(q) \/ RollBack(q) \/ LockTimeout(q) \/ ReadBack(q)
          BY <5>2 DEF Resolve, RollBack, LockTimeout, ReadBack, Refuse
        <5> QED BY <1>4, <3>2, <4>2, <5>1, <5>2 DEF Step
      <4>3. verified' = verified
        BY <4>2 DEF Next, ServiceStep, Crash, CommandStep, Tick, vars, handlers
      <4> QED BY <4>3
    <3> QED BY <3>1, <3>2
  <2>4. ReplayOnlyAtTheEdge'
    BY <1>2, <2>1, <2>3 DEF ReplayOnlyAtTheEdge
  <2> QED BY <2>2, <2>4
<1>5. ASSUME NEW q \in Requests, Commit(q) PROVE AtTheEdge' /\ ReplayOnlyAtTheEdge'
  <2>1. /\ committed' = committed \cup {q} /\ UNCHANGED <<verified, call>>
        /\ pc[q] = "commit"
    BY <1>5 DEF Commit
  <2>2. /\ pc'[q] \in {"readback", "done"}
        /\ \A s \in Requests \ {q} : pc'[s] = pc[s]
    BY <1>5 DEF Commit, Answer, Goto, TypeOK, ServiceTypeOK
  <2>3. \A s \in Requests : pc'[s] \notin OnLoop \ {"readback"}
    <3> SUFFICES ASSUME NEW s \in Requests, pc'[s] \in OnLoop \ {"readback"} PROVE FALSE
      OBVIOUS
    <3>1. s # q /\ pc[s] \in OnLoop
      BY <2>2 DEF OnLoop
    <3> QED BY <2>1, <3>1 DEF OneOnLoop, OnLoop
  <2>4. \A r \in Requests : env(r)' = env(r) /\ NoncesOf(r)' = NoncesOf(r)
    BY <2>1 DEF env, NoncesOf
  <2>5. env(q) \notin {NotJson, NotEnvelope}
    BY <2>1 DEF HandlersGrounded, Grounded, OnLoop
  <2>6. AtTheEdge'
    BY <2>1, <2>3, <2>4, <2>5, <1>1 DEF AtTheEdge
  <2>7. ASSUME NEW r \in committed, Shares(r, q) PROVE verified[q] = Expiry(env(q))
    BY <2>1, <2>7 DEF AtTheEdge, OnLoop
  <2>8. ASSUME NEW r \in committed', NEW s \in committed', r # s,
               NoncesOf(r) \cap NoncesOf(s) # {}
        PROVE  \E t \in {r, s} : verified[t] = Expiry(env(t))
    <3>1. CASE r \in committed /\ s \in committed
      BY <2>8, <3>1 DEF ReplayOnlyAtTheEdge
    <3>2. CASE s = q
      <4>1. r \in committed /\ Shares(r, q)
        BY <2>1, <2>8, <3>2 DEF Shares
      <4> QED BY <2>7, <3>2, <4>1
    <3>3. CASE r = q
      <4>1. s \in committed /\ Shares(s, q)
        BY <2>1, <2>8, <3>3 DEF Shares
      <4> QED BY <2>7, <3>3, <4>1
    <3> QED BY <2>1, <3>1, <3>2, <3>3
  <2>9. \A r \in Requests : Expiry(env(r))' = Expiry(env(r))
    BY <2>4 DEF Expiry
  <2>10. ReplayOnlyAtTheEdge'
    BY <1>1, <2>1, <2>4, <2>8, <2>9 DEF ReplayOnlyAtTheEdge
  <2> QED BY <2>6, <2>10
<1> QED BY <1>4, <1>5

\* If no two signings share an ID, a request ID commits twice only through a
\* verification at the last instant of its window.
THEOREM ReplayAtTheEdge == ASSUME OwnIds PROVE Spec => []ReplayOnlyAtTheEdge
<1>1. Init => Remembered /\ AtTheEdge /\ OneOnLoop /\ ReplayOnlyAtTheEdge
  BY DEF Init, ServiceInit, Remembered, AtTheEdge, OneOnLoop, OnLoop, ReplayOnlyAtTheEdge
<1>2. IInv /\ Remembered /\ AtTheEdge /\ OneOnLoop /\ ReplayOnlyAtTheEdge /\ [Next]_vars
         => Remembered' /\ AtTheEdge' /\ OneOnLoop' /\ ReplayOnlyAtTheEdge'
  BY RememberedStep, EdgeStep, OneOnLoopStep DEF IInv
<1> QED BY <1>1, <1>2, Invariance, PTL DEF Spec
====
