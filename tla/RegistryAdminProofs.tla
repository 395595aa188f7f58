------------------------ MODULE RegistryAdminProofs ------------------------
(***************************************************************************)
(* What the administrator's commands leave behind, for any commands, any   *)
(* number of them at a time and any kills: overlapping namespaces, and     *)
(* API keys that nobody has seen.                                          *)
(***************************************************************************)
EXTENDS RegistryProofs

-----------------------------------------------------------------------------
(* Overlapping namespaces *)

\* No two active rows held one scope when the Registry was opened, as the index
\* namespaces_active_unique demands.
DistinctAtFirst ==
    \A m, n \in DOMAIN ProvisionedScopes :
        ProvisionedScopes[m].status = "active" /\ ProvisionedScopes[n].status = "active"
        /\ ProvisionedScopes[m].scope = ProvisionedScopes[n].scope => m = n

\* The index itself, and what a SELECT that found no overlap has seen: rows
\* that stay, whose scopes are none that the overlap test rejects.
Distinct ==
    \A m, n \in ActiveScopes : namespaces[m].scope = namespaces[n].scope => m = n

SeenApart ==
    \A c \in Commands : \A n \in looked[c] :
        n \in DOMAIN namespaces /\ ~Overlaps(namespaces[n].scope, c.scope)

\* Of two scopes with an Agent ID in common, neither of them the root, one is
\* the other or strictly above it.
LEMMA OverlapIsFound ==
    ASSUME NEW s, NEW t, Overlapping(s, t), s.prefix # Root, t.prefix # Root
    PROVE  Overlaps(s, t) /\ Overlaps(t, s)
BY DEF Overlapping, Matches, Overlaps, StrictlyAbove

\* Three steps of the program touch a namespace row or look at one.
LEMMA NamespaceSteps ==
    ASSUME [Next]_vars
    PROVE  \/ UNCHANGED <<namespaces, looked>>
           \/ \E c \in Commands : GrantSelect(c) \/ GrantInsert(c) \/ NamespaceRevoke(c)
<1>1. CASE ServiceStep
  BY <1>1, HandlerFrame DEF ServiceStep, Crash, tables, Commit, commandLine
<1>2. CASE CommandStep
  <2>1. PICK c \in Commands : AdminStep(c)
    BY <1>2 DEF CommandStep
  <2>2. CASE ~GrantSelect(c) /\ ~GrantInsert(c) /\ ~NamespaceRevoke(c)
    BY <2>1, <2>2 DEF AdminStep, Advance, DeveloperAdd, DeveloperRotateKey,
       DeveloperRevoke, NamespaceGrant, AgentRevoke, PrintResult, Kill, Fail, Enter, tables
  <2> QED BY <2>2
<1>3. CASE Tick \/ UNCHANGED vars
  BY <1>3 DEF Tick, vars, tables, commandLine
<1> QED BY <1>1, <1>2, <1>3 DEF Next

LEMMA ApartStep ==
    ASSUME TypeOK, Distinct, SeenApart, [Next]_vars
    PROVE  Distinct' /\ SeenApart'
<1>0. /\ looked \in [Commands -> SUBSET NamespaceIds]
      /\ namespaces \in [DOMAIN namespaces -> NamespaceRow]
  BY DEF TypeOK, AdminTypeOK, StoreTypeOK, IsTable
<1>1. CASE UNCHANGED <<namespaces, looked>>
  BY <1>1 DEF Distinct, SeenApart, ActiveScopes
<1>2. ASSUME NEW c \in Commands, GrantSelect(c) PROVE Distinct' /\ SeenApart'
  <2>1. namespaces' = namespaces
    BY <1>2 DEF GrantSelect, Fail, tables
  <2>2. \/ looked' = looked
        \/ looked' = [looked EXCEPT ![c] = ActiveScopes] /\ ~OverlapFound(c.scope)
    BY <1>2 DEF GrantSelect, Fail, Enter
  <2>3. Distinct'
    BY <2>1 DEF Distinct, ActiveScopes
  <2>4. SeenApart'
    BY <1>0, <2>1, <2>2 DEF SeenApart, ActiveScopes, OverlapFound
  <2> QED BY <2>3, <2>4
<1>3. ASSUME NEW c \in Commands, GrantInsert(c) PROVE Distinct' /\ SeenApart'
  <2>1. looked' = looked
    BY <1>3 DEF GrantInsert, Fail, Enter
  <2>2. CASE namespaces' = namespaces
    BY <2>1, <2>2 DEF Distinct, SeenApart, ActiveScopes
  <2>3. CASE /\ c.id \notin DOMAIN namespaces /\ ~IndexViolated(c.scope)
             /\ insert_namespace(c.id, c.client, c.scope)
    <3>1. /\ DOMAIN namespaces' = DOMAIN namespaces \cup {c.id}
          /\ \A n \in DOMAIN namespaces : namespaces'[n] = namespaces[n]
          /\ namespaces'[c.id].scope = c.scope
      BY <2>3 DEF insert_namespace, Put
    <3>2. SeenApart'
      BY <2>1, <3>1 DEF SeenApart
    <3>3. Distinct'
      BY <2>3, <3>1 DEF Distinct, ActiveScopes, IndexViolated
    <3> QED BY <3>2, <3>3
  <2> QED BY <1>3, <2>2, <2>3 DEF GrantInsert, Fail, tables
<1>4. ASSUME NEW c \in Commands, NamespaceRevoke(c) PROVE Distinct' /\ SeenApart'
  <2>1. looked' = looked
    BY <1>4 DEF NamespaceRevoke, Fail, Enter
  <2>2. CASE namespaces' = namespaces
    BY <2>1, <2>2 DEF Distinct, SeenApart, ActiveScopes
  <2>3. CASE namespaces' = [namespaces EXCEPT ![c.id].status = "revoked"]
    <3>1. /\ DOMAIN namespaces' = DOMAIN namespaces
          /\ \A n \in DOMAIN namespaces :
                /\ namespaces'[n].scope = namespaces[n].scope
                /\ namespaces'[n].status = "active" => namespaces[n].status = "active"
      BY <1>0, <2>3 DEF NamespaceRow
    <3> QED BY <2>1, <3>1 DEF Distinct, SeenApart, ActiveScopes
  <2> QED BY <1>4, <2>2, <2>3 DEF NamespaceRevoke, Fail, revoke_namespace, tables
<1> QED BY <1>1, <1>2, <1>3, <1>4, NamespaceSteps

\* Scopes overlap only at the root or by a race of two grants, and one scope is
\* never active twice: what one SELECT has seen, its INSERT cannot overlap,
\* whatever was granted and revoked in between (storage.py, grant_namespace).
THEOREM OverlapOnlyByRace ==
    ASSUME DistinctAtFirst PROVE Spec => []OverlapNeedsARace
<1>1. Init => Distinct /\ SeenApart
  BY DistinctAtFirst DEF Init, AdminInit, DistinctAtFirst, Distinct, SeenApart, ActiveScopes
<1>2. TypeOK /\ Distinct /\ SeenApart /\ [Next]_vars => Distinct' /\ SeenApart'
  BY ApartStep
<1>3. Distinct /\ SeenApart => OverlapNeedsARace
  <2> SUFFICES ASSUME Distinct, SeenApart, NEW c \in Commands, NEW d \in Commands,
                      c # d, c.id # d.id, {c.id, d.id} \subseteq ActiveScopes,
                      namespaces[c.id].scope = c.scope, namespaces[d.id].scope = d.scope,
                      Overlapping(c.scope, d.scope)
               PROVE  /\ c.scope # d.scope
                      /\ \/ Root \in {c.scope.prefix, d.scope.prefix}
                         \/ c.id \notin looked[d] /\ d.id \notin looked[c]
    BY DEF OverlapNeedsARace
  <2>1. c.scope # d.scope
    BY DEF Distinct
  <2>2. Root \notin {c.scope.prefix, d.scope.prefix} =>
           Overlaps(c.scope, d.scope) /\ Overlaps(d.scope, c.scope)
    BY OverlapIsFound
  <2> QED BY <2>1, <2>2 DEF SeenApart
<1> QED BY <1>1, <1>2, <1>3, TypeCorrect, PTL DEF Spec

-----------------------------------------------------------------------------
(* API keys *)

Generating == {c \in Commands : c.op \in {"developer.add", "developer.rotate-key"}}
Granting ==
    {c \in Commands : \/ c.op = "namespace.grant"
                      \/ c.op = "developer.add" /\ c.scope # NoScope}

\* new_api_key and uuid4 draw what nobody has drawn before.
FreshDraws ==
    /\ \A c, d \in Generating : c.secret = d.secret => c = d
    /\ \A c \in Generating : \A x \in DOMAIN Provisioned : Provisioned[x].secret # c.secret
    /\ \A c, d \in Granting : c.id = d.id => c = d
    /\ \A c \in Granting : c.id \notin DOMAIN ProvisionedScopes

\* A command that has not committed its key, has failed to, or has shown it.
Drawn(c) ==
    /\ stage[c] = "idle" \/ (stage[c] = "failed" /\ c \notin Granting) =>
          \A x \in DOMAIN developers : developers[x].secret # c.secret
    /\ stage[c] = "done" => c.secret \in shown

\* A command that has not inserted its namespace, or has failed to.
Unused(c) == stage[c] \in {"idle", "select", "insert", "failed"} => c.id \notin DOMAIN namespaces

DrawnOrUnused ==
    /\ \A c \in Generating : Drawn(c)
    /\ \A c \in Granting : Unused(c)
    /\ \A c \in Commands : stage[c] \in {"select", "insert"} => c \in Granting

\* A step of the service or the clock touches none of it, nor does a command
\* touch the stage of another.
LEMMA CommandSteps ==
    ASSUME [Next]_vars
    PROVE  \/ UNCHANGED <<developers, namespaces, stage, shown>>
           \/ \E c \in Commands : AdminStep(c)
BY HandlerFrame DEF Next, ServiceStep, CommandStep, Crash, tables, Commit, commandLine, Tick, vars

LEMMA DrawnStep ==
    ASSUME FreshDraws, TypeOK, DrawnOrUnused, [Next]_vars
    PROVE  DrawnOrUnused'
<1>0. /\ stage \in [Commands -> Ended \cup {"idle", "select", "insert", "print"}]
      /\ developers \in [DOMAIN developers -> DeveloperRow]
      /\ Generating \subseteq Commands /\ Granting \subseteq Commands
  BY DEF TypeOK, AdminTypeOK, StoreTypeOK, IsTable, Generating, Granting
<1>1. CASE UNCHANGED <<developers, namespaces, stage, shown>>
  BY <1>1 DEF DrawnOrUnused, Drawn, Unused
<1>2. ASSUME NEW c \in Commands, AdminStep(c) PROVE DrawnOrUnused'
  <2>1. /\ \A d \in Commands \ {c} : stage'[d] = stage[d]
        /\ shown \subseteq shown'
    BY <1>0, <1>2 DEF AdminStep, Advance, DeveloperAdd, DeveloperRotateKey, DeveloperRevoke,
       NamespaceGrant, GrantSelect, GrantInsert, NamespaceRevoke, AgentRevoke, PrintResult,
       Kill, Fail, Enter
  <2>2. \* the developers
        \A x \in DOMAIN developers' :
           \/ x \in DOMAIN developers /\ developers'[x].secret = developers[x].secret
           \/ /\ c \in Generating /\ developers'[x].secret = c.secret
              /\ stage'[c] \in {"print", "select"} /\ stage[c] = "idle"
    <3>1. CASE DeveloperAdd(c)
      BY <1>0, <3>1 DEF DeveloperAdd, Begin, Fail, Enter, tables, create_developer, Put, Generating
    <3>2. CASE DeveloperRotateKey(c)
      BY <1>0, <3>2 DEF DeveloperRotateKey, Begin, Fail, Enter, tables,
         rotate_developer_key, DeveloperRow, Generating
    <3>3. CASE DeveloperRevoke(c)
      BY <1>0, <3>3 DEF DeveloperRevoke, Fail, tables, revoke_developer, DeveloperRow
    <3>4. CASE ~DeveloperAdd(c) /\ ~DeveloperRotateKey(c) /\ ~DeveloperRevoke(c)
      BY <1>2, <3>4 DEF AdminStep, Advance, NamespaceGrant, GrantSelect, GrantInsert,
         NamespaceRevoke, AgentRevoke, PrintResult, Kill, Fail, tables
    <3> QED BY <3>1, <3>2, <3>3, <3>4
  <2>3. \* the namespaces
        \A n \in DOMAIN namespaces' :
           \/ n \in DOMAIN namespaces
           \/ n = c.id /\ stage[c] = "insert" /\ stage'[c] = "print"
    <3>1. CASE GrantInsert(c)
      BY <1>0, <3>1 DEF GrantInsert, Fail, Enter, tables, insert_namespace, Put
    <3>2. CASE ~GrantInsert(c)
      BY <1>2, <3>2 DEF AdminStep, Advance, DeveloperAdd, DeveloperRotateKey, DeveloperRevoke,
         NamespaceGrant, GrantSelect, NamespaceRevoke, revoke_namespace, AgentRevoke,
         PrintResult, Kill, Fail, tables
    <3> QED BY <3>1, <3>2
  <2>4. \* its own stage
        /\ stage'[c] # "idle"
        /\ stage'[c] = "select" => c \in Granting /\ stage[c] = "idle"
        /\ stage'[c] = "insert" => stage[c] = "select"
        /\ stage'[c] = "failed" => stage[c] \in {"idle", "select", "insert"}
        /\ stage'[c] = "done" /\ c \in Generating => c.secret \in shown'
    <3>1. CASE DeveloperAdd(c) \/ DeveloperRotateKey(c)
      BY <1>0, <3>1 DEF DeveloperAdd, DeveloperRotateKey, Begin, Fail, Enter, Granting
    <3>4. CASE NamespaceGrant(c)
      BY <1>0, <3>4 DEF NamespaceGrant, Begin, Fail, Enter, Granting
    <3>5. CASE DeveloperRevoke(c) \/ NamespaceRevoke(c) \/ AgentRevoke(c)
      BY <1>0, <3>5 DEF DeveloperRevoke, NamespaceRevoke, AgentRevoke, Begin, Fail, Enter,
         Generating
    <3>2. CASE GrantSelect(c) \/ GrantInsert(c) \/ Kill(c)
      BY <1>0, <3>2 DEF GrantSelect, GrantInsert, Kill, Running, Ended, Fail, Enter
    <3>3. CASE PrintResult(c)
      BY <1>0, <3>3 DEF PrintResult, Generating
    <3> QED BY <1>2, <3>1, <3>2, <3>3, <3>4, <3>5 DEF AdminStep, Advance
  <2>5. ASSUME NEW d \in Generating PROVE Drawn(d)'
    <3>1. CASE d = c
      BY <1>0, <2>2, <2>4, <3>1 DEF DrawnOrUnused, Drawn
    <3>2. CASE d # c
      BY <1>0, <2>1, <2>2, <3>2 DEF DrawnOrUnused, Drawn, FreshDraws
    <3> QED BY <3>1, <3>2
  <2>6. ASSUME NEW d \in Granting PROVE Unused(d)'
    <3>1. CASE d = c
      BY <1>0, <2>3, <2>4, <3>1 DEF DrawnOrUnused, Unused
    <3>2. CASE d # c
      BY <1>0, <2>1, <2>3, <3>2 DEF DrawnOrUnused, Unused, FreshDraws
    <3> QED BY <3>1, <3>2
  <2>7. ASSUME NEW d \in Commands, stage'[d] \in {"select", "insert"} PROVE d \in Granting
    BY <2>1, <2>4, <2>7 DEF DrawnOrUnused
  <2> QED BY <2>5, <2>6, <2>7 DEF DrawnOrUnused, Generating, Granting
<1> QED BY <1>1, <1>2, CommandSteps

\* An API key that nobody has seen is that of a command under way, of a killed
\* one, or of a developer.add that failed after the developer was committed and
\* did not get its namespace (admin.py, developer add).
THEOREM UnseenKeys ==
    ASSUME FreshDraws PROVE Spec => []UnseenKeyExplained
<1>1. Init => DrawnOrUnused
  BY FreshDraws DEF FreshDraws, Init, AdminInit, DrawnOrUnused, Drawn, Unused, Generating, Granting
<1>2. TypeOK /\ DrawnOrUnused /\ [Next]_vars => DrawnOrUnused'
  BY FreshDraws, DrawnStep
<1>3. TypeOK /\ DrawnOrUnused => UnseenKeyExplained
  <2> SUFFICES ASSUME TypeOK, DrawnOrUnused, NEW c \in Commands, Generates(c), c.secret \notin shown
               PROVE  \/ stage[c] \in {"select", "insert", "print", "killed"}
                      \/ /\ c.op = "developer.add" /\ c.scope # NoScope
                         /\ stage[c] = "failed" /\ c.id \notin DOMAIN namespaces
    BY DEF UnseenKeyExplained
  <2>1. c \in Generating /\ \E x \in DOMAIN developers : developers[x].secret = c.secret
    BY DEF Generates, Generating
  <2>2. stage[c] \in {"idle", "select", "insert", "print", "done", "failed", "killed"}
    BY DEF TypeOK, AdminTypeOK, Ended
  <2>3. stage[c] # "idle" /\ stage[c] # "done" /\ (stage[c] = "failed" => c \in Granting)
    BY <2>1 DEF DrawnOrUnused, Drawn
  <2>4. stage[c] = "failed" => c.id \notin DOMAIN namespaces
    BY <2>3 DEF DrawnOrUnused, Unused
  <2> QED BY <2>1, <2>2, <2>3, <2>4 DEF Generating, Granting
<1> QED BY <1>1, <1>2, <1>3, TypeCorrect, PTL DEF Spec
=============================================================================
