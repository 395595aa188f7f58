---------------------------- MODULE RegistryAdmin ----------------------------
(***************************************************************************)
(* The administrator's command line                                        *)
(* (packages/agent-auth-registry/src/agent_auth_registry/admin.py).        *)
(*                                                                         *)
(* Each command is a process of its own on the database of the running     *)
(* service.  A command is a record [op, client, scope, secret, id, agent]: *)
(* its arguments and the fresh values it draws (new_api_key, uuid4), so no *)
(* two commands share a secret or an id.  At most Operators of them run at *)
(* a time.  Not modelled: the listings, "db check" and "db backup", which  *)
(* only read.                                                              *)
(***************************************************************************)
EXTENDS RegistryStore

CONSTANTS Commands,
          Operators,   \* bound on the commands running at the same time
          NoScope      \* developer add without --domain

ASSUME OperatorsAssumption == Operators \in Nat

\* The fields a command uses hold arguments and fresh values of their kinds.
ASSUME CommandsAssumption ==
    \A c \in Commands :
        /\ c.client \in Clients
        /\ c.secret \in Secrets
        /\ \/ c.scope = NoScope /\ c.op # "namespace.grant"
           \/ c.scope \in Scopes /\ c.id \in NamespaceIds
        /\ c.op = "agent.revoke" => c.agent \in Agents

VARIABLES stage,       \* where a command is
          shown,       \* API keys that were printed
          looked       \* history: the active namespaces a SELECT has seen

commandLine == <<stage, shown, looked>>

Ended == {"done", "failed", "killed"}
Running(c) == stage[c] \notin Ended \cup {"idle"}

AdminTypeOK ==
    /\ stage \in [Commands -> Ended \cup {"idle", "select", "insert", "print"}]
    /\ \A c \in Commands : stage[c] \in {"select", "insert"} =>
                             c.scope \in Scopes /\ c.id \in NamespaceIds
    /\ shown \subseteq Secrets
    /\ looked \in [Commands -> SUBSET NamespaceIds]

AdminInit ==
    /\ stage = [c \in Commands |-> "idle"]
    /\ shown = {}
    /\ looked = [c \in Commands |-> {}]

Begin(c, op) ==
    /\ stage[c] = "idle"
    /\ c.op = op
    /\ Cardinality({d \in Commands : Running(d)}) < Operators

ActiveScopes == {n \in DOMAIN namespaces : namespaces[n].status = "active"}

\* Only GrantSelect enters "insert".
Enter(c, s) ==
    /\ stage' = [stage EXCEPT ![c] = s]
    /\ looked' = IF s = "insert" THEN [looked EXCEPT ![c] = ActiveScopes]
                                 ELSE looked
    /\ UNCHANGED shown

\* The command raises StateConflictError or sqlite3.IntegrityError.
Fail(c) == Enter(c, "failed") /\ UNCHANGED tables

DeveloperAdd(c) ==
    /\ Begin(c, "developer.add")
    /\ IF c.client \in DOMAIN developers
       THEN Fail(c)
       ELSE /\ create_developer(c.client, c.secret)
            /\ Enter(c, IF c.scope = NoScope THEN "print" ELSE "select")
            /\ UNCHANGED <<namespaces, agents, keyHistory, nonces, audit>>

DeveloperRotateKey(c) ==
    /\ Begin(c, "developer.rotate-key")
    /\ IF get_developer_active(c.client)
       THEN /\ rotate_developer_key(c.client, c.secret)
            /\ Enter(c, "print")
            /\ UNCHANGED <<namespaces, agents, keyHistory, nonces, audit>>
       ELSE Fail(c)

DeveloperRevoke(c) ==
    /\ Begin(c, "developer.revoke")
    /\ IF get_developer_active(c.client)
       THEN /\ revoke_developer(c.client)
            /\ Enter(c, "done")
            /\ UNCHANGED <<namespaces, agents, keyHistory, nonces, audit>>
       ELSE Fail(c)

NamespaceGrant(c) ==
    /\ Begin(c, "namespace.grant")
    /\ IF get_developer_active(c.client)
       THEN Enter(c, "select") /\ UNCHANGED tables
       ELSE Fail(c)

\* grant_namespace runs its SELECT before sqlite3 opens a transaction for the
\* INSERT: another process may write in between.
GrantSelect(c) ==
    /\ stage[c] = "select"
    /\ IF OverlapFound(c.scope)
       THEN Fail(c)
       ELSE Enter(c, "insert") /\ UNCHANGED tables

\* The INSERT fails on the primary key or on the index of active scopes.
GrantInsert(c) ==
    /\ stage[c] = "insert"
    /\ IF c.id \in DOMAIN namespaces \/ IndexViolated(c.scope)
       THEN Fail(c)
       ELSE /\ insert_namespace(c.id, c.client, c.scope)
            /\ Enter(c, "print")
            /\ UNCHANGED <<developers, agents, keyHistory, nonces, audit>>

NamespaceRevoke(c) ==
    /\ Begin(c, "namespace.revoke")
    /\ IF /\ c.id \in DOMAIN namespaces
          /\ namespaces[c.id].status = "active"
       THEN /\ revoke_namespace(c.id)
            /\ Enter(c, "done")
            /\ UNCHANGED <<developers, agents, keyHistory, nonces, audit>>
       ELSE Fail(c)

AgentRevoke(c) ==
    /\ Begin(c, "agent.revoke")
    /\ IF Resolvable(c.agent)
       THEN /\ admin_revoke_agent(c.agent)
            /\ Enter(c, "done")
            /\ UNCHANGED <<developers, namespaces, nonces>>
       ELSE Fail(c)

\* Mutant: rotate-key ends without printing the new key.
PrintAdded(c) ==
    /\ stage[c] = "print"
    /\ stage' = [stage EXCEPT ![c] = "done"]
    /\ shown' = IF c.op = "developer.add" THEN shown \cup {c.secret} ELSE shown
    /\ UNCHANGED <<tables, looked>>

\* _print at the end of developer add, rotate-key and namespace grant.
PrintResult(c) ==
    /\ stage[c] = "print"
    /\ stage' = [stage EXCEPT ![c] = "done"]
    /\ shown' = IF c.op = "namespace.grant" THEN shown
                                            ELSE shown \cup {c.secret}
    /\ UNCHANGED <<tables, looked>>

\* The process is interrupted between two of its steps.
Kill(c) == Running(c) /\ Enter(c, "killed") /\ UNCHANGED tables

Advance(c) ==
    \/ GrantSelect(c) \/ GrantInsert(c) \/ PrintResult(c)

AdminStep(c) ==
    /\ \/ DeveloperAdd(c) \/ DeveloperRotateKey(c) \/ DeveloperRevoke(c)
       \/ NamespaceGrant(c) \/ NamespaceRevoke(c) \/ AgentRevoke(c)
       \/ Advance(c) \/ Kill(c)
    /\ UNCHANGED <<now, rejections>>
=============================================================================
