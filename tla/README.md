# A formal model of agent_auth

This directory holds TLA+ models of the Agent Auth SDK (`agent_auth/`) and of its Registry
(`packages/agent-auth-registry/`), the TLC configurations that check them and the proofs that TLAPS
checks. Paths below are relative to the repository's root; `REG/` stands for
`packages/agent-auth-registry/src/agent_auth_registry/`.

## The system

Agents call each other with *signed envelopes*. A public directory, the **Registry**, says which key an
Agent has; a private key lives in Vault Transit (or, in `dev` mode, in the process). There are three
kinds of processes: the Registry service, the administrator's command line on the Registry's database,
and the applications that embed the SDK (as callers, as endpoints, or through the `agent-auth` command
line).

| Component | State | Operations | Talks to |
|---|---|---|---|
| SignedEnvelope (`agent_auth/_protocol.py`) | none | sign, verify | a signer, a nonce state |
| Identities (`agent_auth/_identity.py`) | none | parse and match Agent IDs, endpoints, namespaces | DNS |
| Registry storage (`REG/storage.py`) | SQLite: developers, namespaces, agents, key_history, nonces, audit | one method per read or transaction | every Registry process |
| Registry service (`REG/app.py`, `REG/run.py`) | locals of the running handlers | `POST /v1/agents` (publish, rotate, revoke), four GET routes | storage |
| Administration (`REG/admin.py`) | locals of a command | developer add, rotate-key, revoke; namespace grant, revoke; agent revoke; listings; db check, backup | storage, the administrator's terminal |
| API keys (`REG/security.py`) | none | new, hash, verify | - |
| Endpoint server (`agent_auth/_server.py`) | locals of the running routes | one POST route per endpoint | Registry client, nonce state, signer, the user's handler |
| Nonce state (`agent_auth/_state.py`) | consumed request IDs, in memory or in SQLite | consume | endpoint server, callers |
| Registry client (`agent_auth/_registry.py`) | cache of records with a 300 s expiry | resolve, mutate, health | Registry service |
| Runtime (`agent_auth/_auth.py`) | started flag, signers, bindings, wrapped tools | bind, start, close, run, call, remote tools | all of the above, the OpenAI Agents SDK |
| Vault signer (`agent_auth/_vault.py`) | public key of its version | start, sign, rotate | Vault |
| SDK command line (`agent_auth/_cli.py`) | `agent-auth.toml` | init, check, publish, rotate, revoke | Vault, Registry, the file |
| Configuration (`agent_auth/_config.py`) | none | load | the file |

What makes each of them correct, and what makes that hard:

* **Registry storage.** `agents`, `key_history`, `nonces` and `audit` are written by separate statements and
  must tell one story after every transaction, refusal, crash and retry. A kid, once used, is spent for ever;
  an owner never changes; a revoked Agent never comes back.
* **Registry service.** A handler authenticates the developer, gives the event loop up while it waits for the
  body, then checks the nonce, the namespace, the current record and the signatures in separate database
  accesses, and commits in a transaction that checks *some* of it again. In between the administrator's
  processes write to the same file and time passes. The hard question is which of the early checks still hold
  at the commit.
* **Administration.** Commands are processes: two may run at once, each may be killed between two steps, and
  some consist of several transactions. Active namespaces must not overlap.
* **Envelope and nonce state.** An envelope is accepted in a closed time window, the request ID expires with
  it; a duplicate may arrive at the edge of the window, in another process, or after a restart.
* **Registry client.** Coroutines share a cache; answers arrive out of order; a mutation drops an entry that a
  slower resolve stores again.
* **Remote call.** Request and reply cross a network that loses, delays and duplicates; the handler may have
  run when the caller sees an error; keys rotate between the signature and its check. A result must be genuine,
  and an error must not claim more about the handler than is true.
* **Rotation workflow.** Vault, Registry and a file are changed one after the other and any step may fail or
  be the last before a crash. The three must stay in an order from which a later command can go on.
* **Lifecycle.** `_start` and `close` await between reading and writing the flags and lists they share; a started
  AgentAuth must be usable and a closed one leave no client open.

The hazards list of `PROJECT.json` gives the line where each of these bites and the property that covers it.

## Modules

    Four abstract specifications, and who is shown to implement each:
      AgentLedger     Registry
      ReplayGuard     Registry, Receiver, RemoteCall
      Directory       RegistryClient
      KeyStores       KeyRotation

    Envelope        NamespacePath
      |   \            /
      |   RegistryStore            tables, reads, transactions      (storage.py)
      |    /          \
      |  RegistryService  RegistryAdmin    handlers / commands      (app.py / admin.py)
      |    \          /
      |     Registry                                               composition, properties
      |    /        \
      |  MCRegistry   RegistryProofs                                TLC instances / TLAPS proofs
      |                /          \
      |  RegistryHistoryProofs   RegistryAdminProofs
      |
      +-- Receiver -- MCReceiver              routes and nonces of an endpoint (_server.py, _state.py)
      |        \---- ReceiverProofs
      |
      +-- RemoteCall -- MCRemoteCall          a call from end to end           (_auth.py, _server.py),
                 \---- RemoteCallProofs       on what a Directory believes

    RegistryClient -- MCRegistryClient        the client's cache               (_registry.py)
               \---- RegistryClientProofs

    KeyRotation -- MCKeyRotation              Vault, Registry and the file     (_cli.py, _vault.py),
            \---- KeyRotationProofs           on an AgentLedger

    AuthLifecycle -- MCAuthLifecycle          start and close of one AgentAuth (_auth.py, _vault.py)
              \---- AuthLifecycleProofs

* **Envelope** is `verify_envelope` as the function `VerifyRefusal` to the first failing check or "ok".
  An envelope keeps the fields the checks compare. Its signature is the public key whose private half made it
  (`signer`); a forged or damaged one has a `signer` that is not the key of the record.
* **NamespacePath**: an Agent ID is a host and a sequence of segments, a namespace a domain and a prefix;
  `Matches` is `namespace_matches`, `Overlaps` the three comparisons of `grant_namespace`, with its treatment
  of the root kept as it is.
* **RegistryStore** has one variable per table, a function from primary keys to rows. `publish`, `rotate` and
  `revoke` are the transactions: `..._refusal` is the code of the StateConflictError the transaction raises,
  in the order of the code, and the action of the same name what a commit changes: tables, nonces and audit
  together. A transaction that raises is rolled back, nonces included.
* **RegistryService** gives each request a handler with a program counter `pc`:

  | stage | code (`REG/app.py`) |
  |---|---|
  | idle -> body (`Arrive`) | `_authenticate`, then `await request.json()` gives the loop up |
  | body -> namespace (`ReadBody`) | JSON, `from_dict`, `has_nonce`, type and payload checks |
  | namespace -> resolve (`CheckNamespace`) | `has_namespace` |
  | resolve -> verify (`Resolve`) | `store.resolve`; a first publish takes its own claim as the record |
  | verify -> commit (`Verify`) | `verify_envelope`, for a rotation the proof too |
  | commit -> readback (`Commit`, `RollBack`, `LockTimeout`) | the transaction in `storage.py`; revoke ends here |
  | readback -> done (`ReadBack`) | the `resolve` after publish and rotate |

  A refusal writes its rejected audit row and ends the handler in the same step: there is no await between
  them, and the row depends on nothing another process writes. The service is one process with one event loop
  (`run.py:28`), and the handler's only await is the body, so at most one handler is between `namespace` and
  `readback` (`LoopFree`); the administrator, the clock and crashes come between any two steps. `Crash` loses
  every running handler and keeps the tables; `docs/REGISTRY_OPERATIONS.md` and `deploy/registry.service`
  restart the service.
* **RegistryAdmin** gives each command of `admin.py` a `stage`. `developer add` is two transactions and a print,
  `namespace grant` a read of the developer, a SELECT and an INSERT: Python's sqlite3 opens the transaction only
  at the INSERT. `Kill` interrupts a command between any two of its steps. `looked` is a history variable: which
  active namespaces the SELECT of a grant has seen.
* **Registry** composes both under one clock and states the properties.
* **AgentLedger** is the abstract promise about identities: `Register`, `Rotate` and `Retire` on a ledger of
  Agents and a set of spent kids. `Registry` implements it under the mapping `Ledger`.
* **ReplayGuard** is the abstract promise of a nonce state: a use at a place spends a set of IDs together, no other use
  of that place spends one of them before they expire, and what was used is forgotten only where nothing is durable, and
  then all of a place. The Registry's table is one place, durable, and a commit uses the IDs of its envelope and of its
  proof; the stores of an endpoint are places, durable with SQLite; end to end each Agent is one, and a use is the call of a
  handler.
* **Directory** is the abstract promise of a cached lookup: an answer was true at some instant while it was on its way,
  what is told from memory was true within a bounded age (`Believable`), a failure tells nothing, a retired Agent is told
  to nobody for longer than that. `RegistryClient` implements it; `RemoteCall` and its proofs use nothing else of a resolve.
* **KeyStores** is the abstract promise of a rotation across three stores, each changed alone: the key store creates, the
  directory accepts only newer versions and only while the file names the one it has, the file catches up in one step or
  not at all. `loose` is what remains after two updates of the file at the same time. `KeyRotation` implements it.
* **RegistryClient** is one process of the SDK: every `resolve` and `mutate` is a coroutine that runs up to its
  HTTP request (`Send`) and again from the answer on (`Receive...`, `Fail`); all share `cache`. The Registry is its
  log: `log[a]` is the sequence of what became true of Agent a and when, so a record is the position of its entry,
  and so is its ETag (a hash of the record). Others publish, rotate and revoke at any time (`Others`); an answer
  is computed at one instant (`AnswerResolve`, `AnswerMutate`) and received later, in any order, or never.
  `refresh=True` is a choice of every resolve. `start` and `close` are `Toggle`: the cache outlives the HTTP client.
* **Receiver** is one endpoint served by several workers:

  | stage | code |
  |---|---|
  | idle -> resolve (`Receive`) | body, JSON, `from_dict` (`_server.py:45-51`) |
  | resolve -> verify (`Resolve`) | `_start` and `registry.resolve`, the last awaits before the handler |
  | verify -> clock (`Verify`) | `verify_envelope` up to the signature (`_protocol.py:171-201`) |
  | clock -> consume (`ReadClock`) | `consume` reads the clock, before it has the lock (`_state.py:60`) |
  | consume -> payload (`Consume`, `LockTimeout`) | purge and insert under the lock |
  | payload -> handler (`CallHandler`) | the payload's codec and schema, then the handler |
  | handler -> done (`Return`) | the handler's awaits, the response's schema, the signed reply, or whatever went wrong there |

  An answer is a code and whether it bears the request's own ID (`exc.request_id or request_id`, `_server.py:80`). What a
  handler can end in under that ID is `Failures`: its own schema and payload errors, but also those of a call it made
  that bear no ID, such as ENVELOPE_INVALID and TIMESTAMP_INVALID of a malformed reply (`_auth.py:256`), REQUEST_INVALID
  for a ValueError, CAPABILITY_DENIED, and INTERNAL_ERROR, the 500 of an exception nobody catches, which a lock
  timeout ends in too. `Refusals` are the codes that only the route gives, before it consumes anything; that rests on
  an assumption about the user's code, that a handler raises no AgentAuthError of its own with one of them (the
  documents have it raise CAPABILITY_DENIED, `docs/API_REFERENCE.md:90`). The three ways of `Receive` to refuse a body keep their
  codes; an `issued_at` that is no timestamp is folded into TIMESTAMP_EXPIRED, and "UNAVAILABLE" stands for AGENT_NOT_FOUND,
  REGISTRY_UNAVAILABLE and what `_start` raises.

  `persistent` is the choice of `AgentAuth.__init__` between one SQLite file for all workers and a dictionary in
  each. A worker's routes exclude each other from the clock to the handler (`LoopFree`); the other workers, the
  clock and restarts do not. What `resolve` returns is taken from what RegistryClient guarantees, made weaker:
  any record the sender has published so far, or none. `consumed`, `handled`, `verified` and `forgotten` are
  history variables.

* **RemoteCall** is the composition of caller, network and endpoint on the promises of the two modules before it:

  | stage | code |
  |---|---|
  | call: idle -> sign (`Resolve`) | `_start`, the resolve of the target, the DNS pin (`_auth.py`, `_remote_call`) |
  | sign -> sent (`Send`) | `sign_envelope` and the POST |
  | sent -> verify, done (`Receive`, `GiveUp`) | an envelope, an error object (`_remote_error`), or neither in time |
  | verify -> done (`VerifyReply`) | the second resolve, `verify_envelope` with `reply_to`, the output type |
  | delivery: none -> handler, done (`Accept`) | the endpoint's route up to the handler (`_server.py`); Receiver takes it apart |
  | handler -> done (`Return`) | the signed reply, or `_error_response` |

  A request is delivered late, more than once or never, and an answer may reach another call of the same process.
  A resolve (`Believable`) returns any record that was current within the last `Stale` = TTL + MaxWait: the very operator
  of Directory, which RegistryClient implements. Keys change and Agents are revoked on either side at any time (`Change`),
  and a process restarts with any key the Registry has ever had for the Agent (`Restart`): that is `KeysInOrder` of
  KeyRotation, and all it promises of the file once two updates have raced. All processes read one clock, and nonces survive restarts; what happens without
  these two assumptions is Receiver's subject.
* **KeyRotation** is the commands `publish`, `rotate` and `revoke` of `agent-auth`, as processes that may be killed:

  | stage | code (`_cli.py`) |
  |---|---|
  | idle -> start -> next (`Load`, `Start`) | `Settings.load`, `VaultSigner.start` of every alias |
  | next -> latest (`Choose`) -> rotate or prepare (`ReadLatest`) | `latest_version` against `key_version` |
  | rotate -> reread -> prepare (`RotateVault`, `ReadRotated`) | the two requests of `VaultSigner.rotate` |
  | prepare -> sent (`Submit`) -> update (`Receive`) | the new signer's start, both signatures, the POST and its answer |
  | update -> open -> write -> replace -> done | `_update_key_version`: read, open the temporary file, write, `os.replace` |

  Every request and every answer may be lost (`Fail`); a mutation already on its way is accepted or refused later
  (`Accept`, `Refuse`). The Registry is AgentLedger, the abstraction that `Registry` implements, with the check that
  the envelope is signed with the current key. Vault is external: a counter of versions per key, which others may
  increase (`RotateOutside`). Files are inodes, so that two commands that write one temporary file are told apart from
  one that replaces it. A write begins at the start of the inode, whatever another command has put there meanwhile: the
  result is the new text or, if the other one was longer, the new text with the end of the other (`Written`, `Mixed`).
  That is no TOML (`Load` fails on it, `ReadText` does not look), with two exceptions that the model leaves out: texts that
  differ by one final newline, where the mixture says what the new text says, and a file without a final newline whose
  key_version loses a digit.
* **AuthLifecycle** is one AgentAuth with N Vault identities and any number of coroutines that call `_start` and
  `close`. A coroutine gives the loop up where the code does: in each `VaultSigner.start` (`Start` and `SignerStarted`
  make one signer after the other) and at the `aclose` of each client (`CloseSigner`, `RegistryClosed`, `Closed`).
  A start that fails closes everything, one that is cancelled nothing (`CancelledError` is no `Exception`). A `close`
  that is cancelled, or whose `aclose` raises, ends at that `aclose` with `_started` as it was (`CutShort`). A client
  is open from the signer's start until somebody closes it.

The clock of the Registry counts half seconds: an even value is the first instant of a second, the odd one after it any later
instant of that second. `issued_at` and `_now()` have whole seconds (`Second`), `verify_envelope` reads the full
clock; the difference decides what happens at the edge of the window. One `now` serves both verifications of a
rotation. The clock never runs backwards.

Data that no property tells apart is folded: a developer is its `client_id` (both are unique), capabilities and
`updated_at` go with the endpoint, kids are `[agent, version]`, uuids and API keys are fresh values that a
command carries, and the audit table is the number of accepted rows per Agent and action and the number of
rejected rows. `verified` and `committed` are history variables: no action reads them.

## Runs

The runs of the Registry use `MCRegistry`: two developers with a namespace each, two Agents of one host, two keys
and three key versions (0 is an invalid one). Skew is 2 half seconds. Requests are one-shot: a request picks any
delivery of the run's set, so the same delivery arrives any number of times up to the number of requests, in any
order; commands are one-shot too, and so are calls, deliveries and coroutines elsewhere. `CHECK_DEADLOCK FALSE` is set
because all of them, and the clock, come to an end. Interchangeable processes are symmetric (`SYMMETRY`) except in
`RegistryTransfer`, which checks liveness.

| Run | Instance | Shows |
|---|---|---|
| `RegistryLife` | 3 requests of 8 envelopes, time 0..4, crashes | types, request IDs, ledger and replay guard are right over publish, move, rotate, revoke and their repeats |
| `RegistryTransfer` | 2 requests of 5, 4 commands, 2 at a time, fair handlers, crashes | tables, audit, owners and commits are right while the administrator takes the namespace, the developer or the Agent away; every authenticated request is answered |
| `RegistryRefusals` | 2 requests of 29 deliveries, time 0..5, 2 commands | what every check establishes, with every refusal code that the service has reached by some delivery |
| `Namespaces` | 9 commands, two at a time, scopes "/", "/team" and "/team/a" | active scopes overlap only by a race of two grants or at the root; every API key that nobody saw is explained by a command under way, killed or failed at its namespace |
| `ClientCache` | 3 calls on one Agent, TTL 2, wait 1, time 0..4, 3 changes | the cache is never older than a TTL and a round trip, and forgets on mutate |
| `Receiver` | 2 deliveries of 10 to 2 workers, both stores, skew 1, time 0..2, 2 versions | one consumption per ID, no ID lost, and none burnt by an envelope that is refused, handlers only for what was meant, honest answers |
| `RemoteCall` | 2 calls of one Agent to another, 2 deliveries of the first, skew 1, stale 1, time 0..3, 3 records | genuine results, honest errors, and no refused reply of a settled target |
| `KeyRotation` | 5 commands on 2 aliases, two at a time, versions up to 3, one kill | file, Registry and Vault stay in order and keys go forward only, whatever is lost or killed |
| `AuthLifecycle` | 3 coroutines, 2 identities | a started AgentAuth is usable and its clients stay within the reach of close |

Bounds. Three requests are the least that register, re-key and replay on one Agent; two keys and two versions
the least for a rotation and an attempt to come back; `MaxTime` passes the expiry of the first envelopes (2) and
reaches an envelope from the future. Two administrator processes are enough because every conflict in the tables
is between two writers. For the cache, one Agent is enough because calls on different Agents
share nothing but the clock and the client; TTL 2 and three calls let an answer overtake another one, an entry
expire between request and answer, and a mutation fall between the two. For the receiver, every conflict is
between two routes; with skew 1 the times 0..2 are before, at and after the end of the first window.
For the remote call, three records in all are the two Agents' first and one change on either side; time 3 passes both
the window of the request and the staleness of the record it was addressed by, and a second call is what an answer can go
astray to. For the rotation, two rotations of one key and one of the other are the least for a race on the
key and a race on the file; with version 3 each rotation of a key can create its own version, or the key be rotated
without the tool; the operator's mistake, a configured version that Vault does not have yet, is in the instance too.
Three coroutines are enough for two starts and a close, or two closes and a start, to overlap (four pass as well).
Properties of one module are divided over its runs by what the run makes hard (the request IDs where the clock passes
their expiry, tables and commits where the administrator interferes); the theorems are about all of them together.

`TypeOK` is the type invariant; the other properties are

* `KeyHistoryMatchesAgents`: the two tables of keys agree, in both directions;
* `AuditExplainsTables`: accepted audit rows match commits one to one and explain the tables;
* `NoncesMatchCommits`: exactly what committed is remembered, until it expires;
* `ReplayOnlyAtTheEdge`: a request ID commits twice only if `verify_envelope` reads the clock at exactly
  `issued_at + skew`, the instant that it accepts and that has_nonce and `_consume` already take for expired;
* `HandlersGrounded`: what a handler has established and how far it still holds when it commits;
* `OwnerWasGranted`: nobody owns an Agent outside a namespace he was once given;
* `AuthenticCommit` (action property): every commit is signed by the key the Agent has at that very moment and
  stays with its owner;
* `ImplementsLedger`, `ImplementsDirectory`, `ImplementsStores` and, three times, `ImplementsGuard` (refinements of the
  abstract specifications above), `EveryRequestAnswered` (liveness);
* `OverlapNeedsARace`: two active scopes overlap only if one is the root or neither grant could see the other;
* `UnseenKeyExplained`: a developer has an API key that was never printed only while its command runs, after it was killed,
  or after a `developer add` failed at its namespace, and then that namespace was not granted. A `developer add` killed
  between its INSERT and its print is an exception the code makes: it leaves a namespace to a key nobody knows;
* `CacheWasCurrent`: what is cached, and what an answer is about to store, was the Agent's record while its
  request was under way, although a 304 renews an entry that was read before the request was sent;
* `BoundedStaleness` (action property): no resolve returns a record that was replaced more than TTL and one wait
  for an answer ago, be the Registry unreachable;
* `OwnChangeSeen`: after a mutation returned, only a resolve that was already under way can bring an older record
  back into the cache;
* `NoncesMatchConsumed`, `ConsumedOnceInTime`: a store remembers what was consumed in it until the expiry, whichever worker
  purges with whatever clock it read, and every row it has is that of an envelope that `verify_envelope` had passed and
  that is `Genuine`: an envelope that is refused, or forged with the ID of another one, burns nothing
  (`docs/PROTOCOL_V1.md:29`). An ID is consumed again only after its window;
* `HandledWasMeant`: the handler runs only for what is `Genuine`: addressed to this endpoint, signed by the key of a kid
  its sender once published and verified within its window;
* `AnswersAreHonest`: one of the `Refusals` under the request's own ID says that this delivery consumed nothing and called
  no handler; "replayed" under that ID says also that another delivery was accepted. No other code says either, and no
  code does under another ID;
* `ResultIsGenuine` (action property): what a call returns comes from a handler that was called for this very request
  and was signed with a key the target had within the last `Stale`;
* `SettledReplyAccepted` (action property): the reply of a target that has had its key for longer than `Stale` is never
  refused for its signer, although the target was addressed by an older record: this is what the second resolve is for;
* `ErrorsAreHonest`: what the caller may conclude from an error about the handler, by code *and* request ID; the code
  alone proves nothing, because an endpoint passes on errors of the calls its handler made;
* `FileFollowsRegistry`: `agent-auth.toml` is whole and names the key of the Registry, or the one before it because one
  accepted rotation was not written; unless two updates of the file were under way at once (`raced`);
* `KeysInOrder`: even then a version in the file is one the Registry has accepted and not newer than the current one,
  which exists in Vault;
* `OnlyForward`, `CreatesWhenNeeded` (action properties): a key is only replaced by a newer version of itself; Vault
  creates a version for a command only if the Registry has the latest one, or somebody rotated the key while this very
  command was about to (`contended`);
* `StartedIsUsable`: while `_started` is set and nobody is closing, the clients in use are open, however many starts
  overlapped; unless (`disturbed`) a start and a close overlapped or a close was cut short, since the last `close` that went
  to its end and overlapped with nothing. So nothing but such a close makes a half closed AgentAuth usable again: the next
  `_start` sees `_started` and returns (`_auth.py:69`, `_auth.py:107-113`);
* `NothingOutOfReach`: every open Vault client is in the list of the next `close` or being started, or belongs to a
  start that failed; unless two closes overlapped (`raced`).

The exceptions are not idle: without `raced` TLC finds `FileFollowsRegistry` and `NothingOutOfReach` violated, and
`StartedIsUsable` without `disturbed`. No document promises more, so these are recorded as hazards and not as findings.

The wait bound of the client is a named bound (`MaxWait`): httpx's `timeout=10` limits connect, each read and each
write, not the sum, so the real bound of `BoundedStaleness` is 300 s and the time one answer takes.

Three more runs look for a violation and find it; each refutes a sentence of the documentation:

| Run | Statement | What the code does |
|---|---|---|
| `NamespacesRace` | active namespaces do not overlap (`docs/REGISTRY_OPERATIONS.md:76`) | SELECT and INSERT of a grant are not one transaction (`REG/storage.py:200-216`) |
| `ReceiverReplay` | the unique constraint rejects concurrent replays (`docs/SECURITY_MODEL.md:20`) | a duplicate verified just inside the window whose purge comes after it finds no row (`agent_auth/_state.py:63`) |
| `RotationRetry` | a retry reuses the unpublished version (`QUICKSTART.md:137`) | a version that was published, but whose answer was lost, is taken for unpublished too; the retry signs with the retired key (`agent_auth/_cli.py:151`) |

Three more disagreements show in the passing runs. The root scope "/" overlaps nothing (`REG/storage.py:207`), so "/"
and "/team" are granted side by side against the same sentence of the operations guide: it is the exception
`OverlapNeedsARace` has to make. A `developer add` that fails at the namespace leaves a developer whose key was never
shown (`REG/admin.py:98-103`), and one that is killed before its print leaves a namespace to such a key: the exceptions of
`UnseenKeyExplained`. And the namespace is checked on another connection
than the transaction (`REG/app.py:165`), although `docs/PROTOCOL_V1.md:52` puts it inside: `OwnerWasGranted` says
"was granted", not "has", for that reason.

### Fairness

`FairSpec` assumes weak fairness of each handler's steps and of nothing else. The event loop is FIFO and runs
every ready handler, a body arrives whole, and SQLite's busy timeout bounds every wait for
another process (`LockTimeout` is one of the steps). Weak fairness is enough although handlers compete for the
loop: the handler that holds it never waits for another one and its steps are finitely many, and requests are
finitely many. Clients, the administrator, the clock and crashes are not assumed to act. The other modules
state safety only and assume no fairness: a remote call, a command or a start that never ends is a behaviour of theirs.

## Proofs

Eight modules hold theorems. `RegistryProofs` proves for every value of the constants (any number of requests, Agents, developers, commands
and concurrent operators, any clock):

| Theorem | States |
|---|---|
| `TypeCorrect` | `Spec => []TypeOK` |
| `HistoryAgrees` | `Spec => []KeyHistoryMatchesAgents` |
| `AlwaysGrounded` | `Spec => []HandlersGrounded` |
| `AuthenticCommits` | `Spec => AuthenticCommit` |
| `Implementation` | `Spec => ImplementsLedger` |

They rest on the named assumptions of the modules: the constants have their types, deliveries that pass
`from_dict` carry fields of their kinds, the initial tables are tables. Nothing is assumed about signatures
beyond the meaning of `signer`.

The inductive invariant of the Registry is `IInv == TypeOK /\ HandlersGrounded /\ KeyHistoryMatchesAgents`. The three need each
other. `rotate` and `revoke` change the key_history row of the kid the *handler* saw; that this is the row of
the Agent follows from what the transaction checks again, and that the new kid is of the right kind from what
`ReadBody` established (`HandlersGrounded`). That a handler's record stays backed by key_history needs that
rows of key_history are never dropped nor rebound (`KidsAreForEver`), which in turn goes through the cases of
a commit (`CommitCases`). Types are needed because an `EXCEPT` outside a record's fields changes nothing.
`AuthenticCommits` then combines three facts at the commit: the envelope is signed by the key of the record
seen, that key is bound to its kid for ever, and the transaction has just compared the kid with the row. For a
publish of an existing Agent the transaction compares the claim instead, and the claim carries the kid the
envelope was signed with. `Implementation` maps `insert_agent` to `Register`, `rotate` to `Rotate`, both ways
of revoking to `Retire`, and every other step to a stutter.

`RegistryHistoryProofs` goes on with what the tables remember of the past:

| Theorem | States |
|---|---|
| `NoncesExact` | `Spec => []NoncesMatchCommits` |
| `OwnersGranted` | `Spec => []OwnerWasGranted` |
| `AuditComplete` | `Spec => []AuditExplainsTables` |
| `ReplayAtTheEdge` | `OwnIds` implies `Spec => []ReplayOnlyAtTheEdge` |
| `TableGuards` | `Spec => ImplementsGuard` |

`NoncesExact` strengthens to `Remembered`, which is about the IDs of an envelope *and* of its proof. `OwnersGranted` needs
`HandlersWereGranted`, that a handler past the check of the namespace had a grant, and that rows of `namespaces` are
never dropped nor given away (`GrantsAreForEver`), because the grant may be revoked before the commit. `AuditComplete`
counts: `AuditExact` says that finitely many requests and kids are accounted for, and the cardinalities move together at
each commit. `ReplayAtTheEdge` assumes that deliveries which share a request ID are the same signing (`OwnIds`), as uuids
are; a handler alone on the loop (`OneOnLoop`) that passed `verify_envelope` for an ID already committed did so at the
last instant of its window (`AtTheEdge`).
`TableGuards` needs no such assumption: in a commit the transaction has found none of its IDs in the table, and by
`Remembered` an ID that is not there has expired, whoever signed what spent it.

`RegistryAdminProofs` is about what commands leave behind:

| Theorem | States |
|---|---|
| `OverlapOnlyByRace` | `DistinctAtFirst` implies `Spec => []OverlapNeedsARace` |
| `UnseenKeys` | `FreshDraws` implies `Spec => []UnseenKeyExplained` |

The first rests on `SeenApart`: what a SELECT without an overlap has seen stays in the table with its scope, whatever is
revoked meanwhile; and on `Distinct`, the unique index, which the first tables must satisfy (`DistinctAtFirst`). That the
code's three comparisons find every overlap but those of the root is `OverlapIsFound`. The second assumes that
`new_api_key` and `uuid4` draw what nobody has drawn before (`FreshDraws`).

`RegistryClientProofs` does the same for the cache, for any calls, Agents, TTL and logs of any length:

| Theorem | States |
|---|---|
| `CacheSound` | `Spec => []CacheWasCurrent` |
| `Staleness` | `Spec => BoundedStaleness` |
| `OwnChanges` | `Spec => []OwnChangeSeen` |
| `CallsAreTold` | `Spec => ImplementsDirectory` |
| `TypeCorrect` | `Spec => []TypeOK` |

There `IInv == Typed /\ Timely /\ CacheWasCurrent`. `Timely` bounds the clock: a call that still waits
has waited no longer than `MaxWait`, and no entry expires later than `TTL` from now. That a 304 may renew an
entry read before the request rests on one fact of the answer: the Registry says 304 only if the record it has
at that instant is the one the call holds, whatever other calls have stored since. A record that was current since
some instant stays so when the log grows (`LogGrows`) and when the instant is taken earlier (`Earlier`); the two
lemmas carry every step. `Staleness` splits on who returns: from the cache, `until > now` gives the bound; from the
Registry, the wait does. `OwnChanges` adds `AnswersFollow`: an answer that a call brings back is behind an own change
only if the call was under way when the change returned, which a 304 keeps since it confirms the record of that instant.
`CallsAreTold` maps a resolve that asks the Registry to an asker, its return to an answer or a failure, and one that finds
its entry to a memory; `Stages` says that a call is told nothing before it returns, and that no mutation is told a record.

`ReceiverProofs` proves the receiver's properties, for any senders, envelopes, deliveries and workers and
both kinds of stores, from the assumption that an envelope has an integer time and a sender among `Senders`:

| Theorem | States |
|---|---|
| `NothingForgotten` | `Spec => []NoncesMatchConsumed` |
| `OncePerWindow` | `Spec => []ConsumedOnceInTime` |
| `HandlersMeant` | `Spec => []HandledWasMeant` |
| `HonestAnswers` | `Spec => []AnswersAreHonest` |
| `StoresGuard` | `Spec => ImplementsGuard` |
| `TypeCorrect` | `Spec => []TypeOK` |

There `IInv == Typed /\ Progress /\ Exact /\ ConsumedOnceInTime /\ Meant`. `NoncesMatchConsumed` alone is not inductive:
it says that an ID has *some* row, and a row of another envelope with the same ID could be purged earlier. `Exact`
says that the row of a valid ID has the expiry of the very envelope that was consumed; then a purge by a clock that
is not ahead of `now` (`Progress`) keeps it, and a second consumption finds it (`ConsumeKeeps`). `Meant` carries what
`Verify` established to the consumption and the handler: the record that resolve returned is the sender's (before `Verify`),
the envelope is `Genuine` (after it), and versions only grow. `NothingForgotten` combines the two: whose row it is, from
`Exact`, and what that envelope is, from `Meant`.

`HonestAnswers` keeps for every answered request what its code says of the handlers (`HonestTo`). `StoresGuard` maps a
consumption to a use (`ConsumeUses`) and the restart of a worker without SQLite to the loss of its place
(`RestartForgets`); that a use clashes with none that is still valid is `Exact` again, read at the clock of the lock.

`RemoteCallProofs`, for any Agents, calls, deliveries and numbers of records:

| Theorem | States |
|---|---|
| `TypeCorrect` | `Spec => []TypeOK` |
| `HonestErrors` | `Spec => []ErrorsAreHonest` |
| `GenuineResults` | `Spec => ResultIsGenuine` |
| `SettledReplies` | `Spec => SettledReplyAccepted` |
| `HandlersGuard` | `Spec => ImplementsGuard` |

The invariant follows the message: a request is its caller's own (`RequestsAreOwn`), the stage of a delivery tells whether
its handler was called (`StageTellsHandled`), an answer on the network says what is true of it (`AnswersAreTrue`), and so
does a reply that a caller is about to verify (`RepliesAreGenuine`); a request ID in a nonce state is that of a handled
delivery (`NoncesTellHandled`), which makes "replayed" honest. Replies are signed with keys that exist because times of
records are ordered (`LogOrdered`). `HandlersGuard` needs that a request is signed once, so that its deliveries share one
window (`SentOnce`), and that the nonce state remembers a handled request until the end of it (`HandledRemembered`).

`KeyRotationProofs`, for any aliases, commands, operators, versions and kills:

| Theorem | States |
|---|---|
| `TypeCorrect` | `Spec => []TypeOK` |
| `StoresInOrder` | `Spec => []KeysInOrder` |
| `Forward` | `Spec => OnlyForward` |
| `NeededVersions` | `Spec => CreatesWhenNeeded` |
| `FileFollows` | `Spec => []FileFollowsRegistry` |
| `StoresMove` | `Spec => ImplementsStores` |

`Versions` says where every version that a command holds comes from: texts name versions the Registry has accepted
(`TextsKnown`), Vault is ahead of the Registry (`VaultAhead`), a planned version is ahead of the settings (`Plan`), a
message on its way asks for a version ahead of the one that signs it (`Sent`). `FileFollows` needs more, as long as there
was no race: nobody else updates the file (`Alone`), what is being written is a copy of the file into an empty inode (`Copying`), whatever is
signed is not ahead of the file (`Behind`), and an accepted rotation whose command is not done is the one between file
and Registry (`Owed`, `Follows`). The argument is that a rotation is accepted only if it is signed with the Registry's
key, nothing signed is ahead of the file and the file not ahead of the Registry; so when one is accepted the file names
the Registry's key (`AcceptSettled`), and at most one accepted rotation of an alias is ever unwritten. `StoresMove` reads
the same invariant as steps: `os.replace` is the only step that changes the file and brings one alias to the Registry's
version (`CatchingUp`, `WritingKeeps`), an acceptance adds one version and finds nothing owed; after a race every text on
disk still names versions that were accepted (`KnownAccepted`).

`AuthLifecycleProofs`, for any coroutines and any number of identities:

| Theorem | States |
|---|---|
| `TypeCorrect` | `Spec => []TypeOK` |
| `StartedUsable` | `Spec => []StartedIsUsable` |
| `AllInReach` | `Spec => []NothingOutOfReach` |

There the invariant says that without a disturbance starts and closes are apart (`Apart`) and the clients are closed only
while somebody closes, or after a close that was cut short (`ClosedIsClosing`); that a start has put an open signer at every identity it has passed
(`OpenSoFar`); and, for the second theorem, that without a race one coroutine closes (`OneCloses`), that the list holds only
signers that were started (`ListedAreStarted`) and that `close` has closed what it has walked past
(`PassedAreClosed`), so that the clear at its end loses nothing.

Model-checked only: the liveness property `EveryRequestAnswered`, which is outside the prover, and the three violations.
Every other property of a passing run is a theorem.

## Plan

1. *Done*: `Registry` and its parts.
2. *Done*: `Receiver`, the endpoint route over both nonce states.
3. *Done*: `RegistryClient`, resolve and mutate as coroutines on one cache.
4. *Done*: `RemoteCall`, a call from end to end on the promises of 2 and 3.
5. *Done*: `KeyRotation`, the commands across Vault, Registry and the TOML file.
6. *Done*: `AuthLifecycle`, `_start`, `close` and concurrent first calls.
7. *Done*: a theorem for every safety property of a passing run.
8. *Done*: abstract specifications of the ledger, the nonce states, the cached directory and the three stores of a key, and
   theorems that the components implement them.
9. Open: one abstract endpoint, with the time of its check apart from the time of its consumption, that Receiver
   implements and RemoteCall is built on.
10. Open: the startup checks of `Settings` as a function of the file, and `bind` and the wrapped tools as far as they do
   not depend on the OpenAI Agents SDK.

## Not modelled

* GET routes, listings, `db check`, `db backup`, `init`, `check`: they read, or write a template.
* The validation of URLs, modes and paths in `_config.py`: a pure function of the text, without state.
* `bind`, `_wrap_tool`, `_wrap_handoff` and runs of the OpenAI Agents SDK: which tool is wrapped and with which identity
  depends on the identity (`id()`) and the lifetime of objects of that library, which is not in the repository.
* Vault itself, its tokens and policies: a counter of versions that only grows.
* Encodings (canonical JSON, base64url, DER), cryptography, scrypt, URL and IDNA parsing, TLS, DNS pinning: data
  and libraries; an envelope that fails to decode is one of the malformed inputs.
* A client that disconnects before its body is complete (ClientDisconnect): the handler ends without an answer, a row or any
  other change. For the safety properties it is a handler that stays at `body`; for `EveryRequestAnswered` bodies come whole,
  as from a proxy that buffers them.
* Which field of a payload is malformed: PAYLOAD_INVALID stands for METADATA_INVALID and the refusals of an Agent ID too,
  ROTATION_PROOF_INVALID for a proof that is no envelope, TIMESTAMP_EXPIRED for an `issued_at` that is no timestamp.
* A lock timeout of the write of a *rejected* audit row, disk errors, a restored backup and a clock that is set
  back: the environment of a sound installation.
* Two publishes of one Agent that arrive out of order: the model has them (the later arrival wins), but no document
  promises an order, so no property is about it.
