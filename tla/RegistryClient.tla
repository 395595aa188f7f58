--------------------------- MODULE RegistryClient ---------------------------
(***************************************************************************)
(* The Registry client of one process and its cache of Agent records       *)
(* (agent_auth/_registry.py).                                              *)
(*                                                                         *)
(* Every resolve and mutate is a coroutine, a "call", that runs without    *)
(* interruption up to its HTTP request and again from the answer on.  In   *)
(* between the other calls of the process use the same cache, and the      *)
(* Registry answers in any order or not at all.                            *)
(*                                                                         *)
(* The Registry is its log: log[a] holds what was true of Agent a, entry   *)
(* after entry, and since when; the record of a is the last entry, unless  *)
(* it says that a is revoked.  A record is thus the position of its entry, *)
(* and so is its ETag, the hash of the record.  The records of the dev     *)
(* identities of the process, which resolve returns first and which never  *)
(* change after start, are left out.                                       *)
(***************************************************************************)
EXTENDS Integers, Sequences

CONSTANTS Calls, Agents,
          TTL,        \* 300 seconds
          MaxWait,    \* bound on the wait for an answer (timeout=10)
          MaxTime,    \* bound on the clock
          MaxLog,     \* bound on the changes of one Agent
          NoEntry

ASSUME ClientAssumption ==
    /\ TTL \in Nat /\ MaxWait \in Nat /\ MaxTime \in Nat /\ MaxLog \in Nat
    /\ NoEntry \notin Nat

VARIABLES now,      \* time.monotonic
          log,      \* external: the Registry, [at, active] per change
          open,     \* _client is not None
          cache,    \* _cache
          pc, op, subject,
          cached,   \* the cached record the call has read, or NoEntry
          asked,    \* when the call sent its request
          reply,    \* what the Registry answered
          result,   \* the record a resolve returned, or NoEntry
          filler,   \* history: the call that last stored a record of an Agent
          floor,    \* history: the last change this process has made itself
          overlap   \* history: the calls under way when that change returned

locals == <<pc, op, subject, cached, asked, reply, result>>
history == <<filler, floor, overlap>>
vars == <<now, log, open, cache, locals, history>>

Waiting(c) == pc[c] \in {"sent", "answered"}
Found(a) == log[a] # <<>> /\ log[a][Len(log[a])].active
Refused == [status |-> "refused"]
Missing == [status |-> "404"]

TypeOK ==
    /\ now \in Nat
    /\ log \in [Agents -> Seq([at : Nat, active : BOOLEAN])]
    /\ open \in BOOLEAN
    /\ DOMAIN cache \subseteq Agents
    /\ cache \in [DOMAIN cache -> [until : Nat, record : Nat]]
    /\ pc \in [Calls -> {"idle", "sent", "answered", "done"}]
    /\ op \in [Calls -> {"resolve", "mutate"}]
    /\ subject \in [Calls -> Agents]
    /\ cached \in [Calls -> Nat \cup {NoEntry}]
    /\ asked \in [Calls -> Nat]
    /\ reply \in [Calls -> [status : {"200", "304", "ok"}, record : Nat]
                           \cup {Refused, Missing}]
    /\ result \in [Calls -> Nat \cup {NoEntry}]
    /\ filler \in [Agents -> Calls]
    /\ floor \in [Agents -> Nat]
    /\ overlap \in [Agents -> SUBSET Calls]

Init ==
    /\ now = 0
    /\ log = [a \in Agents |-> <<>>]
    /\ open = FALSE
    /\ cache = [a \in {} |-> NoEntry]
    /\ pc = [c \in Calls |-> "idle"]
    /\ op = [c \in Calls |-> "resolve"]
    /\ subject \in [Calls -> Agents]
    /\ cached = [c \in Calls |-> NoEntry]
    /\ asked = [c \in Calls |-> 0]
    /\ reply = [c \in Calls |-> Missing]
    /\ result = [c \in Calls |-> NoEntry]
    /\ filler \in [Agents -> Calls]
    /\ floor = [a \in Agents |-> 0]
    /\ overlap = [a \in Agents |-> {}]

Store(a, record) ==
    [x \in DOMAIN cache \cup {a} |->
        IF x = a THEN [until |-> now + TTL, record |-> record] ELSE cache[x]]

Drop(a) == [x \in DOMAIN cache \ {a} |-> cache[x]]

\* Mutant: an expired entry is still served.
HitExpired(a) == a \in DOMAIN cache

Hit(a) == a \in DOMAIN cache /\ cache[a].until > now

-----------------------------------------------------------------------------
(* resolve and mutate *)

Send(c) ==
    /\ pc' = [pc EXCEPT ![c] = "sent"]
    /\ asked' = [asked EXCEPT ![c] = now]
    /\ UNCHANGED <<now, log, open, cache, subject, reply, result, history>>

\* The locals of the call go out of scope.
Return(c, record) ==
    /\ pc' = [pc EXCEPT ![c] = "done"]
    /\ result' = [result EXCEPT ![c] = record]
    /\ cached' = [cached EXCEPT ![c] = NoEntry]
    /\ asked' = [asked EXCEPT ![c] = 0]
    /\ reply' = [reply EXCEPT ![c] = Missing]
    /\ UNCHANGED <<op, subject>>

\* A live entry answers the call; without one and without a client it fails.
ResolveLocally(c, refresh) ==
    LET hit == Hit(subject[c]) /\ ~refresh IN
    /\ pc[c] = "idle"
    /\ hit \/ ~open
    /\ Return(c, IF hit THEN cache[subject[c]].record ELSE NoEntry)
    /\ UNCHANGED <<now, log, open, cache, history>>

\* "cached" is read here and used again when a 304 arrives.
ResolveRemotely(c, refresh) ==
    LET a == subject[c] IN
    /\ pc[c] = "idle"
    /\ open /\ ~(Hit(a) /\ ~refresh)
    /\ cached' = [cached EXCEPT ![c] = IF a \in DOMAIN cache
                                       THEN cache[a].record ELSE NoEntry]
    /\ UNCHANGED op
    /\ Send(c)

\* Without a client or credentials mutate raises at once and changes nothing.
Mutate(c) ==
    /\ pc[c] = "idle"
    /\ open
    /\ op' = [op EXCEPT ![c] = "mutate"]
    /\ UNCHANGED cached
    /\ Send(c)

\* Mutant: any answer confirms the entry read before the request.
OldRecord(c) == cached[c]

\* A 304 confirms the entry read before the request.
NewRecord(c) ==
    IF reply[c].status = "304" THEN cached[c] ELSE reply[c].record

ReceiveRecord(c) ==
    /\ pc[c] = "answered" /\ reply[c].status \in {"200", "304"}
    /\ cache' = Store(subject[c], NewRecord(c))
    /\ filler' = [filler EXCEPT ![subject[c]] = c]
    /\ Return(c, NewRecord(c))
    /\ UNCHANGED <<now, log, open, floor, overlap>>

\* Mutant: a mutation leaves the entry of its Agent in the cache.
Keep(a) == cache

Forget(a) == Drop(a)

ReceiveDone(c) ==
    LET a == subject[c] IN
    /\ pc[c] = "answered" /\ reply[c].status = "ok"
    /\ cache' = Forget(a)
    /\ Return(c, NoEntry)
    /\ floor' = [floor EXCEPT ![a] = IF @ < reply[c].record
                                     THEN reply[c].record ELSE @]
    /\ overlap' = [overlap EXCEPT ![a] = @ \cup {d \in Calls : Waiting(d)}]
    /\ UNCHANGED <<now, log, open, filler>>

\* A 404 leaves an older entry alone.
ReceiveError(c) ==
    /\ pc[c] = "answered" /\ reply[c] \in {Refused, Missing}
    /\ Return(c, NoEntry)
    /\ UNCHANGED <<now, log, open, cache, history>>

\* Mutant: when the Registry fails, the entry is renewed and served.
FailOpen(c) ==
    /\ Waiting(c) /\ cached[c] # NoEntry
    /\ cache' = Store(subject[c], cached[c])
    /\ Return(c, cached[c])
    /\ UNCHANGED <<now, log, open, history>>

\* A timeout, a 5xx, an answer that is no record of this Agent: the call fails
\* closed, whatever the Registry has done.
Fail(c) ==
    /\ Waiting(c)
    /\ Return(c, NoEntry)
    /\ UNCHANGED <<now, log, open, cache, history>>

\* start and close: the cache outlives the HTTP client.
Toggle ==
    /\ open' = ~open
    /\ UNCHANGED <<now, log, cache, locals, history>>

-----------------------------------------------------------------------------
(* The Registry and the clock *)

Revoked(a) == log[a] # <<>> /\ ~log[a][Len(log[a])].active

\* external: a publish, a rotation or a revocation that is accepted.
Change(a, active) ==
    /\ ~Revoked(a) /\ (active \/ Found(a)) /\ Len(log[a]) < MaxLog
    /\ log' = [log EXCEPT ![a] = Append(@, [at |-> now, active |-> active])]

Others(a, active) ==
    /\ Change(a, active)
    /\ UNCHANGED <<now, open, cache, locals, history>>

Answered(c, answer) ==
    /\ pc[c] = "sent"
    /\ pc' = [pc EXCEPT ![c] = "answered"]
    /\ reply' = [reply EXCEPT ![c] = answer]
    /\ UNCHANGED <<now, open, cache, op, subject, cached, asked, result,
                   history>>

AnswerResolve(c) ==
    LET a == subject[c]
        last == Len(log[a])
    IN  /\ op[c] = "resolve"
        /\ Answered(c, IF ~Found(a) THEN Missing
                       ELSE [status |-> IF cached[c] = last THEN "304" ELSE "200",
                             record |-> last])
        /\ UNCHANGED log

AnswerMutate(c, active) ==
    /\ op[c] = "mutate"
    /\ \/ /\ Change(subject[c], active)
          /\ Answered(c, [status |-> "ok", record |-> Len(log[subject[c]]) + 1])
       \/ Answered(c, Refused) /\ UNCHANGED log

Tick ==
    /\ now < MaxTime
    /\ \A c \in Calls : Waiting(c) => now < asked[c] + MaxWait
    /\ now' = now + 1
    /\ UNCHANGED <<log, open, cache, locals, history>>

Next ==
    \/ \E c \in Calls :
          \/ \E refresh \in BOOLEAN :
                ResolveLocally(c, refresh) \/ ResolveRemotely(c, refresh)
          \/ Mutate(c) \/ ReceiveRecord(c) \/ ReceiveDone(c)
          \/ ReceiveError(c) \/ Fail(c) \/ AnswerResolve(c)
          \/ \E active \in BOOLEAN : AnswerMutate(c, active)
    \/ \E a \in Agents, active \in BOOLEAN : Others(a, active)
    \/ Toggle
    \/ Tick

Spec == Init /\ [][Next]_vars

-----------------------------------------------------------------------------
(* Properties *)

Asking == {c \in Calls : Waiting(c) /\ op[c] = "resolve"}
Questions == [c \in Asking |-> [agent |-> subject[c], at |-> asked[c]]]
Told == [c \in Calls |-> IF result[c] = NoEntry THEN NoEntry
                         ELSE [agent |-> subject[c], record |-> result[c]]]

Dir == INSTANCE Directory WITH
    Askers <- Calls, Age <- TTL + MaxWait, Wait <- MaxWait, Nothing <- NoEntry,
    time <- now, asked <- Questions, told <- Told

CurrentSince(a, v, t) == Dir!CurrentSince(a, v, t)

\* Why no cached record is older than TTL and one round trip, although a 304
\* renews an entry the call read before it asked: what is stored, and what is
\* on its way to be stored, was true when its request was under way.
CacheWasCurrent ==
    /\ \A a \in DOMAIN cache :
          CurrentSince(a, cache[a].record, cache[a].until - TTL - MaxWait)
    /\ \A c \in Calls :
          pc[c] = "answered" /\ reply[c].status \in {"200", "304"} =>
             /\ CurrentSince(subject[c], reply[c].record, asked[c])
             /\ reply[c].status = "304" => cached[c] = reply[c].record

\* "Fails closed" (docs/SECURITY_MODEL.md:21): whatever resolve returns, from
\* the cache or the Registry, was the Agent's record within the last TTL +
\* MaxWait: a retired key or a revoked Agent is believed no longer than that,
\* be the Registry unreachable.
BoundedStaleness ==
    [][\A c \in Calls :
          (pc[c] # "done" /\ pc'[c] = "done" /\ result'[c] # NoEntry) =>
             CurrentSince(subject[c], result'[c], now - TTL - MaxWait)]_vars

\* The calls of a process, whatever overtakes what, whichever entry a 304
\* confirms and whoever drops it meanwhile, are told what a directory may tell:
\* from the Registry what was true during the call, from the cache what was
\* true within TTL + MaxWait, and after a failure nothing.
ImplementsDirectory == Dir!Spec

\* mutate drops the entry of its Agent: afterwards the cache is behind this
\* process's own change only if a resolve that was already under way when the
\* mutation returned has stored an older answer since.
OwnChangeSeen ==
    \A a \in DOMAIN cache :
        cache[a].record < floor[a] => filler[a] \in overlap[a]
=============================================================================
