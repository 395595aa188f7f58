------------------------ MODULE RegistryClientProofs ------------------------
(***************************************************************************)
(* Proofs about RegistryClient: for any number of coroutines and Agents    *)
(* and any bounds, no resolve returns a record that was not the Registry's *)
(* within the last TTL + MaxWait.                                          *)
(***************************************************************************)
EXTENDS RegistryClient, TLAPS

USE ClientAssumption

Statuses == {"200", "304", "ok"}
Replies == [status : Statuses, record : Nat] \cup {Refused, Missing}

\* The part of TypeOK that staleness depends on.
Typed ==
    /\ now \in Nat
    /\ log \in [Agents -> Seq([at : Nat, active : BOOLEAN])]
    /\ DOMAIN cache \subseteq Agents
    /\ cache \in [DOMAIN cache -> [until : Nat, record : Nat]]
    /\ pc \in [Calls -> {"idle", "sent", "answered", "done"}]
    /\ op \in [Calls -> {"resolve", "mutate"}]
    /\ subject \in [Calls -> Agents]
    /\ cached \in [Calls -> Nat \cup {NoEntry}]
    /\ asked \in [Calls -> Nat]
    /\ reply \in [Calls -> Replies]
    /\ result \in [Calls -> Nat \cup {NoEntry}]

\* No call waits longer than MaxWait, and no entry lives longer than TTL.
Timely ==
    /\ \A c \in Calls : Waiting(c) => asked[c] <= now /\ now <= asked[c] + MaxWait
    /\ \A a \in DOMAIN cache : cache[a].until <= now + TTL

IInv == Typed /\ Timely /\ CacheWasCurrent

-----------------------------------------------------------------------------

LEMMA Initially == Init => IInv
BY DEF Init, IInv, Typed, Timely, CacheWasCurrent, Waiting, Missing, Replies

\* What was current at some instant since t stays so when the log grows, as
\* long as t is not in the future.
LEMMA LogGrows ==
    ASSUME Typed, NEW a \in Agents, NEW active \in BOOLEAN, Change(a, active),
           NEW b \in Agents, NEW v, NEW t \in Int, t <= now,
           CurrentSince(b, v, t)
    PROVE  CurrentSince(b, v, t)'
<1> DEFINE entry == [at |-> now, active |-> active]
<1>1. entry \in [at : Nat, active : BOOLEAN]
    BY DEF Typed
<1>2. log[a] \in Seq([at : Nat, active : BOOLEAN]) /\ log[b] \in Seq([at : Nat, active : BOOLEAN])
    BY DEF Typed
<1>3. log' = [log EXCEPT ![a] = Append(log[a], entry)]
    BY DEF Change
<1>4. CASE a # b
    <2>1. log'[b] = log[b]
        BY <1>3, <1>4 DEF Typed
    <2> QED
        BY <2>1 DEF CurrentSince, Dir!CurrentSince
<1>5. CASE a = b
    <2>1. log'[b] = Append(log[b], entry)
        BY <1>3, <1>5 DEF Typed
    <2>2. Len(log'[b]) = Len(log[b]) + 1
        BY <2>1, <1>1, <1>2
    <2>3. \A i \in 1..Len(log[b]) : log'[b][i] = log[b][i]
        BY <2>1, <1>1, <1>2
    <2>4. log'[b][Len(log[b]) + 1] = entry
        BY <2>1, <1>1, <1>2
    <2>5. v \in 1..Len(log[b]) /\ Len(log[b]) \in Nat
        BY <1>2 DEF CurrentSince, Dir!CurrentSince
    <2>6. log'[b][v].active /\ v \in 1..Len(log'[b])
        BY <2>2, <2>3, <2>5 DEF CurrentSince, Dir!CurrentSince
    <2>7. CASE v < Len(log[b])
        BY <2>2, <2>3, <2>5, <2>6, <2>7 DEF CurrentSince, Dir!CurrentSince
    <2>8. CASE v = Len(log[b])
        BY <2>4, <2>6, <2>8 DEF CurrentSince, Dir!CurrentSince
    <2> QED
        BY <2>5, <2>7, <2>8
<1> QED
    BY <1>4, <1>5

LEMMA Element ==
    ASSUME NEW S, NEW s \in Seq(S), NEW i \in 1..Len(s)
    PROVE  s[i] \in S
OBVIOUS

LEMMA LogEntry ==
    ASSUME Typed, NEW a \in Agents, NEW i \in 1..Len(log[a])
    PROVE  log[a][i].at \in Nat
<1>1. log[a] \in Seq([at : Nat, active : BOOLEAN])
    BY DEF Typed
<1>2. log[a][i] \in [at : Nat, active : BOOLEAN]
    BY <1>1, Element
<1> QED
    BY <1>2

\* A record that was current at some instant since t was so since any s <= t.
LEMMA Earlier ==
    ASSUME Typed, NEW a \in Agents, NEW v, NEW t \in Int, NEW s \in Int,
           s <= t, CurrentSince(a, v, t)
    PROVE  CurrentSince(a, v, s)
<1>1. log[a] \in Seq([at : Nat, active : BOOLEAN])
    BY DEF Typed
<1>2. v \in 1..Len(log[a]) /\ log[a][v].active
    BY DEF CurrentSince, Dir!CurrentSince
<1>3. ASSUME v < Len(log[a]) PROVE s <= log[a][v + 1].at
    <2>1. v + 1 \in 1..Len(log[a])
        BY <1>1, <1>2, <1>3
    <2>2. log[a][v + 1].at \in Nat
        BY <2>1, LogEntry
    <2>3. t <= log[a][v + 1].at
        BY <1>3, Zenon DEF CurrentSince, Dir!CurrentSince
    <2> QED
        BY <2>2, <2>3
<1> QED
    BY <1>2, <1>3 DEF CurrentSince, Dir!CurrentSince

\* The record of an Agent now was current at every earlier instant, too.
LEMMA LastIsCurrent ==
    ASSUME Typed, NEW a \in Agents, Found(a), NEW t
    PROVE  CurrentSince(a, Len(log[a]), t) /\ Len(log[a]) \in Nat
<1>1. log[a] \in Seq([at : Nat, active : BOOLEAN])
    BY DEF Typed
<1>2. Len(log[a]) \in Nat /\ Len(log[a]) # 0
    BY <1>1 DEF Found
<1> QED
    BY <1>2 DEF Found, CurrentSince, Dir!CurrentSince

\* A call that returns lets go of its locals.
LEMMA ReturnStep ==
    ASSUME IInv, NEW c \in Calls, NEW record \in Nat \cup {NoEntry},
           Return(c, record), now' = now, log' = log
    PROVE  /\ Typed' <=> /\ DOMAIN cache' \subseteq Agents
                         /\ cache' \in [DOMAIN cache' -> [until : Nat, record : Nat]]
           /\ \A d \in Calls : pc'[d] = "answered" =>
                 /\ pc[d] = "answered" /\ d # c
                 /\ reply'[d] = reply[d] /\ cached'[d] = cached[d]
                 /\ asked'[d] = asked[d] /\ subject'[d] = subject[d]
           /\ \A d \in Calls : Waiting(d)' => Waiting(d) /\ asked'[d] = asked[d]
<1>1. Typed' <=> /\ DOMAIN cache' \subseteq Agents
                 /\ cache' \in [DOMAIN cache' -> [until : Nat, record : Nat]]
    BY DEF IInv, Typed, Return, Replies, Missing
<1> QED
    BY <1>1 DEF IInv, Typed, Return, Waiting

\* So IInv survives a call that returns, if it leaves good entries.
LEMMA ReturnKeeps ==
    ASSUME IInv, NEW c \in Calls, NEW record \in Nat \cup {NoEntry},
           Return(c, record), now' = now, log' = log,
           DOMAIN cache' \subseteq Agents,
           cache' \in [DOMAIN cache' -> [until : Nat, record : Nat]],
           \A a \in DOMAIN cache' :
              /\ cache'[a].until <= now + TTL
              /\ CurrentSince(a, cache'[a].record, cache'[a].until - TTL - MaxWait)
    PROVE  IInv'
<1>1. Typed'
    BY ReturnStep
<1>2. \A d \in Calls : Waiting(d)' => Waiting(d) /\ asked'[d] = asked[d]
    BY ReturnStep
<1>3. Timely'
    BY <1>2 DEF IInv, Timely
<1>4. \A d \in Calls : pc'[d] = "answered" =>
         /\ pc[d] = "answered" /\ d # c
         /\ reply'[d] = reply[d] /\ cached'[d] = cached[d]
         /\ asked'[d] = asked[d] /\ subject'[d] = subject[d]
    BY ReturnStep
<1>5. \A a, v, t : CurrentSince(a, v, t)' <=> CurrentSince(a, v, t)
    BY DEF CurrentSince, Dir!CurrentSince
<1>6. CacheWasCurrent'
    BY <1>4, <1>5 DEF IInv, CacheWasCurrent, CurrentSince, Dir!CurrentSince
<1> QED
    BY <1>1, <1>3, <1>6 DEF IInv

\* The same when the cache is left alone.
LEMMA ReturnOnly ==
    ASSUME IInv, NEW c \in Calls, NEW record \in Nat \cup {NoEntry},
           Return(c, record), UNCHANGED <<now, log, cache>>
    PROVE  IInv'
BY ReturnKeeps DEF IInv, Typed, Timely, CacheWasCurrent

LEMMA SendKeeps ==
    ASSUME IInv, NEW c \in Calls, Send(c),
           cached' \in [Calls -> Nat \cup {NoEntry}],
           \A d \in Calls \ {c} : cached'[d] = cached[d],
           op' \in [Calls -> {"resolve", "mutate"}]
    PROVE  IInv'
<1>1. Typed'
    BY DEF IInv, Typed, Send
<1>2. Timely'
    BY DEF IInv, Typed, Timely, Send, Waiting
<1>3. CacheWasCurrent'
    BY DEF IInv, Typed, CacheWasCurrent, Send, CurrentSince, Dir!CurrentSince
<1> QED
    BY <1>1, <1>2, <1>3 DEF IInv

LEMMA ReceiveRecordKeeps ==
    ASSUME IInv, NEW c \in Calls, ReceiveRecord(c)
    PROVE  IInv' /\ CurrentSince(subject[c], result'[c], now - TTL - MaxWait)
<1> DEFINE a == subject[c]
           v == reply[c].record
<1>1. /\ a \in Agents /\ now \in Nat /\ asked[c] \in Nat /\ v \in Nat
      /\ now <= asked[c] + MaxWait
    <2>1. subject[c] \in Agents /\ now \in Nat /\ asked[c] \in Nat
        BY DEF IInv, Typed
    <2>2. reply[c] \in Replies /\ reply[c].status \in {"200", "304"}
        BY DEF IInv, Typed, ReceiveRecord
    <2>3. reply[c].record \in Nat
        BY <2>2 DEF Replies, Refused, Missing
    <2>4. now <= asked[c] + MaxWait
        BY DEF IInv, Timely, Waiting, ReceiveRecord
    <2> QED
        BY <2>1, <2>3, <2>4
<1>2. CurrentSince(a, v, asked[c]) /\ NewRecord(c) = v
    BY DEF IInv, CacheWasCurrent, ReceiveRecord, NewRecord
<1>4. CurrentSince(a, v, now - MaxWait) /\ CurrentSince(a, v, now - TTL - MaxWait)
    <2>1. now - MaxWait \in Int /\ now - MaxWait <= asked[c]
        BY <1>1
    <2>2. now - TTL - MaxWait \in Int /\ now - TTL - MaxWait <= asked[c]
        BY <1>1
    <2> HIDE DEF a, v
    <2> QED
        BY <1>1, <1>2, <2>1, <2>2, Earlier DEF IInv
<1>5. result'[c] = v
    BY <1>2 DEF ReceiveRecord, Return, IInv, Typed
<1>6. cache' = Store(a, v)
    BY <1>2 DEF ReceiveRecord
<1>7. /\ DOMAIN cache' = DOMAIN cache \cup {a}
      /\ cache'[a] = [until |-> now + TTL, record |-> v]
      /\ \A b \in DOMAIN cache \ {a} : cache'[b] = cache[b]
      /\ cache' = [b \in DOMAIN cache' |-> cache'[b]]
    BY <1>6 DEF Store
<1>8. \A b \in DOMAIN cache' : cache'[b] \in [until : Nat, record : Nat]
    BY <1>1, <1>7 DEF IInv, Typed
<1>9. cache' \in [DOMAIN cache' -> [until : Nat, record : Nat]]
    BY <1>7, <1>8
<1>10. \A b \in DOMAIN cache' :
          /\ cache'[b].until <= now + TTL
          /\ CurrentSince(b, cache'[b].record, cache'[b].until - TTL - MaxWait)
    <2>1. now + TTL - TTL - MaxWait = now - MaxWait
        BY <1>1
    <2>2. /\ cache'[a].until <= now + TTL
          /\ CurrentSince(a, cache'[a].record, cache'[a].until - TTL - MaxWait)
        BY <1>1, <1>4, <1>7, <2>1
    <2>3. \A b \in DOMAIN cache \ {a} :
             /\ cache'[b].until <= now + TTL
             /\ CurrentSince(b, cache'[b].record, cache'[b].until - TTL - MaxWait)
        BY <1>7 DEF IInv, Timely, CacheWasCurrent
    <2> QED
        BY <1>7, <2>2, <2>3
<1>11. DOMAIN cache' \subseteq Agents
    BY <1>1, <1>7 DEF IInv, Typed
<1>12. Return(c, v) /\ now' = now /\ log' = log
    BY <1>2 DEF ReceiveRecord
<1>13. IInv'
    BY <1>1, <1>9, <1>10, <1>11, <1>12, ReturnKeeps
<1> QED
    BY <1>4, <1>5, <1>13

LEMMA ReceiveDoneKeeps ==
    ASSUME IInv, NEW c \in Calls, ReceiveDone(c)
    PROVE  IInv'
<1>1. /\ DOMAIN cache' \subseteq DOMAIN cache
      /\ \A b \in DOMAIN cache' : cache'[b] = cache[b]
      /\ cache' = [b \in DOMAIN cache' |-> cache[b]]
    BY DEF ReceiveDone, Forget, Drop
<1>2. cache' \in [DOMAIN cache' -> [until : Nat, record : Nat]]
    BY <1>1 DEF IInv, Typed
<1>3. \A b \in DOMAIN cache' :
          /\ cache'[b].until <= now + TTL
          /\ CurrentSince(b, cache'[b].record, cache'[b].until - TTL - MaxWait)
    BY <1>1 DEF IInv, Timely, CacheWasCurrent
<1>4. Return(c, NoEntry) /\ now' = now /\ log' = log /\ DOMAIN cache' \subseteq Agents
    BY <1>1 DEF ReceiveDone, IInv, Typed
<1> QED
    BY <1>2, <1>3, <1>4, ReturnKeeps

-----------------------------------------------------------------------------
(* The Registry and the clock *)

LEMMA OthersKeep ==
    ASSUME IInv, NEW a \in Agents, NEW active \in BOOLEAN, Others(a, active)
    PROVE  IInv'
<1>1. log' \in [Agents -> Seq([at : Nat, active : BOOLEAN])]
    BY DEF IInv, Typed, Others, Change
<1>2. Typed'
    BY <1>1 DEF IInv, Typed, Others, locals
<1>3. Timely'
    BY DEF IInv, Timely, Others, locals, Waiting
<1>4. \A b \in DOMAIN cache :
         CurrentSince(b, cache[b].record, cache[b].until - TTL - MaxWait)'
    <2> TAKE b \in DOMAIN cache
    <2>1. b \in Agents /\ cache[b].until - TTL - MaxWait \in Int
             /\ cache[b].until - TTL - MaxWait <= now
        BY DEF IInv, Typed, Timely
    <2> QED
        BY <2>1, LogGrows DEF IInv, CacheWasCurrent, Others
<1>5. \A c \in Calls : pc[c] = "answered" /\ reply[c].status \in {"200", "304"} =>
         /\ CurrentSince(subject[c], reply[c].record, asked[c])'
         /\ reply[c].status = "304" => cached[c] = reply[c].record
    <2> SUFFICES ASSUME NEW c \in Calls, pc[c] = "answered",
                        reply[c].status \in {"200", "304"}
                 PROVE  /\ CurrentSince(subject[c], reply[c].record, asked[c])'
                        /\ reply[c].status = "304" => cached[c] = reply[c].record
        OBVIOUS
    <2>1. subject[c] \in Agents /\ asked[c] \in Int /\ asked[c] <= now
        BY DEF IInv, Typed, Timely, Waiting
    <2> QED
        BY <2>1, LogGrows DEF IInv, CacheWasCurrent, Others, locals
<1>6. CacheWasCurrent'
    BY <1>4, <1>5 DEF CacheWasCurrent, Others, locals
<1> QED
    BY <1>2, <1>3, <1>6 DEF IInv

LEMMA AnswerResolveKeeps ==
    ASSUME IInv, NEW c \in Calls, AnswerResolve(c)
    PROVE  IInv'
<1> DEFINE a == subject[c]
           last == Len(log[a])
           answer == IF ~Found(a) THEN Missing
                     ELSE [status |-> IF cached[c] = last THEN "304" ELSE "200",
                           record |-> last]
<1>1. a \in Agents
    BY DEF IInv, Typed
<1>2. Found(a) => last \in Nat /\ \A t : CurrentSince(a, last, t)
    BY <1>1, LastIsCurrent DEF IInv
<1>3. Answered(c, answer) /\ log' = log
    BY DEF AnswerResolve
<1>4. answer \in Replies
    BY <1>2 DEF Replies, Statuses
<1>5. answer.status \in {"200", "304"} =>
         /\ CurrentSince(a, answer.record, asked[c])
         /\ answer.status = "304" => cached[c] = answer.record
    BY <1>2 DEF Missing
<1> HIDE DEF answer
<1>6. Typed'
    BY <1>3, <1>4 DEF IInv, Typed, Answered
<1>7. Timely'
    BY <1>3 DEF IInv, Typed, Timely, Answered, Waiting
<1>8. CacheWasCurrent'
    BY <1>3, <1>5 DEF IInv, Typed, CacheWasCurrent, Answered, CurrentSince, Dir!CurrentSince
<1> QED
    BY <1>6, <1>7, <1>8 DEF IInv

LEMMA AnswerMutateKeeps ==
    ASSUME IInv, NEW c \in Calls, NEW active \in BOOLEAN, AnswerMutate(c, active)
    PROVE  IInv'
<1>1. PICK answer : /\ Answered(c, answer)
                    /\ \/ /\ Change(subject[c], active)
                          /\ answer = [status |-> "ok",
                                       record |-> Len(log[subject[c]]) + 1]
                       \/ answer = Refused /\ log' = log
    BY DEF AnswerMutate
<1>2. subject[c] \in Agents /\ log[subject[c]] \in Seq([at : Nat, active : BOOLEAN])
    BY DEF IInv, Typed
<1>3. answer \in Replies /\ answer.status \notin {"200", "304"}
    BY <1>1, <1>2 DEF Replies, Refused, Statuses
<1>4. log' \in [Agents -> Seq([at : Nat, active : BOOLEAN])]
    <2>1. CASE Change(subject[c], active)
        <3>1. [at |-> now, active |-> active] \in [at : Nat, active : BOOLEAN]
            BY DEF IInv, Typed
        <3> QED
            BY <1>2, <2>1, <3>1 DEF IInv, Typed, Change
    <2> QED
        BY <1>1, <2>1 DEF IInv, Typed
<1>5. Typed'
    BY <1>1, <1>3, <1>4 DEF IInv, Typed, Answered
<1>6. Timely'
    BY <1>1 DEF IInv, Typed, Timely, Answered, Waiting
<1>7. ASSUME NEW b \in Agents, NEW v, NEW t \in Int, t <= now,
             CurrentSince(b, v, t)
      PROVE  CurrentSince(b, v, t)'
    BY <1>1, <1>2, <1>7, LogGrows DEF IInv, CurrentSince, Dir!CurrentSince
<1>8. \A b \in DOMAIN cache :
         CurrentSince(b, cache[b].record, cache[b].until - TTL - MaxWait)'
    <2> TAKE b \in DOMAIN cache
    <2>1. b \in Agents /\ cache[b].until - TTL - MaxWait \in Int
             /\ cache[b].until - TTL - MaxWait <= now
        BY DEF IInv, Typed, Timely
    <2>2. cache' = cache
        BY <1>1 DEF Answered
    <2> QED
        BY <1>7, <2>1, <2>2 DEF IInv, CacheWasCurrent
<1>9. ASSUME NEW d \in Calls, pc'[d] = "answered", reply'[d].status \in {"200", "304"}
      PROVE  /\ CurrentSince(subject[d], reply[d].record, asked[d])'
             /\ reply'[d].status = "304" => cached'[d] = reply'[d].record
    <2>1. d # c /\ pc[d] = "answered" /\ reply'[d] = reply[d] /\ reply[d].status \in {"200", "304"}
        BY <1>1, <1>3, <1>9 DEF IInv, Typed, Answered
    <2>2. subject[d] \in Agents /\ asked[d] \in Int /\ asked[d] <= now
        BY <2>1 DEF IInv, Typed, Timely, Waiting
    <2>3. subject' = subject /\ asked' = asked /\ cached' = cached
        BY <1>1 DEF Answered
    <2> QED
        BY <1>7, <2>1, <2>2, <2>3 DEF IInv, CacheWasCurrent
<1>10. CacheWasCurrent'
    <2>1. cache' = cache
        BY <1>1 DEF Answered
    <2> QED
        BY <1>8, <1>9, <2>1 DEF CacheWasCurrent
<1> QED
    BY <1>5, <1>6, <1>10 DEF IInv

LEMMA TickKeeps ==
    ASSUME IInv, Tick
    PROVE  IInv'
<1>1. Typed'
    BY DEF IInv, Typed, Tick, locals
<1>2. Timely'
    BY DEF IInv, Typed, Timely, Tick, locals, Waiting
<1>3. CacheWasCurrent'
    BY DEF IInv, CacheWasCurrent, Tick, locals, CurrentSince, Dir!CurrentSince
<1> QED
    BY <1>1, <1>2, <1>3 DEF IInv

LEMMA StutterKeeps ==
    ASSUME IInv, UNCHANGED <<now, log, cache, locals>>
    PROVE  IInv'
<1>1. Typed'
    BY DEF IInv, Typed, locals
<1>2. Timely'
    BY DEF IInv, Timely, locals, Waiting
<1>3. CacheWasCurrent'
    BY DEF IInv, CacheWasCurrent, locals, CurrentSince, Dir!CurrentSince
<1> QED
    BY <1>1, <1>2, <1>3 DEF IInv

-----------------------------------------------------------------------------
(* The theorem *)

\* What a resolve returns without a request is a live entry of the cache.
LEMMA LocalIsFresh ==
    ASSUME IInv, NEW c \in Calls, NEW refresh \in BOOLEAN,
           ResolveLocally(c, refresh)
    PROVE  /\ IInv'
           /\ result'[c] # NoEntry =>
                 CurrentSince(subject[c], result'[c], now - TTL - MaxWait)
<1> DEFINE a == subject[c]
           record == IF Hit(a) /\ ~refresh THEN cache[a].record ELSE NoEntry
<1>1. a \in Agents /\ now \in Nat /\ result \in [Calls -> Nat \cup {NoEntry}]
    BY DEF IInv, Typed
<1>2. Return(c, record) /\ UNCHANGED <<now, log, cache>>
    BY DEF ResolveLocally
<1>3. Hit(a) => /\ cache[a].record \in Nat /\ cache[a].until \in Nat
                /\ now < cache[a].until
                /\ CurrentSince(a, cache[a].record, cache[a].until - TTL - MaxWait)
    BY DEF Hit, IInv, Typed, CacheWasCurrent
<1>4. record \in Nat \cup {NoEntry}
    BY <1>3
<1>5. IInv'
    BY <1>2, <1>4, ReturnOnly
<1>6. result'[c] = record
    BY <1>1, <1>2 DEF Return
<1>7. Hit(a) => CurrentSince(a, cache[a].record, now - TTL - MaxWait)
    <2> HAVE Hit(a)
    <2>1. /\ cache[a].until - TTL - MaxWait \in Int
          /\ now - TTL - MaxWait \in Int
          /\ now - TTL - MaxWait <= cache[a].until - TTL - MaxWait
        BY <1>1, <1>3
    <2> QED
        BY <1>1, <1>3, <2>1, Earlier DEF IInv
<1> QED
    BY <1>5, <1>6, <1>7

\* One step: IInv is kept, and a call that ends in it returns nothing stale.
Returned(c) == pc[c] # "done" /\ pc'[c] = "done" /\ result'[c] # NoEntry
FreshReturns ==
    \A c \in Calls :
        Returned(c) => CurrentSince(subject[c], result'[c], now - TTL - MaxWait)

\* A step of call c ends no other call.
LEMMA OnlyOneReturns ==
    ASSUME IInv, NEW c \in Calls, NEW record, Return(c, record)
    PROVE  /\ result'[c] = record
           /\ \A d \in Calls \ {c} : ~Returned(d)
BY DEF IInv, Typed, Return, Returned

LEMMA StepKeeps ==
    ASSUME IInv, [Next]_vars
    PROVE  IInv' /\ FreshReturns
<1>1. ASSUME NEW c \in Calls, NEW refresh \in BOOLEAN, ResolveLocally(c, refresh)
      PROVE  IInv' /\ FreshReturns
    <2>1. PICK record : Return(c, record)
        BY <1>1 DEF ResolveLocally
    <2>2. \A d \in Calls \ {c} : ~Returned(d)
        BY <2>1, OnlyOneReturns
    <2> QED
        BY <1>1, <2>2, LocalIsFresh DEF FreshReturns, Returned
<1>2. ASSUME NEW c \in Calls, NEW refresh \in BOOLEAN, ResolveRemotely(c, refresh)
      PROVE  IInv' /\ FreshReturns
    <2>1. Send(c) /\ op' = op
        BY <1>2 DEF ResolveRemotely
    <2>2. /\ cached' \in [Calls -> Nat \cup {NoEntry}]
          /\ \A d \in Calls \ {c} : cached'[d] = cached[d]
        BY <1>2 DEF ResolveRemotely, IInv, Typed
    <2>3. IInv'
        BY <2>1, <2>2, SendKeeps DEF IInv, Typed
    <2> QED
        BY <2>1, <2>3 DEF FreshReturns, Returned, Send, IInv, Typed
<1>3. ASSUME NEW c \in Calls, Mutate(c)
      PROVE  IInv' /\ FreshReturns
    <2>1. Send(c) /\ cached' = cached /\ op' \in [Calls -> {"resolve", "mutate"}]
        BY <1>3 DEF Mutate, IInv, Typed
    <2>2. IInv'
        BY <2>1, SendKeeps DEF IInv, Typed
    <2> QED
        BY <2>1, <2>2 DEF FreshReturns, Returned, Send, IInv, Typed
<1>4. ASSUME NEW c \in Calls, ReceiveRecord(c)
      PROVE  IInv' /\ FreshReturns
    BY <1>4, ReceiveRecordKeeps, OnlyOneReturns DEF FreshReturns, ReceiveRecord
<1>5. ASSUME NEW c \in Calls, ReceiveDone(c)
      PROVE  IInv' /\ FreshReturns
    <2>1. Return(c, NoEntry)
        BY <1>5 DEF ReceiveDone
    <2> QED
        BY <1>5, <2>1, ReceiveDoneKeeps, OnlyOneReturns DEF FreshReturns, Returned
<1>6. ASSUME NEW c \in Calls, ReceiveError(c) \/ Fail(c)
      PROVE  IInv' /\ FreshReturns
    <2>1. Return(c, NoEntry) /\ UNCHANGED <<now, log, cache>>
        BY <1>6 DEF ReceiveError, Fail
    <2> QED
        BY <2>1, ReturnOnly, OnlyOneReturns DEF FreshReturns, Returned
<1>7. ASSUME NEW c \in Calls, AnswerResolve(c)
      PROVE  IInv' /\ FreshReturns
    <2>1. PICK answer : Answered(c, answer)
        BY <1>7 DEF AnswerResolve
    <2> QED
        BY <1>7, <2>1, AnswerResolveKeeps
        DEF FreshReturns, Returned, Answered, IInv, Typed
<1>8. ASSUME NEW c \in Calls, NEW active \in BOOLEAN, AnswerMutate(c, active)
      PROVE  IInv' /\ FreshReturns
    <2>1. PICK answer : Answered(c, answer)
        BY <1>8 DEF AnswerMutate
    <2> QED
        BY <1>8, <2>1, AnswerMutateKeeps
        DEF FreshReturns, Returned, Answered, IInv, Typed
<1>9. ASSUME NEW a \in Agents, NEW active \in BOOLEAN, Others(a, active)
      PROVE  IInv' /\ FreshReturns
    BY <1>9, OthersKeep DEF FreshReturns, Returned, Others, locals
<1>10. CASE Tick
    BY <1>10, TickKeeps DEF FreshReturns, Returned, Tick, locals
<1>11. CASE Toggle \/ UNCHANGED vars
    BY <1>11, StutterKeeps DEF FreshReturns, Returned, Toggle, vars, locals
<1> QED
    BY <1>1, <1>2, <1>3, <1>4, <1>5, <1>6, <1>7, <1>8, <1>9, <1>10, <1>11 DEF Next

LEMMA Invariance == Spec => []IInv
<1>1. IInv /\ [Next]_vars => IInv'
    BY StepKeeps
<1> QED
    BY Initially, <1>1, PTL DEF Spec

\* What is cached, or on its way into the cache, was the Registry's record
\* while its request was under way (resolve of agent_auth/_registry.py).
THEOREM CacheSound == Spec => []CacheWasCurrent
<1>1. IInv => CacheWasCurrent
    BY DEF IInv
<1> QED
    BY Invariance, <1>1, PTL

\* resolve never returns a record older than one entry's life and one round
\* trip: a retired key and a revoked Agent are forgotten in bounded time, even
\* when the Registry cannot be reached.
THEOREM Staleness == Spec => BoundedStaleness
<1>1. IInv /\ [Next]_vars => [FreshReturns]_vars
    BY StepKeeps
<1>2. [FreshReturns]_vars =>
         [\A c \in Calls :
            (pc[c] # "done" /\ pc'[c] = "done" /\ result'[c] # NoEntry) =>
               CurrentSince(subject[c], result'[c], now - TTL - MaxWait)]_vars
    BY DEF FreshReturns, Returned
<1> QED
    BY Invariance, <1>1, <1>2, PTL DEF Spec, BoundedStaleness

-----------------------------------------------------------------------------
(* The calls as askers of a directory *)

\* A call has a result only once it is done, and one that is not a resolve
\* brings back no record.
Stages ==
    \A c \in Calls :
        /\ pc[c] # "done" => result[c] = NoEntry
        /\ pc[c] = "idle" => op[c] = "resolve"
        /\ pc[c] = "answered" /\ reply[c].status \in {"200", "304"} =>
              op[c] = "resolve"

\* A call that returns settles its question, and is told a record or nothing.
LEMMA ReturnSettles ==
    ASSUME IInv, Stages, NEW c \in Calls, NEW record \in Nat \cup {NoEntry},
           Return(c, record), pc[c] # "done", UNCHANGED <<now, log>>
    PROVE  /\ Stages'
           /\ Asking' = Asking \ {c}
           /\ Questions' = [d \in Asking \ {c} |-> Questions[d]]
           /\ Told[c] = NoEntry
           /\ record = NoEntry => Told' = Told
           /\ record # NoEntry =>
                 Told' = [Told EXCEPT ![c] = [agent |-> subject[c], record |-> record]]
<1>1. /\ pc' = [pc EXCEPT ![c] = "done"] /\ result' = [result EXCEPT ![c] = record]
      /\ reply' = [reply EXCEPT ![c] = Missing] /\ asked' = [asked EXCEPT ![c] = 0]
      /\ UNCHANGED <<op, subject>>
  BY DEF Return
<1>2. /\ pc'[c] = "done" /\ result'[c] = record
      /\ \A d \in Calls \ {c} : /\ pc'[d] = pc[d] /\ result'[d] = result[d]
                                /\ reply'[d] = reply[d] /\ asked'[d] = asked[d]
  BY <1>1 DEF IInv, Typed
<1>3. Stages'
  BY <1>1, <1>2 DEF Stages
<1>4. Asking' = Asking \ {c}
  BY <1>1, <1>2 DEF Asking, Waiting
<1>5. Questions' = [d \in Asking \ {c} |-> Questions[d]]
  BY <1>1, <1>2, <1>4 DEF Questions, Asking
<1>6. result[c] = NoEntry /\ Told[c] = NoEntry
  BY DEF Stages, Told
<1>7. /\ DOMAIN Told = Calls /\ DOMAIN Told' = Calls
      /\ Told = [d \in Calls |-> Told[d]] /\ Told' = [d \in Calls |-> Told'[d]]
      /\ \A d \in Calls \ {c} : Told'[d] = Told[d]
      /\ Told'[c] = IF record = NoEntry THEN NoEntry
                    ELSE [agent |-> subject[c], record |-> record]
  BY <1>1, <1>2 DEF Told
<1>8. record = NoEntry => Told' = Told
  BY <1>6, <1>7
<1>9. record # NoEntry =>
         Told' = [Told EXCEPT ![c] = [agent |-> subject[c], record |-> record]]
  BY <1>7
<1> QED BY <1>3, <1>4, <1>5, <1>6, <1>8, <1>9

\* A call that ends without a record was a failure or asked nothing.
LEMMA NothingTold ==
    ASSUME IInv, Stages, NEW c \in Calls, Return(c, NoEntry), pc[c] # "done",
           UNCHANGED <<now, log>>
    PROVE  Stages' /\ [Dir!Next]_(Dir!directory)
<1>1. /\ Stages' /\ Asking' = Asking \ {c} /\ Told' = Told
      /\ Questions' = [d \in Asking \ {c} |-> Questions[d]]
  BY ReturnSettles
<1>2. DOMAIN Questions = Asking /\ Questions = [d \in Asking |-> Questions[d]]
  BY DEF Questions
<1>3. CASE c \in Asking
  BY <1>1, <1>2, <1>3 DEF Dir!Next, Dir!Fail, Dir!Settle
<1>4. CASE c \notin Asking
  <2>1. Asking \ {c} = Asking
    BY <1>4
  <2>2. Questions' = Questions
    BY <1>1, <1>2, <2>1
  <2> QED BY <1>1, <2>2 DEF Dir!directory
<1> QED BY <1>1, <1>3, <1>4

\* A live entry is an answer from memory.
LEMMA LocalRemembers ==
    ASSUME IInv, Stages, NEW c \in Calls, NEW refresh \in BOOLEAN,
           ResolveLocally(c, refresh)
    PROVE  Stages' /\ [Dir!Next]_(Dir!directory)
<1> DEFINE a == subject[c]
           record == IF Hit(a) /\ ~refresh THEN cache[a].record ELSE NoEntry
<1>1. pc[c] = "idle" /\ Return(c, record) /\ UNCHANGED <<now, log>>
  BY DEF ResolveLocally
<1>2. a \in Agents /\ (Hit(a) => cache[a].record \in Nat)
  BY DEF Hit, IInv, Typed
<1>3. CASE record = NoEntry
  BY <1>1, <1>3, NothingTold
<1>4. CASE record # NoEntry
  <2>1. record \in Nat
    BY <1>2, <1>4
  <2>2. /\ Stages' /\ Asking' = Asking \ {c} /\ Told[c] = NoEntry
        /\ Questions' = [d \in Asking \ {c} |-> Questions[d]]
        /\ Told' = [Told EXCEPT ![c] = [agent |-> a, record |-> record]]
    BY <1>1, <1>4, <2>1, ReturnSettles
  <2>3. c \notin Asking /\ DOMAIN Questions = Asking /\ Questions' = Questions
    BY <1>1, <2>2 DEF Asking, Waiting, Questions
  <2>4. CurrentSince(a, record, now - TTL - MaxWait)
    <3>1. result'[c] = record
      BY <1>1 DEF Return, IInv, Typed
    <3> QED BY <1>4, <3>1, LocalIsFresh
  <2>5. now - TTL - MaxWait = now - (TTL + MaxWait)
    BY DEF IInv, Typed
  <2>6. record \in 1..Len(log[a]) /\ Dir!CurrentSince(a, record, now - (TTL + MaxWait))
    BY <2>4, <2>5 DEF CurrentSince, Dir!CurrentSince
  <2>7. record \in Dir!Believable(a)
    BY <2>6 DEF Dir!Believable
  <2> HIDE DEF record, a
  <2>8. Dir!Remember(c, a)
    BY <1>1, <2>2, <2>3, <2>7 DEF Dir!Remember, Dir!Tell
  <2> QED BY <1>2, <2>2, <2>8 DEF Dir!Next
<1> QED BY <1>3, <1>4

\* A record that is received answers the question.
LEMMA ReceiveAnswers ==
    ASSUME IInv, Stages, NEW c \in Calls, ReceiveRecord(c)
    PROVE  Stages' /\ [Dir!Next]_(Dir!directory)
<1> DEFINE a == subject[c]
           v == NewRecord(c)
<1>1. /\ pc[c] = "answered" /\ Return(c, v) /\ UNCHANGED <<now, log>>
      /\ c \in Asking
  BY DEF ReceiveRecord, Stages, Asking, Waiting
<1>2. v = reply[c].record /\ CurrentSince(a, v, asked[c])
  BY DEF ReceiveRecord, IInv, CacheWasCurrent, NewRecord
<1>3. v \in 1..Len(log[a]) /\ v \in Nat /\ v # NoEntry
  BY <1>2 DEF CurrentSince, Dir!CurrentSince
<1>4. /\ Stages' /\ Asking' = Asking \ {c}
      /\ Questions' = [d \in Asking \ {c} |-> Questions[d]]
      /\ Told' = [Told EXCEPT ![c] = [agent |-> a, record |-> v]]
  <2> HIDE DEF v
  <2> QED BY <1>1, <1>3, ReturnSettles
<1>5. DOMAIN Questions = Asking /\ Questions[c].agent = a /\ Questions[c].at = asked[c]
  BY <1>1 DEF Questions
<1> HIDE DEF a, v
<1>6. Dir!Answer(c)
  BY <1>1, <1>2, <1>3, <1>4, <1>5
  DEF Dir!Answer, Dir!Settle, Dir!Tell, CurrentSince
<1> QED BY <1>4, <1>6 DEF Dir!Next

\* A resolve that goes out is a question; a mutation asks for no record.
LEMMA SendAsks ==
    ASSUME IInv, Stages, NEW c \in Calls,
           Mutate(c) \/ \E refresh \in BOOLEAN : ResolveRemotely(c, refresh)
    PROVE  Stages' /\ [Dir!Next]_(Dir!directory)
<1>1. /\ pc[c] = "idle" /\ pc' = [pc EXCEPT ![c] = "sent"]
      /\ asked' = [asked EXCEPT ![c] = now]
      /\ UNCHANGED <<now, log, subject, reply, result>>
  BY DEF Mutate, ResolveRemotely, Send
<1>2. Told' = Told
  BY <1>1 DEF Told
<1>3. c \notin Asking /\ Told[c] = NoEntry /\ DOMAIN Questions = Asking
  BY <1>1 DEF Asking, Waiting, Questions, Stages, Told
<1>4. /\ pc'[c] = "sent" /\ asked'[c] = now
      /\ \A d \in Calls \ {c} : pc'[d] = pc[d] /\ asked'[d] = asked[d]
  BY <1>1 DEF IInv, Typed
<1>5. CASE op' = op
  <2>1. Stages'
    BY <1>1, <1>4, <1>5 DEF Stages
  <2>2. Asking' = Asking \cup {c}
    BY <1>1, <1>4, <1>5 DEF Asking, Waiting, Stages
  <2>3. Questions' = [d \in Asking \cup {c} |->
                         IF d = c THEN [agent |-> subject[c], at |-> now] ELSE Questions[d]]
    BY <1>1, <1>3, <1>4, <2>2 DEF Questions
  <2>4. subject[c] \in Agents
    BY DEF IInv, Typed
  <2>5. Dir!Ask(c, subject[c])
    BY <1>1, <1>2, <1>3, <2>3 DEF Dir!Ask
  <2> QED BY <2>1, <2>4, <2>5 DEF Dir!Next
<1>6. CASE op' = [op EXCEPT ![c] = "mutate"]
  <2>1. op'[c] = "mutate" /\ \A d \in Calls \ {c} : op'[d] = op[d]
    BY <1>6 DEF IInv, Typed
  <2>2. Stages'
    BY <1>1, <1>4, <2>1 DEF Stages
  <2>3. Asking' = Asking
    BY <1>3, <1>4, <2>1 DEF Asking, Waiting
  <2>4. Questions' = Questions
    BY <1>1, <1>3, <1>4, <2>3 DEF Questions
  <2> QED BY <1>1, <1>2, <2>2, <2>4 DEF Dir!directory
<1> QED BY <1>5, <1>6 DEF Mutate, ResolveRemotely

\* The Registry's answer is on its way: nobody has been told yet.
LEMMA AnswerOnItsWay ==
    ASSUME IInv, Stages, NEW c \in Calls, NEW x, Answered(c, x),
           x.status \in {"200", "304"} => op[c] = "resolve"
    PROVE  Stages' /\ UNCHANGED <<Questions, Told>>
<1>1. /\ pc[c] = "sent" /\ pc' = [pc EXCEPT ![c] = "answered"]
      /\ reply' = [reply EXCEPT ![c] = x] /\ UNCHANGED <<now, op, subject, asked, result>>
  BY DEF Answered
<1>2. /\ pc'[c] = "answered" /\ reply'[c] = x
      /\ \A d \in Calls \ {c} : pc'[d] = pc[d] /\ reply'[d] = reply[d]
  BY <1>1 DEF IInv, Typed
<1>3. Stages'
  BY <1>1, <1>2 DEF Stages
<1>4. Asking' = Asking
  BY <1>1, <1>2 DEF Asking, Waiting
<1>5. Questions' = Questions /\ Told' = Told
  BY <1>1, <1>4 DEF Questions, Told
<1> QED BY <1>3, <1>5

\* A change of the Registry is one of the directory.
LEMMA ChangeChanges ==
    ASSUME NEW a \in Agents, NEW active \in BOOLEAN, Change(a, active),
           UNCHANGED <<now, Questions, Told>>
    PROVE  Dir!Next
<1>1. Dir!Change(a, active)
  BY DEF Dir!Change, Dir!Retired, Change, Revoked, Found
<1> QED BY <1>1 DEF Dir!Next

LEMMA DirectoryStep ==
    ASSUME IInv, Stages, [Next]_vars
    PROVE  Stages' /\ [Dir!Next]_(Dir!directory)
<1>1. ASSUME NEW c \in Calls, NEW refresh \in BOOLEAN, ResolveLocally(c, refresh)
      PROVE  Stages' /\ [Dir!Next]_(Dir!directory)
  BY <1>1, LocalRemembers
<1>2. ASSUME NEW c \in Calls,
             Mutate(c) \/ \E refresh \in BOOLEAN : ResolveRemotely(c, refresh)
      PROVE  Stages' /\ [Dir!Next]_(Dir!directory)
  BY <1>2, SendAsks
<1>3. ASSUME NEW c \in Calls, ReceiveRecord(c)
      PROVE  Stages' /\ [Dir!Next]_(Dir!directory)
  BY <1>3, ReceiveAnswers
<1>4. ASSUME NEW c \in Calls, ReceiveDone(c) \/ ReceiveError(c) \/ Fail(c)
      PROVE  Stages' /\ [Dir!Next]_(Dir!directory)
  <2>1. Return(c, NoEntry) /\ pc[c] # "done" /\ UNCHANGED <<now, log>>
    BY <1>4 DEF ReceiveDone, ReceiveError, Fail, Waiting
  <2> QED BY <2>1, NothingTold
<1>5. ASSUME NEW c \in Calls, AnswerResolve(c)
      PROVE  Stages' /\ [Dir!Next]_(Dir!directory)
  <2>1. PICK x : Answered(c, x) /\ op[c] = "resolve" /\ UNCHANGED <<now, log>>
    BY <1>5 DEF AnswerResolve, Answered
  <2> QED BY <2>1, AnswerOnItsWay DEF Dir!directory
<1>6. ASSUME NEW c \in Calls, NEW active \in BOOLEAN, AnswerMutate(c, active)
      PROVE  Stages' /\ [Dir!Next]_(Dir!directory)
  <2>1. PICK x : /\ Answered(c, x) /\ x.status \notin {"200", "304"} /\ UNCHANGED now
                 /\ Change(subject[c], active) \/ UNCHANGED log
    BY <1>6 DEF AnswerMutate, Refused, Answered
  <2>2. Stages' /\ UNCHANGED <<Questions, Told>>
    BY <2>1, AnswerOnItsWay
  <2>3. subject[c] \in Agents
    BY DEF IInv, Typed
  <2> QED BY <2>1, <2>2, <2>3, ChangeChanges DEF Dir!directory
<1>7. ASSUME UNCHANGED locals PROVE Stages' /\ UNCHANGED <<Questions, Told>>
  BY <1>7 DEF locals, Stages, Questions, Told, Asking, Waiting
<1>8. ASSUME NEW a \in Agents, NEW active \in BOOLEAN, Others(a, active)
      PROVE  Stages' /\ [Dir!Next]_(Dir!directory)
  BY <1>7, <1>8, ChangeChanges DEF Others
<1>9. CASE Tick
  <2>1. now <= now' /\ UNCHANGED <<log, locals>>
    BY <1>9 DEF Tick, IInv, Typed
  <2>2. ASSUME NEW c \in Asking PROVE now' <= Questions[c].at + MaxWait
    <3>1. now < asked[c] + MaxWait /\ now' = now + 1 /\ asked[c] \in Nat /\ now \in Nat
      BY <1>9 DEF Tick, Asking, IInv, Typed
    <3>2. Questions[c].at = asked[c]
      BY DEF Questions
    <3> QED BY <3>1, <3>2
  <2>3. DOMAIN Questions = Asking
    BY DEF Questions
  <2>4. Dir!Pass
    BY <1>7, <2>1, <2>2, <2>3 DEF Dir!Pass
  <2> QED BY <1>7, <2>1, <2>4 DEF Dir!Next
<1>10. CASE Toggle \/ UNCHANGED vars
  BY <1>7, <1>10 DEF Toggle, vars, Dir!directory
<1> QED
  BY <1>1, <1>2, <1>3, <1>4, <1>5, <1>6, <1>8, <1>9, <1>10 DEF Next

\* A process that resolves through the cache is told what a directory may tell
\* (resolve and mutate of agent_auth/_registry.py): RemoteCall resolves by it.
THEOREM CallsAreTold == Spec => ImplementsDirectory
<1>1. Init => Stages /\ Dir!Init
  BY DEF Init, Stages, Dir!Init, Questions, Asking, Waiting, Told
<1>2. IInv /\ Stages /\ [Next]_vars => Stages' /\ [Dir!Next]_(Dir!directory)
  BY DirectoryStep
<1> QED
  BY <1>1, <1>2, Invariance, PTL DEF Spec, ImplementsDirectory, Dir!Spec

-----------------------------------------------------------------------------
(* Own changes *)

\* The history variables have their types.
OwnTyped ==
    /\ open \in BOOLEAN
    /\ filler \in [Agents -> Calls]
    /\ floor \in [Agents -> Nat]
    /\ overlap \in [Agents -> SUBSET Calls]

\* An answer that a call brings back is behind an own change only if the call
\* was under way when that change returned.
AnswersFollow ==
    \A c \in Calls : LET a == subject[c] IN
        pc[c] = "answered" =>
           /\ reply[c].status = "ok" => reply[c].record <= Len(log[a])
           /\ reply[c].status \in {"200", "304"} /\ c \notin overlap[a] =>
                 floor[a] <= NewRecord(c)

\* OwnChangeSeen, what is on its way into the cache, and that an own change is a
\* change.
OwnInv ==
    /\ OwnTyped
    /\ \A a \in Agents : floor[a] <= Len(log[a])
    /\ AnswersFollow
    /\ OwnChangeSeen

\* Only an answer with a record is "ok", "200" or "304".
LEMMA RepliesAre ==
    ASSUME NEW x \in Replies, x.status \in Statuses
    PROVE  x.record \in Nat
<1>1. x # Refused /\ x # Missing
  BY DEF Refused, Missing, Statuses
<1> QED BY <1>1 DEF Replies

\* A step that leaves the histories and the cache alone, and brings no answer.
LEMMA OwnStays ==
    ASSUME IInv, OwnInv, open' \in BOOLEAN,
           UNCHANGED <<cache, subject, history>>,
           \A a \in Agents : Len(log[a]) <= Len(log'[a]) /\ Len(log'[a]) \in Nat,
           \A c \in Calls : pc'[c] = "answered" =>
              pc[c] = "answered" /\ reply'[c] = reply[c] /\ cached'[c] = cached[c]
    PROVE  OwnInv'
<1>1. OwnTyped' /\ OwnChangeSeen'
  BY DEF OwnInv, OwnTyped, OwnChangeSeen, history
<1>2. \A a \in Agents : floor'[a] <= Len(log'[a])
  <2> SUFFICES ASSUME NEW a \in Agents PROVE floor'[a] <= Len(log'[a])
    OBVIOUS
  <2>1. floor[a] \in Nat /\ Len(log[a]) \in Nat /\ floor[a] <= Len(log[a]) /\ floor'[a] = floor[a]
    BY DEF OwnInv, OwnTyped, IInv, Typed, history
  <2> QED BY <2>1
<1>3. AnswersFollow'
  <2> SUFFICES ASSUME NEW c \in Calls, pc'[c] = "answered"
               PROVE  LET a == subject[c] IN
                      /\ reply'[c].status = "ok" => reply'[c].record <= Len(log'[a])
                      /\ reply'[c].status \in {"200", "304"} /\ c \notin overlap'[a] =>
                            floor'[a] <= NewRecord(c)'
    BY DEF AnswersFollow
  <2> DEFINE a == subject[c]
  <2>1. /\ pc[c] = "answered" /\ reply'[c] = reply[c] /\ NewRecord(c)' = NewRecord(c)
        /\ a \in Agents /\ Len(log[a]) \in Nat
    BY DEF NewRecord, IInv, Typed
  <2>2. reply[c].status = "ok" => reply[c].record <= Len(log'[a])
    <3>1. reply[c].status = "ok" => reply[c].record \in Nat
      BY RepliesAre DEF IInv, Typed, Statuses
    <3> QED BY <2>1, <3>1 DEF OwnInv, AnswersFollow
  <2> QED BY <2>1, <2>2 DEF OwnInv, AnswersFollow, history
<1> QED BY <1>1, <1>2, <1>3 DEF OwnInv

\* A call that returns takes its answer off its way.
LEMMA ReturnOwn ==
    ASSUME IInv, NEW c \in Calls, NEW record, Return(c, record), UNCHANGED <<now, log>>
    PROVE  /\ UNCHANGED subject
           /\ \A d \in Calls : pc'[d] = "answered" =>
                 /\ pc[d] = "answered" /\ d # c
                 /\ reply'[d] = reply[d] /\ cached'[d] = cached[d]
BY DEF Return, IInv, Typed

LEMMA OwnStep ==
    ASSUME IInv, OwnInv, [Next]_vars
    PROVE  OwnInv'
<1> DEFINE Grows == \A a \in Agents : Len(log[a]) <= Len(log'[a]) /\ Len(log'[a]) \in Nat
<1>0. /\ \A a \in Agents : Len(log[a]) \in Nat
      /\ open \in BOOLEAN
      /\ subject \in [Calls -> Agents]
      /\ pc \in [Calls -> {"idle", "sent", "answered", "done"}]
  BY DEF IInv, Typed, OwnInv, OwnTyped
<1>1. ASSUME NEW a \in Agents, NEW active \in BOOLEAN, Change(a, active)
      PROVE  /\ Len(log'[a]) = Len(log[a]) + 1
             /\ Grows
  <2>1. log[a] \in Seq([at : Nat, active : BOOLEAN]) /\ [at |-> now, active |-> active] \in [at : Nat, active : BOOLEAN]
    BY DEF IInv, Typed
  <2>2. log' = [log EXCEPT ![a] = Append(log[a], [at |-> now, active |-> active])]
    BY <1>1 DEF Change
  <2>3. log'[a] = Append(log[a], [at |-> now, active |-> active])
        /\ \A b \in Agents \ {a} : log'[b] = log[b]
    BY <2>2 DEF IInv, Typed
  <2>4. Len(log'[a]) = Len(log[a]) + 1
    BY <2>1, <2>3
  <2> QED BY <1>0, <2>3, <2>4
<1>2. ASSUME NEW c \in Calls, NEW refresh \in BOOLEAN,
             ResolveLocally(c, refresh) \/ ResolveRemotely(c, refresh) \/ Mutate(c)
      PROVE  OwnInv'
  <2>1. CASE ResolveLocally(c, refresh)
    BY <1>0, <2>1, ReturnOwn, OwnStays DEF ResolveLocally
  <2>2. CASE ResolveRemotely(c, refresh) \/ Mutate(c)
    <3>1. Send(c) /\ \A d \in Calls \ {c} : cached'[d] = cached[d]
      BY <2>2 DEF ResolveRemotely, Mutate, IInv, Typed
    <3> QED BY <1>0, <3>1, OwnStays DEF Send
  <2> QED BY <1>2, <2>1, <2>2
<1>3. ASSUME NEW c \in Calls, ReceiveError(c) \/ Fail(c) PROVE OwnInv'
  BY <1>0, <1>3, ReturnOwn, OwnStays DEF ReceiveError, Fail
<1>4. ASSUME NEW c \in Calls, AnswerResolve(c) \/ \E active \in BOOLEAN : AnswerMutate(c, active)
      PROVE  OwnInv'
  <2> DEFINE a == subject[c]
  <2>1. a \in Agents /\ floor[a] \in Nat /\ floor[a] <= Len(log[a])
    BY <1>0 DEF OwnInv, OwnTyped
  <2>2. PICK x : Answered(c, x)
    BY <1>4 DEF AnswerResolve, AnswerMutate
  <2>3. reply'[c] = x /\ \A d \in Calls \ {c} : pc'[d] = pc[d] /\ reply'[d] = reply[d]
    BY <2>2 DEF Answered, IInv, Typed
  <2>4. Grows
    BY <1>0, <1>1, <1>4 DEF AnswerResolve, AnswerMutate
  <2>5. UNCHANGED <<cache, subject, cached, open, history>>
    BY <2>2 DEF Answered
  <2>6. /\ Len(log'[a]) \in Nat /\ Len(log[a]) \in Nat
        /\ x.status = "ok" => x.record = Len(log'[a])
        /\ x.status \in {"200", "304"} =>
              x.record = Len(log[a]) /\ (x.status = "304" => cached[c] = Len(log[a]))
    <3>1. CASE AnswerResolve(c)
      <4>1. Answered(c, IF ~Found(a) THEN Missing
                        ELSE [status |-> IF cached[c] = Len(log[a]) THEN "304" ELSE "200",
                              record |-> Len(log[a])])
        BY <3>1 DEF AnswerResolve
      <4>2. x = IF ~Found(a) THEN Missing
                ELSE [status |-> IF cached[c] = Len(log[a]) THEN "304" ELSE "200",
                      record |-> Len(log[a])]
        BY <2>3, <4>1 DEF Answered, IInv, Typed
      <4> QED BY <1>0, <2>1, <2>4, <4>2 DEF Missing
    <3>2. ASSUME NEW active \in BOOLEAN, AnswerMutate(c, active)
          PROVE  <2>6!1 /\ <2>6!2 /\ <2>6!3
      <4>1. CASE Change(a, active) /\ Answered(c, [status |-> "ok", record |-> Len(log[a]) + 1])
        <5>1. x = [status |-> "ok", record |-> Len(log[a]) + 1]
          BY <2>3, <4>1 DEF Answered, IInv, Typed
        <5> QED BY <1>0, <1>1, <2>1, <2>4, <4>1, <5>1
      <4>2. CASE Answered(c, Refused)
        <5>1. x = Refused
          BY <2>3, <4>2 DEF Answered, IInv, Typed
        <5> QED BY <1>0, <2>1, <2>4, <5>1 DEF Refused
      <4> QED BY <3>2, <4>1, <4>2 DEF AnswerMutate
    <3> QED BY <1>4, <3>1, <3>2
  <2>7. AnswersFollow'
    <3> SUFFICES ASSUME NEW d \in Calls, pc'[d] = "answered"
                 PROVE  LET b == subject[d] IN
                        /\ reply'[d].status = "ok" => reply'[d].record <= Len(log'[b])
                        /\ reply'[d].status \in {"200", "304"} /\ d \notin overlap[b] =>
                              floor[b] <= NewRecord(d)'
      BY <2>5 DEF AnswersFollow, history
    <3>1. CASE d = c
      BY <2>1, <2>3, <2>5, <2>6, <3>1 DEF NewRecord
    <3>2. CASE d # c
      <4>1. pc[d] = "answered" /\ reply'[d] = reply[d] /\ NewRecord(d)' = NewRecord(d)
        BY <2>3, <2>5, <3>2 DEF NewRecord
      <4>2. reply[d].status = "ok" => reply[d].record \in Nat
        BY RepliesAre DEF IInv, Typed, Statuses
      <4> QED BY <1>0, <2>4, <4>1, <4>2 DEF OwnInv, AnswersFollow
    <3> QED BY <3>1, <3>2
  <2> QED
    BY <1>0, <2>4, <2>5, <2>7 DEF OwnInv, OwnTyped, OwnChangeSeen, history
<1>5. ASSUME NEW c \in Calls, ReceiveRecord(c) PROVE OwnInv'
  <2> DEFINE a == subject[c]
  <2>1. /\ pc[c] = "answered" /\ reply[c].status \in {"200", "304"}
        /\ cache' = Store(a, NewRecord(c))
        /\ filler' = [filler EXCEPT ![a] = c]
        /\ Return(c, NewRecord(c))
        /\ UNCHANGED <<now, log, open, floor, overlap>>
    BY <1>5 DEF ReceiveRecord
  <2>2. AnswersFollow'
    BY <2>1, ReturnOwn DEF OwnInv, AnswersFollow, NewRecord
  <2>3. OwnTyped'
    BY <1>0, <2>1 DEF OwnInv, OwnTyped
  <2>4. OwnChangeSeen'
    <3> SUFFICES ASSUME NEW b \in DOMAIN cache', cache'[b].record < floor[b]
                 PROVE  filler'[b] \in overlap[b]
      BY <2>1 DEF OwnChangeSeen
    <3>1. CASE b = a
      <4>1. a \in Agents /\ filler'[b] = c /\ cache'[b].record = NewRecord(c)
        BY <1>0, <2>1, <3>1 DEF Store, OwnInv, OwnTyped
      <4>2. floor[a] \in Nat /\ NewRecord(c) \in Nat
        BY <1>0, <2>1, RepliesAre DEF OwnInv, OwnTyped, IInv, Typed, CacheWasCurrent, NewRecord, Statuses
      <4> QED BY <2>1, <3>1, <4>1, <4>2 DEF OwnInv, AnswersFollow
    <3>2. CASE b # a
      BY <2>1, <3>2 DEF Store, OwnInv, OwnTyped, OwnChangeSeen, IInv, Typed
    <3> QED BY <3>1, <3>2
  <2> QED BY <2>1, <2>2, <2>3, <2>4 DEF OwnInv
<1>6. ASSUME NEW c \in Calls, ReceiveDone(c) PROVE OwnInv'
  <2> DEFINE a == subject[c]
  <2>1. /\ pc[c] = "answered" /\ reply[c].status = "ok"
        /\ cache' = Drop(a)
        /\ Return(c, NoEntry)
        /\ floor' = [floor EXCEPT ![a] = IF floor[a] < reply[c].record
                                         THEN reply[c].record ELSE floor[a]]
        /\ overlap' = [overlap EXCEPT ![a] = overlap[a] \cup {d \in Calls : Waiting(d)}]
        /\ UNCHANGED <<now, log, open, filler>>
    BY <1>6 DEF ReceiveDone, Forget
  <2>2. /\ a \in Agents /\ reply[c].record \in Nat /\ reply[c].record <= Len(log[a])
        /\ floor[a] \in Nat /\ floor[a] <= Len(log[a])
    BY <1>0, <2>1, RepliesAre DEF OwnInv, OwnTyped, AnswersFollow, IInv, Typed, Statuses
  <2>3. /\ floor'[a] \in Nat /\ floor'[a] <= Len(log[a])
        /\ \A b \in Agents \ {a} : floor'[b] = floor[b] /\ overlap'[b] = overlap[b]
        /\ overlap'[a] = overlap[a] \cup {d \in Calls : Waiting(d)}
    BY <2>1, <2>2 DEF OwnInv, OwnTyped
  <2>4. OwnTyped'
    <3>1. floor' \in [Agents -> Nat]
      BY <2>1, <2>2 DEF OwnInv, OwnTyped
    <3>2. overlap' \in [Agents -> SUBSET Calls]
      BY <2>1, <2>2 DEF OwnInv, OwnTyped
    <3> QED BY <2>1, <3>1, <3>2 DEF OwnInv, OwnTyped
  <2>5. AnswersFollow'
    <3> SUFFICES ASSUME NEW d \in Calls, pc'[d] = "answered"
                 PROVE  LET b == subject'[d] IN
                        /\ reply'[d].status = "ok" => reply'[d].record <= Len(log'[b])
                        /\ reply'[d].status \in {"200", "304"} /\ d \notin overlap'[b] =>
                              floor'[b] <= NewRecord(d)'
      BY DEF AnswersFollow
    <3>1. /\ pc[d] = "answered" /\ reply'[d] = reply[d] /\ NewRecord(d)' = NewRecord(d)
          /\ UNCHANGED <<log, subject>> /\ subject[d] \in Agents
      BY <1>0, <2>1, ReturnOwn DEF NewRecord
    <3>2. CASE subject[d] = a
      BY <2>3, <3>1, <3>2 DEF OwnInv, AnswersFollow, Waiting
    <3>3. CASE subject[d] # a
      BY <2>3, <3>1, <3>3 DEF OwnInv, AnswersFollow
    <3> QED BY <3>2, <3>3
  <2>6. OwnChangeSeen'
    BY <2>1, <2>3 DEF Drop, OwnInv, OwnTyped, OwnChangeSeen, IInv, Typed
  <2>7. \A b \in Agents : floor'[b] <= Len(log'[b])
    BY <2>1, <2>3 DEF OwnInv
  <2> QED BY <2>4, <2>5, <2>6, <2>7 DEF OwnInv
<1>7. CASE Toggle \/ Tick \/ UNCHANGED vars
  <2>1. CASE Toggle
    BY <1>0, <2>1, OwnStays DEF Toggle, locals
  <2>2. CASE Tick
    BY <1>0, <2>2, OwnStays DEF Tick, locals
  <2>3. CASE UNCHANGED vars
    BY <1>0, <2>3, OwnStays DEF vars, locals
  <2> QED BY <1>7, <2>1, <2>2, <2>3
<1>8. ASSUME NEW a \in Agents, NEW active \in BOOLEAN, Others(a, active) PROVE OwnInv'
  BY <1>0, <1>1, <1>8, OwnStays DEF Others, locals
<1> QED BY <1>2, <1>3, <1>4, <1>5, <1>6, <1>7, <1>8 DEF Next

LEMMA OwnInvariance == Spec => []OwnInv
<1>1. Init => OwnInv
  <2> SUFFICES ASSUME Init PROVE OwnInv
    OBVIOUS
  <2>1. OwnTyped
    BY DEF Init, OwnTyped
  <2>2. \A a \in Agents : floor[a] <= Len(log[a])
    BY DEF Init
  <2>3. AnswersFollow
    BY DEF Init, AnswersFollow
  <2>4. OwnChangeSeen
    BY DEF Init, OwnChangeSeen
  <2> QED BY <2>1, <2>2, <2>3, <2>4 DEF OwnInv
<1>2. IInv /\ OwnInv /\ [Next]_vars => OwnInv'
  BY OwnStep
<1> QED BY Invariance, <1>1, <1>2, PTL DEF Spec

\* Behind a change of this process its cache holds only what a call that was
\* already under way when the change returned has stored since (mutate drops
\* the entry, resolve stores its answer, agent_auth/_registry.py).
THEOREM OwnChanges == Spec => []OwnChangeSeen
<1>1. OwnInv => OwnChangeSeen
  BY DEF OwnInv
<1> QED BY OwnInvariance, <1>1, PTL

\* The variables of the client, of the Registry it asks and of the histories
\* keep their types.
THEOREM TypeCorrect == Spec => []TypeOK
<1>1. IInv /\ OwnInv => TypeOK
  BY DEF IInv, Typed, OwnInv, OwnTyped, TypeOK, Replies, Statuses
<1> QED BY Invariance, OwnInvariance, <1>1, PTL
=============================================================================
