-------------------------- MODULE RemoteCallProofs --------------------------
(***************************************************************************)
(* TLAPS proofs about RemoteCall, for any Agents, calls and deliveries, any*)
(* clock, skew and age of a cache, and any number of re-keyings.           *)
(***************************************************************************)
EXTENDS RemoteCall, TLAPS

-----------------------------------------------------------------------------
(* The invariants *)

\* Time and the records of an Agent go forward.
LogOrdered ==
    \A a \in Agents : \A v, w \in 1..Len(log[a]) :
        v <= w => log[a][v].at <= log[a][w].at

Handled(c) == \E d \in handled : d.call = c

\* A reply is signed by its sender, for the call whose handler was called.
Genuine(m) ==
    /\ m \in Replies /\ m.id \in handled
    /\ m.replyTo = m.id.call /\ m.signer = m.kid

\* An error with the ID of the call is no answer of its handler.
Honest(d, m) ==
    /\ m \in Errors /\ m.id \in {d.call, OtherId} /\ m.code # "ok"
    /\ m.code # "FAILED" /\ m.id = d.call =>
          /\ d \notin handled /\ stage[d] = "done"
          /\ m.code = "NONCE_REPLAYED" => Handled(d.call)

RequestsAreOwn ==
    \A c \in Calls : request[c] # NoMessage => request[c].id = c

StageTellsHandled ==
    \A d \in Deliveries : /\ stage[d] = "handler" => d \in handled
                          /\ stage[d] = "none" => d \notin handled

AnswerIsTrue(d) ==
    IF IsError(answer[d]) THEN Honest(d, answer[d]) ELSE Genuine(answer[d])

AnswersAreTrue ==
    \A d \in Deliveries : answer[d] # NoMessage => AnswerIsTrue(d)

RepliesAreGenuine ==
    \A c \in Calls : pc[c] = "verify" => Genuine(reply[c])

NoncesTellHandled ==
    \A a \in Agents : \A n \in nonces[a] : n.id \in Calls => Handled(n.id)

IInv ==
    /\ TypeOK
    /\ LogOrdered /\ (\A a \in Agents : \A v \in 1..Len(log[a]) : log[a][v].at <= now)
    /\ RequestsAreOwn /\ StageTellsHandled /\ AnswersAreTrue /\ RepliesAreGenuine
    /\ NoncesTellHandled /\ ErrorsAreHonest

-----------------------------------------------------------------------------
(* The operators *)

LEMMA RefusalType ==
    ASSUME NEW e, NEW rec, NEW audience, NEW type, NEW replyTo
    PROVE  Refusal(e, rec, audience, type, replyTo) \in Codes
BY DEF Refusal, VerifyRefusal, Codes

LEMMA CodesUsed == {"ok", "FAILED", "NONCE_REPLAYED"} \subseteq Codes
BY DEF Codes

\* What an accepted envelope has shown.
LEMMA RefusalOk ==
    ASSUME NEW e, NEW rec, NEW audience, NEW type, NEW replyTo,
           Refusal(e, rec, audience, type, replyTo) = "ok"
    PROVE  /\ e.sender = rec.agent /\ e.kid = rec.kid /\ e.signer = rec.key
           /\ replyTo # NoReply => e.replyTo = replyTo
           /\ ~ Used(audience, e)
BY DEF Refusal, VerifyRefusal, SignedBy

LEMMA RefusedAsReplayed ==
    ASSUME NEW e, NEW rec, NEW audience, NEW type, NEW replyTo,
           Refusal(e, rec, audience, type, replyTo) = "NONCE_REPLAYED"
    PROVE  \E n \in nonces[audience] : n.id = e.id
BY DEF Refusal, VerifyRefusal, Used, Live

LEMMA RefusedForSigner ==
    ASSUME NEW e, NEW rec, NEW audience, NEW type, NEW replyTo,
           Refusal(e, rec, audience, type, replyTo) \in {"SIGNER_MISMATCH", "SIGNATURE_INVALID"}
    PROVE  e.sender # rec.agent \/ e.kid # rec.kid \/ e.signer # rec.key
BY DEF Refusal, VerifyRefusal, SignedBy

LEMMA RefusalNotFailed ==
    ASSUME NEW e, NEW rec, NEW audience, NEW type, NEW replyTo
    PROVE  Refusal(e, rec, audience, type, replyTo) # "FAILED"
BY DEF Refusal, VerifyRefusal

LEMMA ErrorFacts ==
    ASSUME NEW code \in Codes, NEW id \in Ids
    PROVE  /\ Error(code, id) \in Errors /\ IsError(Error(code, id))
           /\ Error(code, id).code = code /\ Error(code, id).id = id
BY DEF Error, Errors, IsError

LEMMA SignedFacts ==
    ASSUME TypeOK, NEW id, NEW type, NEW from \in Agents, NEW to \in Agents, NEW replyTo
    PROVE  /\ Signed(id, type, from, to, replyTo) \in Envelopes({id}, type, {replyTo})
           /\ Signed(id, type, from, to, replyTo).id = id
           /\ Signed(id, type, from, to, replyTo).replyTo = replyTo
           /\ Signed(id, type, from, to, replyTo).signer = Signed(id, type, from, to, replyTo).kid
           /\ ~ IsError(Signed(id, type, from, to, replyTo))
<1>1. Key(from, signer[from]) \in Keys /\ now \in Nat
  BY DEF TypeOK, Keys, Key
<1> QED BY <1>1 DEF Signed, Envelopes, IsError

LEMMA ReplyIsNoError == ASSUME NEW m \in Replies PROVE ~ IsError(m)
BY DEF Replies, Envelopes, IsError

LEMMA ConsumeTyped ==
    ASSUME TypeOK, NEW a \in Agents, NEW e, e.id \in Calls \cup Deliveries, e.issued \in Nat,
           Consume(a, e)
    PROVE  /\ nonces' \in [Agents -> SUBSET Nonces]
           /\ \A b \in Agents : \A n \in nonces'[b] :
                 n \in nonces[b] \/ n.id = e.id
<1>1. [id |-> e.id, expires |-> Expiry(e)] \in Nonces
  BY SkewAssumption DEF Nonces, Expiry
<1>2. Live(a) \subseteq nonces[a]
  BY DEF Live
<1> DEFINE row == [id |-> e.id, expires |-> Expiry(e)]
<1>3. row \in Nonces /\ row.id = e.id
  BY <1>1
<1>4. nonces' = [nonces EXCEPT ![a] = Live(a) \cup {row}]
  BY DEF Consume
<1> HIDE DEF row
<1> QED BY <1>2, <1>3, <1>4 DEF TypeOK

LEMMA EndTyped ==
    ASSUME TypeOK, NEW c \in Calls, NEW r \in Errors, End(c, r)
    PROVE  /\ pc' \in [Calls -> {"idle", "sign", "sent", "verify", "done"}]
           /\ seen' \in [Calls -> Nat]
           /\ request' = request
           /\ reply' \in [Calls -> Replies \cup {NoMessage}]
           /\ outcome' \in [Calls -> Errors \cup {NoMessage}]
<1> HIDE DEF Errors, Replies
<1> QED BY DEF TypeOK, End, Goto

-----------------------------------------------------------------------------
(* The first states *)

LEMMA InitIInv == Init => IInv
<1> SUFFICES ASSUME Init PROVE IInv
  OBVIOUS
<1> USE DEF Init
<1>1. TypeOK
  <2>1. log \in [Agents -> Seq(Records)]
    BY DEF Records
  <2>2. \A a \in Agents : signer[a] \in 1..Len(log[a])
    OBVIOUS
  <2> HIDE DEF Replies, Requests, Errors, Nonces
  <2>3. /\ now \in Nat /\ signer \in [Agents -> Nat]
        /\ nonces \in [Agents -> SUBSET Nonces]
        /\ pc \in [Calls -> {"idle", "sign", "sent", "verify", "done"}]
        /\ seen \in [Calls -> Nat]
        /\ stage \in [Deliveries -> {"none", "handler", "done"}]
        /\ handled \subseteq Deliveries
    OBVIOUS
  <2>4. /\ request \in [Calls -> Requests \cup {NoMessage}]
        /\ reply \in [Calls -> Replies \cup {NoMessage}]
        /\ outcome \in [Calls -> Errors \cup {NoMessage}]
        /\ answer \in [Deliveries -> Replies \cup Errors \cup {NoMessage}]
    OBVIOUS
  <2> QED BY <2>1, <2>2, <2>3, <2>4 DEF TypeOK
<1>2. LogOrdered /\ (\A a \in Agents : \A v \in 1..Len(log[a]) : log[a][v].at <= now)
  BY DEF LogOrdered
<1>3. RequestsAreOwn /\ StageTellsHandled /\ AnswersAreTrue /\ RepliesAreGenuine
  BY DEF RequestsAreOwn, StageTellsHandled, AnswersAreTrue, RepliesAreGenuine
<1>4. NoncesTellHandled /\ ErrorsAreHonest
  BY DEF NoncesTellHandled, ErrorsAreHonest
<1> QED BY <1>1, <1>2, <1>3, <1>4 DEF IInv

-----------------------------------------------------------------------------
(* Types *)

LEMMA CallTyped ==
    ASSUME TypeOK, NEW c \in Calls,
           Resolve(c) \/ Send(c) \/ FailEarly(c) \/ GiveUp(c)
    PROVE  TypeOK'
<1> USE CallAssumption
<1> HIDE DEF Replies, Requests, Errors, Nonces
<1>1. CASE Resolve(c)
  BY <1>1 DEF TypeOK, Resolve, Goto, world, routes, Believable, CurrentSince,
     Dir!Believable, Dir!CurrentSince
<1>2. CASE Send(c)
  <2>1. c.from \in Agents /\ c.to \in Agents
    OBVIOUS
  <2>2. Signed(c, "agent.call", c.from, c.to, NoReply) \in Requests
    BY <2>1, SignedFacts DEF Requests, Envelopes
  <2> QED BY <1>2, <2>2 DEF TypeOK, Send, Goto, world, routes
<1>3. CASE FailEarly(c)
  <2>1. Error("FAILED", NoId) \in Errors
    BY ErrorFacts, CodesUsed DEF Ids
  <2>2. End(c, Error("FAILED", NoId)) /\ UNCHANGED <<now, world, nonces, routes>>
    BY <1>3 DEF FailEarly
  <2> QED BY <2>1, <2>2, EndTyped DEF TypeOK, world, routes
<1>4. CASE GiveUp(c)
  <2>1. Error("FAILED", c) \in Errors
    BY ErrorFacts, CodesUsed DEF Ids
  <2>2. End(c, Error("FAILED", c)) /\ UNCHANGED <<now, world, nonces, routes>>
    BY <1>4 DEF GiveUp
  <2> QED BY <2>1, <2>2, EndTyped DEF TypeOK, world, routes
<1> QED BY <1>1, <1>2, <1>3, <1>4

LEMMA ReceiveTyped ==
    ASSUME TypeOK, NEW c \in Calls, NEW d \in Deliveries, Receive(c, d)
    PROVE  TypeOK'
<1> HIDE DEF Replies, Requests, Errors, Nonces
<1>1. /\ answer' = [answer EXCEPT ![d] = NoMessage]
      /\ UNCHANGED <<now, world, nonces, stage, handled>>
      /\ answer[d] # NoMessage
  BY DEF Receive
<1>2. answer' \in [Deliveries -> Replies \cup Errors \cup {NoMessage}]
  BY <1>1 DEF TypeOK
<1>3. CASE IsError(answer[d])
  <2>1. answer[d] \in Errors
    BY <1>1, <1>3, ReplyIsNoError DEF TypeOK
  <2>2. answer[d].code \in Codes /\ answer[d].id \in Ids
    BY <2>1 DEF Errors
  <2>3. c \in Ids
    BY DEF Ids
  <2>4. _remote_error(answer[d], c) \in Errors
    BY <2>2, <2>3, ErrorFacts DEF _remote_error
  <2>5. End(c, _remote_error(answer[d], c))
    BY <1>3 DEF Receive
  <2> QED BY <1>1, <1>2, <2>4, <2>5, EndTyped DEF TypeOK, world
<1>4. CASE ~ IsError(answer[d])
  <2>1. answer[d] \in Replies
    <3>1. ASSUME NEW m \in Errors PROVE IsError(m)
      BY DEF Errors, IsError
    <3> QED BY <1>1, <1>4, <3>1 DEF TypeOK
  <2>2. /\ reply' = [reply EXCEPT ![c] = answer[d]] /\ pc' = [pc EXCEPT ![c] = "verify"]
        /\ UNCHANGED <<seen, request, outcome>>
    BY <1>4 DEF Receive, Goto
  <2> QED BY <1>1, <1>2, <2>1, <2>2 DEF TypeOK, world
<1> QED BY <1>3, <1>4

LEMMA VerifyTyped ==
    ASSUME TypeOK, RepliesAreGenuine, NEW c \in Calls, VerifyReply(c)
    PROVE  TypeOK'
<1> USE CallAssumption
<1> HIDE DEF Replies, Requests, Errors, Nonces
<1>1. reply[c] \in Replies
  BY DEF VerifyReply, RepliesAreGenuine, Genuine
<1>2. reply[c].id \in Deliveries /\ reply[c].issued \in Nat
  BY <1>1 DEF Replies, Envelopes
<1>3. UNCHANGED <<now, world, routes>>
  BY DEF VerifyReply
<1>4. \E r \in Errors : End(c, r)
  <2>1. reply[c].id \in Ids /\ NoId \in Ids
    BY <1>2 DEF Ids
  <2>2. /\ Error("FAILED", NoId) \in Errors /\ Error("ok", reply[c].id) \in Errors
        /\ \A v \in Sources(c) : Error(reply_refusal(c, v), reply[c].id) \in Errors
    BY <2>1, ErrorFacts, CodesUsed, RefusalType DEF reply_refusal
  <2> HIDE DEF Error, End, reply_refusal, Sources
  <2> QED BY <2>2 DEF VerifyReply
<1>5. nonces' \in [Agents -> SUBSET Nonces]
  <2>1. c.from \in Agents
    OBVIOUS
  <2>2. CASE UNCHANGED nonces
    BY <2>2 DEF TypeOK
  <2>3. CASE Consume(c.from, reply[c])
    BY <1>2, <2>1, <2>3, ConsumeTyped
  <2> QED BY <2>2, <2>3 DEF VerifyReply
<1> QED BY <1>3, <1>4, <1>5, EndTyped DEF TypeOK, world, routes

LEMMA RouteTyped ==
    ASSUME TypeOK, NEW d \in Deliveries, Accept(d) \/ Return(d)
    PROVE  TypeOK'
<1> USE CallAssumption
<1> HIDE DEF Replies, Requests, Errors, Nonces
<1>1. d.call \in Calls /\ d.call.from \in Agents /\ d.call.to \in Agents
  OBVIOUS
<1>2. d.call \in Ids /\ OtherId \in Ids
  BY <1>1 DEF Ids
<1>3. UNCHANGED <<now, world, calls>>
  BY DEF Accept, Return
<1>4. ASSUME NEW m \in Replies \cup Errors, Respond(d, m)
      PROVE  /\ stage' \in [Deliveries -> {"none", "handler", "done"}]
             /\ answer' \in [Deliveries -> Replies \cup Errors \cup {NoMessage}]
  BY <1>4 DEF TypeOK, Respond
<1>5. CASE Accept(d)
  <2>1. CASE /\ \E m \in Errors : Respond(d, m)
             /\ UNCHANGED <<nonces, handled>>
    BY <1>3, <1>4, <2>1 DEF TypeOK, world, calls
  <2>2. CASE /\ Consume(d.call.to, request[d.call])
             /\ stage' = [stage EXCEPT ![d] = "handler"]
             /\ handled' = handled \cup {d}
             /\ UNCHANGED answer
    <3>1. request[d.call] \in Requests
      BY <1>1, <1>5 DEF Accept, TypeOK
    <3>2. request[d.call].id \in Calls /\ request[d.call].issued \in Nat
      BY <3>1 DEF Requests, Envelopes
    <3>3. nonces' \in [Agents -> SUBSET Nonces]
      BY <1>1, <2>2, <3>2, ConsumeTyped
    <3> QED BY <1>3, <2>2, <3>3 DEF TypeOK, world, calls
  <2>3. /\ Error("FAILED", d.call) \in Errors
        /\ \A v : Error(call_refusal(d, v), d.call) \in Errors
    BY <1>2, ErrorFacts, CodesUsed, RefusalType DEF call_refusal
  <2> HIDE DEF Error, Respond, call_refusal, Consume
  <2> QED BY <1>5, <2>1, <2>2, <2>3 DEF Accept
<1>6. CASE Return(d)
  <2>1. /\ Error("FAILED", d.call) \in Errors /\ Error("NONCE_REPLAYED", OtherId) \in Errors
    BY <1>2, ErrorFacts, CodesUsed
  <2>2. Signed(d, "agent.result", d.call.to, d.call.from, d.call) \in Replies
    BY <1>1, SignedFacts DEF Replies, Envelopes
  <2>3. UNCHANGED <<nonces, handled>>
    BY <1>6 DEF Return
  <2>4. \E m \in Replies \cup Errors : Respond(d, m)
    <3> HIDE DEF Error, Respond, Signed
    <3> QED BY <1>6, <2>1, <2>2 DEF Return
  <2> QED BY <1>3, <1>4, <2>3, <2>4 DEF TypeOK, world, calls
<1> QED BY <1>5, <1>6

LEMMA ChangeTyped ==
    ASSUME TypeOK, NEW a \in Agents, NEW active \in BOOLEAN, Change(a, active)
    PROVE  TypeOK'
<1> HIDE DEF Replies, Requests, Errors, Nonces
<1> DEFINE entry == [at |-> now, active |-> active]
<1>1. entry \in Records
  BY DEF TypeOK, Records
<1>2. /\ log' = [log EXCEPT ![a] = Append(log[a], entry)]
      /\ UNCHANGED <<now, signer, nonces, calls, routes>>
  BY DEF Change
<1>3. Append(log[a], entry) \in Seq(Records)
  BY <1>1 DEF TypeOK
<1>4. Len(Append(log[a], entry)) = Len(log[a]) + 1 /\ Len(log[a]) \in Nat
  BY DEF TypeOK
<1>5. log' \in [Agents -> Seq(Records)]
  BY <1>2, <1>3 DEF TypeOK
<1>6. \A b \in Agents : Len(log[b]) \in Nat /\ Len(log'[b]) \in Nat /\ Len(log[b]) <= Len(log'[b])
  BY <1>2, <1>4 DEF TypeOK
<1>7. \A b \in Agents : signer'[b] \in 1..Len(log'[b])
  BY <1>2, <1>6 DEF TypeOK
<1> QED BY <1>2, <1>5, <1>7 DEF TypeOK, calls, routes

LEMMA RestartTyped ==
    ASSUME TypeOK, NEW a \in Agents, Restart(a)
    PROVE  TypeOK'
<1> HIDE DEF Replies, Requests, Errors, Nonces
<1>1. PICK v \in Configured(a) : signer' = [signer EXCEPT ![a] = v]
  BY DEF Restart
<1>2. v \in 1..Len(log[a]) /\ v \in Nat
  BY DEF TypeOK, Configured
<1>3. signer' \in [Agents -> Nat] /\ \A b \in Agents : signer'[b] \in 1..Len(log[b])
  BY <1>1, <1>2 DEF TypeOK
<1> QED BY <1>3 DEF Restart, TypeOK

LEMMA StepTyped ==
    ASSUME TypeOK, RepliesAreGenuine, Next
    PROVE  TypeOK'
<1>1. CASE Tick
  BY <1>1 DEF Tick, TypeOK, world, calls, routes
<1> QED BY <1>1, CallTyped, ReceiveTyped, VerifyTyped, RouteTyped, ChangeTyped,
           RestartTyped DEF Next

-----------------------------------------------------------------------------
(* What every step keeps *)

\* The steps, by what they change.
LEMMA StepCases ==
    ASSUME TypeOK, Next
    PROVE  \/ UNCHANGED <<stage, answer, handled, request, nonces, log, now>>
           \/ \E c \in Calls : Send(c)
           \/ \E c \in Calls : VerifyReply(c)
           \/ \E c \in Calls, d \in Deliveries : Receive(c, d)
           \/ \E d \in Deliveries : Accept(d)
           \/ \E d \in Deliveries : Return(d)
           \/ \E a \in Agents : Restart(a)
           \/ \E a \in Agents, active \in BOOLEAN : Change(a, active)
           \/ Tick
<1>1. ASSUME NEW c \in Calls, Resolve(c) \/ FailEarly(c) \/ GiveUp(c)
      PROVE  UNCHANGED <<stage, answer, handled, request, nonces, log, now>>
  BY <1>1 DEF Resolve, FailEarly, GiveUp, End, world, routes
<1> QED BY <1>1 DEF Next

LEMMA RouteKept ==
    ASSUME TypeOK, Next
    PROVE  /\ handled \subseteq handled'
           /\ \A d \in Deliveries : stage[d] = "done" =>
                 stage'[d] = "done" /\ (d \in handled' => d \in handled)
<1>1. ASSUME NEW d \in Deliveries, Accept(d)
      PROVE  \/ handled' = handled /\ stage' = [stage EXCEPT ![d] = "done"]
             \/ /\ stage[d] = "none" /\ handled' = handled \cup {d}
                /\ stage' = [stage EXCEPT ![d] = "handler"]
  BY <1>1 DEF Accept, Respond
<1>2. ASSUME NEW d \in Deliveries, Return(d)
      PROVE  handled' = handled /\ stage' = [stage EXCEPT ![d] = "done"]
  BY <1>2 DEF Return, Respond
<1>3. ASSUME NEW a \in Agents, Restart(a)
      PROVE  /\ handled' = handled
             /\ \A d \in Deliveries : stage[d] = "done" => stage'[d] = "done"
  BY <1>3 DEF Restart
<1>4. ASSUME \/ \E c \in Calls : Send(c) \/ VerifyReply(c) \/ \E d \in Deliveries : Receive(c, d)
             \/ Tick \/ \E a \in Agents, active \in BOOLEAN : Change(a, active)
      PROVE  UNCHANGED <<stage, handled>>
  BY <1>4 DEF Send, VerifyReply, Receive, Tick, Change, routes
<1> QED BY <1>1, <1>2, <1>3, <1>4, StepCases DEF TypeOK

LEMMA StepLog ==
    ASSUME TypeOK, Next, LogOrdered,
           \A a \in Agents : \A v \in 1..Len(log[a]) : log[a][v].at <= now
    PROVE  /\ LogOrdered'
           /\ \A a \in Agents : \A v \in 1..Len(log'[a]) : log'[a][v].at <= now'
<1>1. CASE UNCHANGED log /\ now <= now' /\ now' \in Nat
  <2>1. ASSUME NEW a \in Agents, NEW v \in 1..Len(log[a])
        PROVE  log[a][v].at <= now'
    <3>1. log[a] \in Seq(Records)
      BY DEF TypeOK
    <3>2. log[a][v] \in Records
      BY <3>1
    <3>3. log[a][v].at \in Nat /\ log[a][v].at <= now
      BY <3>2 DEF Records
    <3>4. now \in Nat /\ now' \in Int
      BY <1>1 DEF TypeOK
    <3> QED BY <1>1, <3>3, <3>4
  <2> QED BY <1>1, <2>1 DEF LogOrdered
<1>2. ASSUME NEW a \in Agents, NEW active \in BOOLEAN, Change(a, active)
      PROVE  /\ LogOrdered'
             /\ \A b \in Agents : \A v \in 1..Len(log'[b]) : log'[b][v].at <= now'
  <2> DEFINE entry == [at |-> now, active |-> active]
  <2>1. log' = [log EXCEPT ![a] = Append(log[a], entry)] /\ now' = now
    BY <1>2 DEF Change
  <2>2. entry.at = now /\ now \in Nat
    BY DEF TypeOK
  <2> HIDE DEF entry
  <2>3. /\ log[a] \in Seq(Records) /\ Len(log[a]) \in Nat
        /\ \A v \in 1..Len(log[a]) : log[a][v] \in Records
    BY DEF TypeOK
  <2>4. /\ Len(log'[a]) = Len(log[a]) + 1
        /\ \A v \in 1..Len(log[a]) : log'[a][v] = log[a][v]
        /\ log'[a][Len(log[a]) + 1].at = now
    BY <2>1, <2>2, <2>3 DEF TypeOK
  <2>5. ASSUME NEW v \in 1..Len(log'[a])
        PROVE  log'[a][v].at <= now /\ (v \in 1..Len(log[a]) \/ v = Len(log'[a]))
    BY <2>2, <2>3, <2>4
  <2>6. ASSUME NEW v \in 1..Len(log'[a]), NEW w \in 1..Len(log'[a]), v <= w
        PROVE  log'[a][v].at <= log'[a][w].at
    <3>1. CASE w \in 1..Len(log[a])
      <4>1. v \in 1..Len(log[a])
        BY <2>3, <2>6, <3>1
      <4> QED BY <2>4, <2>6, <3>1, <4>1 DEF LogOrdered
    <3>2. CASE w = Len(log'[a])
      <4>1. log'[a][w].at = now
        BY <2>4, <3>2
      <4> QED BY <2>5, <4>1
    <3> QED BY <2>5, <3>1, <3>2
  <2>7. \A b \in Agents \ {a} : log'[b] = log[b]
    BY <2>1 DEF TypeOK
  <2>8. LogOrdered'
    BY <2>6, <2>7 DEF LogOrdered
  <2>9. \A b \in Agents : \A v \in 1..Len(log'[b]) : log'[b][v].at <= now'
    BY <2>1, <2>5, <2>7
  <2> QED BY <2>8, <2>9
<1>3. CASE Tick
  <2>1. UNCHANGED log /\ now <= now' /\ now' \in Nat
    BY <1>3 DEF Tick, world, TypeOK
  <2> QED BY <1>1, <2>1
<1>4. ASSUME \/ \E c \in Calls : Send(c) \/ VerifyReply(c) \/ \E d \in Deliveries : Receive(c, d)
             \/ \E d \in Deliveries : Accept(d) \/ Return(d)
             \/ \E a \in Agents : Restart(a)
             \/ UNCHANGED <<stage, answer, handled, request, nonces, log, now>>
      PROVE  UNCHANGED log /\ now <= now' /\ now' \in Nat
  BY <1>4 DEF Send, VerifyReply, Receive, Accept, Return, Restart, world, TypeOK
<1> QED BY <1>1, <1>2, <1>3, <1>4, StepCases

LEMMA StepRequests ==
    ASSUME TypeOK, Next, RequestsAreOwn
    PROVE  RequestsAreOwn'
<1>1. ASSUME NEW c \in Calls, Send(c)
      PROVE  RequestsAreOwn'
  <2>2. Signed(c, "agent.call", c.from, c.to, NoReply).id = c
    BY DEF Signed
  <2>3. request' = [request EXCEPT ![c] = Signed(c, "agent.call", c.from, c.to, NoReply)]
    BY <1>1 DEF Send
  <2> HIDE DEF Signed
  <2> QED BY <2>2, <2>3 DEF RequestsAreOwn, TypeOK
<1>2. CASE UNCHANGED request
  BY <1>2 DEF RequestsAreOwn
<1>3. ASSUME \/ \E c \in Calls : VerifyReply(c) \/ \E d \in Deliveries : Receive(c, d)
             \/ \E d \in Deliveries : Accept(d) \/ Return(d)
             \/ \E a \in Agents : Restart(a) \/ \E active \in BOOLEAN : Change(a, active)
             \/ Tick
      PROVE  UNCHANGED request
  BY <1>3 DEF VerifyReply, End, Receive, Accept, Return, Restart, Change, Tick, calls
<1> QED BY <1>1, <1>2, <1>3, StepCases

LEMMA StepStage ==
    ASSUME TypeOK, Next, StageTellsHandled
    PROVE  StageTellsHandled'
<1> USE DEF TypeOK, StageTellsHandled
<1>1. ASSUME NEW d \in Deliveries, Accept(d) PROVE StageTellsHandled'
  BY <1>1 DEF Accept, Respond
<1>2. ASSUME NEW d \in Deliveries, Return(d) PROVE StageTellsHandled'
  BY <1>2 DEF Return, Respond
<1>3. ASSUME NEW a \in Agents, Restart(a) PROVE StageTellsHandled'
  BY <1>3 DEF Restart
<1>4. ASSUME \/ \E c \in Calls : Send(c) \/ VerifyReply(c) \/ \E d \in Deliveries : Receive(c, d)
             \/ Tick \/ \E a \in Agents, active \in BOOLEAN : Change(a, active)
      PROVE  UNCHANGED <<stage, handled>>
  BY <1>4 DEF Send, VerifyReply, Receive, Tick, Change, routes
<1> QED BY <1>1, <1>2, <1>3, <1>4, StepCases

-----------------------------------------------------------------------------
(* Messages and nonces *)

LEMMA GenuineKept ==
    ASSUME NEW m, Genuine(m), handled \subseteq handled'
    PROVE  /\ m \in Replies /\ m.id \in handled'
           /\ m.replyTo = m.id.call /\ m.signer = m.kid
BY DEF Genuine

LEMMA HonestKept ==
    ASSUME TypeOK, Next, NEW d \in Deliveries, NEW m, Honest(d, m)
    PROVE  /\ m \in Errors /\ m.id \in {d.call, OtherId} /\ m.code # "ok"
           /\ m.code # "FAILED" /\ m.id = d.call =>
                 /\ d \notin handled' /\ stage'[d] = "done"
                 /\ m.code = "NONCE_REPLAYED" => \E e \in handled' : e.call = d.call
<1>1. handled \subseteq handled'
  BY RouteKept
<1>2. stage[d] = "done" => stage'[d] = "done" /\ (d \in handled' => d \in handled)
  BY RouteKept
<1> QED BY <1>1, <1>2, Zenon DEF Honest, Handled

\* A response that was not there before is true.
LEMMA StepAnswers ==
    ASSUME TypeOK, Next, RequestsAreOwn, StageTellsHandled, NoncesTellHandled, AnswersAreTrue
    PROVE  AnswersAreTrue'
<1>1. ASSUME NEW d \in Deliveries, answer'[d] = answer[d], answer[d] # NoMessage
      PROVE  AnswerIsTrue(d)'
  <2>1. handled \subseteq handled'
    BY RouteKept
  <2>2. CASE IsError(answer[d])
    <3>1. Honest(d, answer[d])
      BY <1>1, <2>2 DEF AnswersAreTrue, AnswerIsTrue
    <3>2. Honest(d, answer[d])'
      BY <1>1, <3>1, HonestKept DEF Honest, Handled
    <3> QED BY <1>1, <2>2, <3>2 DEF AnswerIsTrue
  <2>3. CASE ~ IsError(answer[d])
    <3>1. Genuine(answer[d])
      BY <1>1, <2>3 DEF AnswersAreTrue, AnswerIsTrue
    <3>2. Genuine(answer[d])'
      BY <1>1, <2>1, <3>1, GenuineKept DEF Genuine
    <3> QED BY <1>1, <2>3, <3>2 DEF AnswerIsTrue
  <2> QED BY <2>2, <2>3
<1>2. ASSUME NEW d \in Deliveries, Respond(d, answer'[d]),
             AnswerIsTrue(d)'
      PROVE  AnswersAreTrue'
  <2>1. \A e \in Deliveries \ {d} : answer'[e] = answer[e]
    BY <1>2 DEF Respond, TypeOK
  <2> QED BY <1>1, <1>2, <2>1 DEF AnswersAreTrue
<1>3. CASE UNCHANGED answer
  BY <1>1, <1>3 DEF AnswersAreTrue
<1>4. ASSUME NEW c \in Calls, NEW d \in Deliveries, Receive(c, d)
      PROVE  AnswersAreTrue'
  <2>1. answer' = [answer EXCEPT ![d] = NoMessage]
    BY <1>4 DEF Receive
  <2> QED BY <1>1, <2>1 DEF AnswersAreTrue, TypeOK
<1>5. ASSUME NEW d \in Deliveries, Accept(d)
      PROVE  AnswersAreTrue'
  <2>1. CASE UNCHANGED answer
    BY <1>3, <2>1
  <2>2. ASSUME NEW code \in Codes, Respond(d, Error(code, d.call)), UNCHANGED handled,
               code # "ok", code = "NONCE_REPLAYED" => Handled(d.call)
        PROVE  AnswersAreTrue'
    <3>1. d.call \in Ids
      BY CallAssumption DEF Ids
    <3> DEFINE m == Error(code, d.call)
    <3>2. m \in Errors /\ IsError(m) /\ m.code = code /\ m.id = d.call
      BY <3>1, ErrorFacts
    <3> HIDE DEF m
    <3>3. answer'[d] = m /\ stage'[d] = "done"
      BY <2>2 DEF Respond, TypeOK, m
    <3>4. d \notin handled'
      BY <1>5, <2>2 DEF Accept, StageTellsHandled
    <3>5. Honest(d, m)'
      BY <2>2, <3>2, <3>3, <3>4 DEF Honest, Handled
    <3>6. Respond(d, answer'[d])
      BY <2>2, <3>3 DEF m
    <3> QED BY <1>2, <3>2, <3>3, <3>5, <3>6 DEF AnswerIsTrue
  <2>3. CASE Respond(d, Error("FAILED", d.call)) /\ UNCHANGED handled
    BY <2>2, <2>3, CodesUsed
  <2>4. ASSUME NEW v, call_refusal(d, v) # "ok", Respond(d, Error(call_refusal(d, v), d.call)),
               UNCHANGED handled
        PROVE  AnswersAreTrue'
    <3>1. call_refusal(d, v) \in Codes
      BY RefusalType DEF call_refusal
    <3>2. ASSUME call_refusal(d, v) = "NONCE_REPLAYED" PROVE Handled(d.call)
      <4>1. d.call \in Calls /\ d.call.to \in Agents /\ request[d.call].id = d.call
        BY <1>5, CallAssumption DEF Accept, RequestsAreOwn
      <4>2. \E n \in nonces[d.call.to] : n.id = d.call
        BY <3>2, <4>1, RefusedAsReplayed DEF call_refusal
      <4> QED BY <4>1, <4>2 DEF NoncesTellHandled
    <3> QED BY <2>2, <2>4, <3>1, <3>2
  <2> HIDE DEF Error, Respond, call_refusal, Consume, AnswersAreTrue
  <2> QED BY <1>5, <2>1, <2>3, <2>4 DEF Accept
<1>6. ASSUME NEW d \in Deliveries, Return(d)
      PROVE  AnswersAreTrue'
  <2>1. d.call \in Calls /\ d.call.from \in Agents /\ d.call.to \in Agents
    BY CallAssumption
  <2>2. d \in handled /\ handled' = handled
    BY <1>6 DEF Return, StageTellsHandled
  <2>3. ASSUME NEW m \in Errors, Respond(d, m), IsError(m), m.id \in {d.call, OtherId},
               m.code # "ok", m.code # "FAILED" => m.id # d.call
        PROVE  AnswersAreTrue'
    <3>1. answer'[d] = m
      BY <2>3 DEF Respond, TypeOK
    <3>2. Honest(d, m)'
      BY <2>3 DEF Honest
    <3> QED BY <1>2, <2>3, <3>1, <3>2 DEF AnswerIsTrue
  <2>4. CASE Respond(d, Error("FAILED", d.call))
    <3>1. d.call \in Ids
      BY <2>1 DEF Ids
    <3> QED BY <2>3, <2>4, <3>1, ErrorFacts, CodesUsed
  <2>5. CASE Respond(d, Error("NONCE_REPLAYED", OtherId))
    <3>1. OtherId \in Ids /\ OtherId # d.call
      BY <2>1, CallAssumption DEF Ids
    <3> QED BY <2>3, <2>5, <3>1, ErrorFacts, CodesUsed
  <2>6. CASE Respond(d, Signed(d, "agent.result", d.call.to, d.call.from, d.call))
    <3> DEFINE m == Signed(d, "agent.result", d.call.to, d.call.from, d.call)
    <3>1. /\ m \in Envelopes({d}, "agent.result", {d.call}) /\ m.id = d
          /\ m.replyTo = d.call /\ m.signer = m.kid /\ ~ IsError(m)
      BY <2>1, SignedFacts
    <3>2. m \in Replies
      BY <2>1, <3>1 DEF Replies, Envelopes
    <3>3. answer'[d] = m
      BY <2>6 DEF Respond, TypeOK
    <3> HIDE DEF m
    <3>4. Genuine(answer[d])'
      BY <2>2, <3>1, <3>2, <3>3 DEF Genuine
    <3>5. Respond(d, answer'[d])
      BY <2>6, <3>3 DEF m
    <3> QED BY <1>2, <3>1, <3>3, <3>4, <3>5 DEF AnswerIsTrue
  <2> QED BY <1>6, <2>4, <2>5, <2>6 DEF Return
<1>7. ASSUME \/ \E c \in Calls : Send(c) \/ VerifyReply(c)
             \/ \E a \in Agents : Restart(a) \/ \E active \in BOOLEAN : Change(a, active)
             \/ Tick
      PROVE  UNCHANGED answer
  BY <1>7 DEF Send, VerifyReply, Restart, Change, Tick, routes
<1> QED BY <1>3, <1>4, <1>5, <1>6, <1>7, StepCases

LEMMA StepReplies ==
    ASSUME TypeOK, Next, AnswersAreTrue, RepliesAreGenuine
    PROVE  RepliesAreGenuine'
<1>1. handled \subseteq handled'
  BY RouteKept
<1>2. ASSUME NEW c \in Calls, pc[c] = "verify", reply'[c] = reply[c]
      PROVE  Genuine(reply[c])'
  <2>1. Genuine(reply[c])
    BY <1>2 DEF RepliesAreGenuine
  <2> QED BY <1>1, <1>2, <2>1, GenuineKept DEF Genuine
<1>3. ASSUME \A c \in Calls : pc'[c] = "verify" => pc[c] = "verify" /\ reply'[c] = reply[c]
      PROVE  RepliesAreGenuine'
  BY <1>2, <1>3 DEF RepliesAreGenuine
<1>4. ASSUME NEW c \in Calls, NEW d \in Deliveries, Receive(c, d)
      PROVE  RepliesAreGenuine'
  <2>1. CASE IsError(answer[d])
    <3>1. End(c, _remote_error(answer[d], c))
      BY <1>4, <2>1 DEF Receive
    <3>2. \A b \in Calls : pc'[b] = "verify" => pc[b] = "verify" /\ reply'[b] = reply[b]
      BY <3>1 DEF End, Goto, TypeOK
    <3> QED BY <1>3, <3>2
  <2>2. CASE ~ IsError(answer[d])
    <3>1. /\ reply' = [reply EXCEPT ![c] = answer[d]] /\ pc' = [pc EXCEPT ![c] = "verify"]
          /\ answer[d] # NoMessage
      BY <1>4, <2>2 DEF Receive, Goto
    <3>2. Genuine(answer[d])
      BY <2>2, <3>1 DEF AnswersAreTrue, AnswerIsTrue
    <3>3. reply'[c] = answer[d]
      BY <3>1 DEF TypeOK
    <3>4. Genuine(reply[c])'
      BY <1>1, <3>2, <3>3, GenuineKept DEF Genuine
    <3>5. \A b \in Calls \ {c} : pc'[b] = pc[b] /\ reply'[b] = reply[b]
      BY <3>1 DEF TypeOK
    <3> QED BY <1>2, <3>4, <3>5 DEF RepliesAreGenuine
  <2> QED BY <2>1, <2>2
<1>5. ASSUME NEW c \in Calls, Resolve(c) \/ Send(c) \/ FailEarly(c) \/ GiveUp(c) \/ VerifyReply(c)
      PROVE  \A b \in Calls : pc'[b] = "verify" => pc[b] = "verify" /\ reply'[b] = reply[b]
  BY <1>5 DEF Resolve, Send, FailEarly, GiveUp, VerifyReply, End, Goto, TypeOK
<1>6. ASSUME NEW a \in Agents, Restart(a)
      PROVE  \A b \in Calls : pc'[b] = "verify" => pc[b] = "verify" /\ reply'[b] = reply[b]
  BY <1>6 DEF Restart
<1>7. ASSUME \/ \E d \in Deliveries : Accept(d) \/ Return(d)
             \/ \E a \in Agents, active \in BOOLEAN : Change(a, active)
             \/ Tick
      PROVE  UNCHANGED <<pc, reply>>
  BY <1>7 DEF Accept, Return, Change, Tick, calls
<1> QED BY <1>3, <1>4, <1>5, <1>6, <1>7 DEF Next

LEMMA StepNonces ==
    ASSUME TypeOK, Next, RequestsAreOwn, RepliesAreGenuine, NoncesTellHandled
    PROVE  NoncesTellHandled'
<1>1. handled \subseteq handled'
  BY RouteKept
<1>2. CASE UNCHANGED nonces
  BY <1>1, <1>2 DEF NoncesTellHandled, Handled
<1>3. ASSUME NEW a \in Agents, NEW e, e.id \in Calls \cup Deliveries, e.issued \in Nat,
             Consume(a, e), e.id \in Calls => \E d \in handled' : d.call = e.id
      PROVE  NoncesTellHandled'
  <2>1. \A b \in Agents : \A n \in nonces'[b] : n \in nonces[b] \/ n.id = e.id
    BY <1>3, ConsumeTyped
  <2> QED BY <1>1, <1>3, <2>1 DEF NoncesTellHandled, Handled
<1>4. ASSUME NEW c \in Calls, VerifyReply(c) PROVE NoncesTellHandled'
  <2>1. /\ reply[c].id \in Deliveries /\ reply[c].issued \in Nat /\ c.from \in Agents
    <3>1. reply[c] \in Replies
      BY <1>4 DEF VerifyReply, RepliesAreGenuine, Genuine
    <3> QED BY <3>1, CallAssumption DEF Replies, Envelopes
  <2>2. CASE Consume(c.from, reply[c])
    <3>1. reply[c].id \notin Calls
      BY <2>1, CallAssumption
    <3> QED BY <1>3, <2>1, <2>2, <3>1
  <2> QED BY <1>2, <1>4, <2>2 DEF VerifyReply
<1>5. ASSUME NEW d \in Deliveries, Accept(d) PROVE NoncesTellHandled'
  <2>1. d.call \in Calls /\ d.call.to \in Agents /\ request[d.call] # NoMessage
    BY <1>5, CallAssumption DEF Accept
  <2>2. request[d.call].id = d.call /\ request[d.call].issued \in Nat
    <3>1. request[d.call] \in Requests
      BY <2>1 DEF TypeOK
    <3> QED BY <2>1, <3>1 DEF RequestsAreOwn, Requests, Envelopes
  <2>3. CASE Consume(d.call.to, request[d.call]) /\ handled' = handled \cup {d}
    BY <1>3, <2>1, <2>2, <2>3
  <2> QED BY <1>2, <1>5, <2>3 DEF Accept
<1>6. ASSUME \/ \E c \in Calls : Send(c) \/ \E d \in Deliveries : Receive(c, d)
             \/ \E d \in Deliveries : Return(d)
             \/ \E a \in Agents : Restart(a) \/ \E active \in BOOLEAN : Change(a, active)
             \/ Tick
      PROVE  UNCHANGED nonces
  BY <1>6 DEF Send, Receive, Return, Restart, Change, Tick
<1> QED BY <1>2, <1>4, <1>5, <1>6, StepCases

-----------------------------------------------------------------------------
(* Errors *)

\* What ErrorsAreHonest asks of one outcome.
HonestOutcome(c, r) ==
    r.code # "FAILED" =>
       /\ r.id = c =>
             /\ \E d \in Deliveries \ handled : d.call = c /\ stage[d] = "done"
             /\ r.code = "NONCE_REPLAYED" => Handled(c)
       /\ r.id \in Deliveries => r.id \in handled

LEMMA HonestOutcomes ==
    ErrorsAreHonest <=> \A c \in Calls : outcome[c] # NoMessage => HonestOutcome(c, outcome[c])
BY DEF ErrorsAreHonest, HonestOutcome, Handled

LEMMA HonestOutcomeKept ==
    ASSUME TypeOK, Next, NEW c \in Calls, NEW r, HonestOutcome(c, r)
    PROVE  HonestOutcome(c, r)'
<1>1. handled \subseteq handled'
  BY RouteKept
<1>2. \A d \in Deliveries \ handled : stage[d] = "done" =>
         d \in Deliveries \ handled' /\ stage'[d] = "done"
  BY RouteKept
<1> QED BY <1>1, <1>2 DEF HonestOutcome, Handled

LEMMA StepHonest ==
    ASSUME TypeOK, Next, AnswersAreTrue, RepliesAreGenuine, ErrorsAreHonest
    PROVE  ErrorsAreHonest'
<1>1. CASE UNCHANGED outcome
  BY <1>1, HonestOutcomes, HonestOutcomeKept DEF ErrorsAreHonest, HonestOutcome, Handled
<1>2. ASSUME NEW c \in Calls, NEW r, HonestOutcome(c, r), End(c, r)
      PROVE  ErrorsAreHonest'
  <2>1. outcome' = [outcome EXCEPT ![c] = r]
    BY <1>2 DEF End
  <2>2. ASSUME NEW b \in Calls, outcome'[b] # NoMessage
        PROVE  HonestOutcome(b, outcome'[b])
    <3>1. CASE b = c
      BY <1>2, <2>1, <3>1 DEF TypeOK
    <3>2. CASE b # c
      BY <2>1, <2>2, <3>2, HonestOutcomes DEF TypeOK
    <3> QED BY <3>1, <3>2
  <2> QED BY <2>2, HonestOutcomeKept DEF ErrorsAreHonest, HonestOutcome, Handled
<1>3. ASSUME NEW c \in Calls, NEW id, End(c, Error("FAILED", id))
      PROVE  ErrorsAreHonest'
  <2>1. HonestOutcome(c, Error("FAILED", id))
    BY DEF HonestOutcome, Error
  <2> QED BY <1>2, <1>3, <2>1
<1>4. ASSUME NEW c \in Calls, NEW d \in Deliveries, Receive(c, d)
      PROVE  ErrorsAreHonest'
  <2>1. CASE IsError(answer[d])
    <3>1. Honest(d, answer[d])
      BY <1>4, <2>1 DEF Receive, AnswersAreTrue, AnswerIsTrue
    <3>2. d.call \in Calls /\ answer[d].id \notin Deliveries /\ answer[d].id # NoId
      BY <3>1, CallAssumption DEF Honest
    <3>3. _remote_error(answer[d], c) = Error(answer[d].code, answer[d].id)
      BY <3>2 DEF _remote_error
    <3>4. /\ Error(answer[d].code, answer[d].id).code = answer[d].code
          /\ Error(answer[d].code, answer[d].id).id = answer[d].id
      BY DEF Error
    <3>5. answer[d].id = c => c = d.call
      BY <3>1, CallAssumption DEF Honest
    <3>6. HonestOutcome(c, Error(answer[d].code, answer[d].id))
      BY <3>1, <3>2, <3>4, <3>5, Zenon DEF HonestOutcome, Honest
    <3>7. End(c, Error(answer[d].code, answer[d].id))
      BY <1>4, <2>1, <3>3 DEF Receive
    <3> QED BY <1>2, <3>6, <3>7
  <2>2. CASE ~ IsError(answer[d])
    BY <1>1, <1>4, <2>2 DEF Receive
  <2> QED BY <2>1, <2>2
<1>5. ASSUME NEW c \in Calls, VerifyReply(c)
      PROVE  ErrorsAreHonest'
  <2>1. reply[c].id \in handled /\ reply[c].id \in Deliveries /\ reply[c].id # c
    <3>1. Genuine(reply[c])
      BY <1>5 DEF VerifyReply, RepliesAreGenuine
    <3>2. reply[c].id \in Deliveries
      BY <3>1 DEF Genuine, Replies, Envelopes
    <3> QED BY <3>1, <3>2, CallAssumption DEF Genuine
  <2>2. ASSUME NEW code PROVE HonestOutcome(c, Error(code, reply[c].id))
    BY <2>1 DEF HonestOutcome, Error
  <2>3. \/ End(c, Error("FAILED", NoId))
        \/ \E code : End(c, Error(code, reply[c].id))
    <3> HIDE DEF Error, End, reply_refusal, Sources
    <3> QED BY <1>5 DEF VerifyReply
  <2> QED BY <1>2, <1>3, <2>2, <2>3
<1>6. ASSUME NEW c \in Calls, FailEarly(c) \/ GiveUp(c)
      PROVE  ErrorsAreHonest'
  <2>1. End(c, Error("FAILED", NoId)) \/ End(c, Error("FAILED", c))
    BY <1>6 DEF FailEarly, GiveUp
  <2> QED BY <1>3, <2>1
<1>7. ASSUME \/ \E c \in Calls : Resolve(c) \/ Send(c)
             \/ \E d \in Deliveries : Accept(d) \/ Return(d)
             \/ \E a \in Agents : Restart(a) \/ \E active \in BOOLEAN : Change(a, active)
             \/ Tick
      PROVE  UNCHANGED outcome
  BY <1>7 DEF Resolve, Send, Accept, Return, Restart, Change, Tick, calls
<1> QED BY <1>1, <1>4, <1>5, <1>6, <1>7 DEF Next

-----------------------------------------------------------------------------
(* The theorems *)

LEMMA NextIInv == IInv /\ [Next]_vars => IInv'
<1> SUFFICES ASSUME IInv, [Next]_vars PROVE IInv'
  OBVIOUS
<1>1. CASE Next
  BY <1>1, StepTyped, StepLog, StepRequests, StepStage, StepAnswers, StepReplies,
     StepNonces, StepHonest DEF IInv
<1>2. CASE UNCHANGED vars
  BY <1>2 DEF vars, calls, routes, world, IInv, TypeOK, LogOrdered, RequestsAreOwn,
       StageTellsHandled, AnswersAreTrue, AnswerIsTrue, RepliesAreGenuine, Genuine, Honest,
       NoncesTellHandled, Handled, ErrorsAreHonest
<1> QED BY <1>1, <1>2

LEMMA Inductive == Spec => []IInv
BY InitIInv, NextIInv, PTL DEF Spec

\* The variables keep their types.
THEOREM TypeCorrect == Spec => []TypeOK
<1>1. IInv => TypeOK
  BY DEF IInv
<1> QED BY <1>1, Inductive, PTL

\* A caller may believe the code of an error together with its request_id.
THEOREM HonestErrors == Spec => []ErrorsAreHonest
<1>1. IInv => ErrorsAreHonest
  BY DEF IInv
<1> QED BY <1>1, Inductive, PTL

-----------------------------------------------------------------------------
(* Results *)

LEMMA Ending ==
    ASSUME TypeOK, NEW c \in Calls, NEW b \in Calls, NEW r, End(b, r), Returns(c)
    PROVE  b = c /\ outcome'[c] = r
BY DEF TypeOK, End, Returns

\* Only a reply that was verified is a result.
LEMMA WhoReturns ==
    ASSUME TypeOK, AnswersAreTrue, Next, NEW c \in Calls, Returns(c)
    PROVE  VerifyReply(c) \/ (pc[c] # "verify" /\ outcome'[c].code # "ok")
<1>1. ASSUME NEW b \in Calls, FailEarly(b) \/ GiveUp(b)
      PROVE  pc[c] # "verify" /\ outcome'[c].code # "ok"
  <2>1. PICK id : End(b, Error("FAILED", id))
    BY <1>1 DEF FailEarly, GiveUp
  <2>2. b = c /\ outcome'[c] = Error("FAILED", id)
    BY <2>1, Ending
  <2> QED BY <1>1, <2>2 DEF FailEarly, GiveUp, Error
<1>2. ASSUME NEW b \in Calls, VerifyReply(b) PROVE b = c
  <2>1. PICK r : End(b, r)
    BY <1>2 DEF VerifyReply
  <2> QED BY <2>1, Ending
<1>3. ASSUME NEW b \in Calls, NEW d \in Deliveries, Receive(b, d)
      PROVE  pc[c] # "verify" /\ outcome'[c].code # "ok"
  <2>1. CASE IsError(answer[d])
    <3>1. b = c /\ outcome'[c] = _remote_error(answer[d], b)
      BY <1>3, <2>1, Ending DEF Receive
    <3>2. answer[d].code # "ok"
      BY <1>3, <2>1 DEF Receive, AnswersAreTrue, AnswerIsTrue, Honest
    <3> QED BY <1>3, <3>1, <3>2 DEF Receive, _remote_error, Error
  <2>2. CASE ~ IsError(answer[d])
    BY <1>3, <2>2 DEF Receive, Returns
  <2> QED BY <2>1, <2>2
<1>4. ASSUME \/ \E b \in Calls : Resolve(b) \/ Send(b)
             \/ \E d \in Deliveries : Accept(d) \/ Return(d)
             \/ \E a \in Agents : Restart(a) \/ \E active \in BOOLEAN : Change(a, active)
             \/ Tick
      PROVE  FALSE
  BY <1>4 DEF Returns, Resolve, Send, Accept, Return, Restart, Change, Tick, calls
<1> QED BY <1>1, <1>2, <1>3, <1>4 DEF Next

\* What VerifyReply ends a call with.
LEMMA VerifyCases ==
    ASSUME TypeOK, NEW c \in Calls, VerifyReply(c), Returns(c)
    PROVE  \/ outcome'[c].code = "FAILED"
           \/ \E v \in Believable(c.to) :
                 /\ outcome'[c].code = reply_refusal(c, v)
<1>1. \/ End(c, Error("FAILED", NoId))
      \/ \E v \in Believable(c.to) :
            \/ End(c, Error(reply_refusal(c, v), reply[c].id))
            \/ reply_refusal(c, v) = "ok" /\ End(c, Error("ok", reply[c].id))
  <2> HIDE DEF Error, End, reply_refusal, Believable
  <2> QED BY DEF VerifyReply, Sources
<1>2. ASSUME NEW code, NEW id, End(c, Error(code, id)) PROVE outcome'[c].code = code
  BY <1>2, Ending DEF Error
<1> QED BY <1>1, <1>2

LEMMA GenuineStep ==
    ASSUME IInv, Next, NEW c \in Calls, Returns(c), outcome'[c].code = "ok"
    PROVE  /\ reply[c].id \in {d \in handled : d.call = c}
           /\ \E v \in 1..Len(log[c.to]) :
                 /\ reply[c].signer = Key(c.to, v)
                 /\ CurrentSince(c.to, v, now - Stale)
<1>1. VerifyReply(c)
  BY WhoReturns DEF IInv
<1>2. PICK v \in Believable(c.to) : reply_refusal(c, v) = "ok"
  BY <1>1, VerifyCases DEF IInv
<1>3. c # NoReply /\ v \in 1..Len(log[c.to]) /\ CurrentSince(c.to, v, now - Stale)
  BY CallAssumption DEF Believable, CurrentSince, Dir!Believable, Dir!CurrentSince
<1>4. reply[c].replyTo = c /\ reply[c].signer = record(c.to, v).key
  BY <1>2, <1>3, RefusalOk DEF reply_refusal
<1>5. Genuine(reply[c])
  BY <1>1 DEF IInv, RepliesAreGenuine, VerifyReply
<1> QED BY <1>3, <1>4, <1>5 DEF Genuine, record

\* A result comes from the handler that was called for the request, under a key
\* the target has had within the age of a cache.
THEOREM GenuineResults == Spec => ResultIsGenuine
<1>1. IInv /\ [Next]_vars =>
        [\A c \in Calls : Returns(c) /\ outcome'[c].code = "ok" =>
            /\ reply[c].id \in {d \in handled : d.call = c}
            /\ \E v \in 1..Len(log[c.to]) :
                  /\ reply[c].signer = Key(c.to, v)
                  /\ CurrentSince(c.to, v, now - Stale)]_vars
  BY GenuineStep
<1> QED BY <1>1, Inductive, PTL DEF Spec, ResultIsGenuine

LEMMA SettledStep ==
    ASSUME IInv, Next, NEW c \in Calls, Returns(c),
           outcome'[c].code \in {"SIGNER_MISMATCH", "SIGNATURE_INVALID"}, pc[c] = "verify",
           reply[c].sender = c.to, reply[c].kid = Key(c.to, Len(log[c.to]))
    PROVE  log[c.to][Len(log[c.to])].at >= now - Stale
<1>1. VerifyReply(c)
  BY WhoReturns DEF IInv
<1>2. PICK v \in Believable(c.to) :
        reply_refusal(c, v) \in {"SIGNER_MISMATCH", "SIGNATURE_INVALID"}
  BY <1>1, VerifyCases DEF IInv
<1>3. reply[c].signer = reply[c].kid
  BY <1>1 DEF IInv, RepliesAreGenuine, VerifyReply, Genuine
<1>4. v # Len(log[c.to])
  BY <1>2, <1>3, RefusedForSigner DEF reply_refusal, record
<1> DEFINE last == Len(log[c.to])
<1>5. c.to \in Agents /\ last \in Nat /\ log[c.to] \in Seq(Records)
  BY CallAssumption DEF IInv, TypeOK
<1>6. v \in 1..last /\ v + 1 \in 1..last /\ last \in 1..last
  BY <1>4, <1>5 DEF Believable, Dir!Believable, Dir!CurrentSince
<1>7. now - Stale <= log[c.to][v + 1].at
  BY <1>6 DEF Believable, Dir!Believable, Dir!CurrentSince
<1>8. log[c.to][v + 1].at <= log[c.to][last].at
  BY <1>5, <1>6 DEF IInv, LogOrdered
<1>9. now \in Nat /\ Stale \in Nat /\ log[c.to][v + 1].at \in Nat /\ log[c.to][last].at \in Nat
  <2>1. \A w \in 1..last : log[c.to][w] \in Records
    BY <1>5
  <2> QED BY <1>6, <2>1, CallAssumption DEF Records, IInv, TypeOK
<1> HIDE DEF last
<1>10. log[c.to][last].at >= now - Stale
  BY <1>7, <1>8, <1>9
<1> QED BY <1>10 DEF last

\* A target that has had its key for longer than a cache may be old is believed.
THEOREM SettledReplies == Spec => SettledReplyAccepted
<1>1. ASSUME IInv, Next, NEW c \in Calls, Returns(c),
             outcome'[c].code \in {"SIGNER_MISMATCH", "SIGNATURE_INVALID"}, pc[c] = "verify"
      PROVE  \/ reply[c].sender # c.to
             \/ reply[c].kid # Key(c.to, Len(log[c.to]))
             \/ log[c.to][Len(log[c.to])].at >= now - Stale
  BY <1>1, SettledStep
<1>2. IInv /\ [Next]_vars =>
        [\A c \in Calls :
            Returns(c) /\ outcome'[c].code \in {"SIGNER_MISMATCH", "SIGNATURE_INVALID"}
            /\ pc[c] = "verify" =>
               \/ reply[c].sender # c.to
               \/ reply[c].kid # Key(c.to, Len(log[c.to]))
               \/ log[c.to][Len(log[c.to])].at >= now - Stale]_vars
  BY <1>1
<1> QED BY <1>2, Inductive, PTL DEF Spec, SettledReplyAccepted

-----------------------------------------------------------------------------
(* The nonce states as replay guards *)

\* A call that has sent its request does not sign another one.
SentOnce ==
    \A c \in Calls : request[c] # NoMessage => pc[c] \notin {"idle", "sign"}

\* The row of a request whose handler was called stays until it expires.
Row(c) == [id |-> c, expires |-> Expiry(request[c])]
HandledRemembered ==
    \A d \in handled :
        /\ request[d.call] # NoMessage
        /\ now < Expiry(request[d.call]) => Row(d.call) \in nonces[d.call.to]

GInv == SentOnce /\ HandledRemembered

LEMMA StepSent ==
    ASSUME TypeOK, SentOnce, Next
    PROVE  SentOnce' /\ \A c \in Calls : request[c] # NoMessage => request'[c] = request[c]
<1>1. ASSUME NEW c \in Calls, Send(c)
      PROVE  SentOnce' /\ \A b \in Calls : request[b] # NoMessage => request'[b] = request[b]
  <2>1. /\ pc[c] = "sign" /\ pc' = [pc EXCEPT ![c] = "sent"]
        /\ \A b \in Calls \ {c} : request'[b] = request[b]
    BY <1>1 DEF Send, Goto, TypeOK
  <2> QED BY <2>1 DEF SentOnce, TypeOK
<1>2. ASSUME NEW c \in Calls, Resolve(c) \/ FailEarly(c) \/ GiveUp(c) \/ VerifyReply(c)
                              \/ \E d \in Deliveries : Receive(c, d)
      PROVE  UNCHANGED request /\ SentOnce'
  <2>1. /\ UNCHANGED request
        /\ \A b \in Calls \ {c} : pc'[b] = pc[b]
        /\ pc'[c] \in {"done", "verify"} \/ (pc[c] = "idle" /\ pc'[c] = "sign")
    BY <1>2 DEF Resolve, FailEarly, GiveUp, VerifyReply, Receive, End, Goto, TypeOK
  <2> QED BY <2>1 DEF SentOnce
<1>3. ASSUME \/ \E d \in Deliveries : Accept(d) \/ Return(d)
             \/ \E a \in Agents, active \in BOOLEAN : Change(a, active)
             \/ Tick
      PROVE  UNCHANGED <<pc, request>>
  BY <1>3 DEF Accept, Return, Change, Tick, calls
<1>4. ASSUME NEW a \in Agents, Restart(a) PROVE UNCHANGED request /\ SentOnce'
  BY <1>4 DEF Restart, SentOnce, TypeOK
<1> QED BY <1>1, <1>2, <1>3, <1>4 DEF Next, SentOnce

\* A consumption adds a row and purges expired ones only.
LEMMA ConsumeAdds ==
    ASSUME TypeOK, NEW a \in Agents, NEW e, Consume(a, e)
    PROVE  /\ [id |-> e.id, expires |-> Expiry(e)] \in nonces'[a]
           /\ \A b \in Agents : \A n \in nonces[b] : n.expires > now => n \in nonces'[b]
BY DEF Consume, Live, TypeOK

\* Every step but Accept leaves the uses and the rows of valid ones alone.
LEMMA GuardPasses ==
    ASSUME IInv, GInv, Next, UNCHANGED handled,
           \/ UNCHANGED nonces
           \/ \E a \in Agents : \E e : Consume(a, e) /\ UNCHANGED now
    PROVE  Guard!Pass /\ HandledRemembered'
<1>1. now \in Nat /\ now' \in Nat /\ now <= now'
  <2>1. CASE Tick
    BY <2>1 DEF Tick, IInv, TypeOK
  <2>2. CASE ~ Tick
    <3>1. UNCHANGED now
      BY <2>2 DEF Next, Resolve, Send, FailEarly, GiveUp, VerifyReply, Receive,
         Accept, Return, Restart, Change
    <3> QED BY <3>1 DEF IInv, TypeOK
  <2> QED BY <2>1, <2>2
<1>2. \A d \in handled : d.call \in Calls /\ d.call.to \in Agents
  BY CallAssumption DEF IInv, TypeOK
<1>3. \A d \in handled : request'[d.call] = request[d.call]
  BY <1>2, StepSent DEF GInv, HandledRemembered, IInv
<1>4. \A d \in handled : Expiry(request[d.call])' = Expiry(request[d.call])
  BY <1>3 DEF Expiry
<1>5. Guard!Pass
  BY <1>1, <1>4 DEF Guard!Pass
<1>6. HandledRemembered'
  <2> SUFFICES ASSUME NEW d \in handled, now' < Expiry(request[d.call])
               PROVE  Row(d.call) \in nonces'[d.call.to]
    BY <1>3, <1>4 DEF GInv, HandledRemembered, Row
  <2>1. Expiry(request[d.call]) \in Int
    <3>1. request[d.call] \in Requests
      BY <1>2 DEF GInv, HandledRemembered, IInv, TypeOK
    <3> QED BY <3>1, SkewAssumption DEF Requests, Envelopes, Expiry
  <2>2. now < Expiry(request[d.call])
    BY <1>1, <2>1
  <2>3. Row(d.call) \in nonces[d.call.to] /\ Row(d.call).expires > now
    BY <1>1, <2>1, <2>2 DEF GInv, HandledRemembered, Row
  <2> QED BY <1>2, <2>3, ConsumeAdds DEF IInv
<1> QED BY <1>5, <1>6

LEMMA AcceptUses ==
    ASSUME IInv, GInv, NEW d \in Deliveries, Accept(d)
    PROVE  (Guard!Use(d) \/ Guard!Pass) /\ HandledRemembered'
<1> DEFINE c == d.call
<1>0. Next /\ c \in Calls /\ c.to \in Agents /\ stage[d] = "none" /\ request[c] # NoMessage
  BY CallAssumption DEF Next, Accept
<1>1. CASE UNCHANGED <<nonces, handled>>
  BY <1>0, <1>1, GuardPasses
<1>2. CASE ~ UNCHANGED <<nonces, handled>>
  <2>1. PICK v \in Believable(c.from) :
           /\ call_refusal(d, v) = "ok" /\ Consume(c.to, request[c])
           /\ handled' = handled \cup {d} /\ UNCHANGED <<now, request>>
    BY <1>2 DEF Accept, calls
  <2>2. d \notin handled
    BY <1>0 DEF IInv, StageTellsHandled
  <2>3. request[c].id = c
    BY <1>0 DEF IInv, RequestsAreOwn
  <2>4. ASSUME NEW n \in nonces[c.to], n.id = c PROVE ~ (n.expires > now)
    BY <2>1, <2>3, <2>4, RefusalOk DEF call_refusal, Used, Live
  <2>5. ASSUME NEW q \in handled
        PROVE  Expiry(request[q.call]) \in Int /\ now \in Nat /\ q.call.to \in Agents
    <3>1. q.call \in Calls
      BY CallAssumption DEF IInv, TypeOK
    <3>2. request[q.call] \in Requests
      BY <3>1 DEF GInv, HandledRemembered, IInv, TypeOK
    <3> QED BY <3>1, <3>2, SkewAssumption, CallAssumption
            DEF Requests, Envelopes, Expiry, IInv, TypeOK
  <2>6. ASSUME NEW q \in handled, q.call = c PROVE Expiry(request[q.call]) <= now
    <3>1. SUFFICES ASSUME now < Expiry(request[q.call]) PROVE FALSE
      BY <2>5
    <3>2. Row(c) \in nonces[c.to] /\ Row(c).id = c /\ Row(c).expires > now
      BY <2>5, <2>6, <3>1 DEF GInv, HandledRemembered, Row
    <3> QED BY <2>4, <3>2
  <2>7. Guard!Use(d)
    BY <2>1, <2>2, <2>6 DEF Guard!Use, Guard!Clash, Expiry
  <2>8. HandledRemembered'
    <3>1. \A q : Row(q.call)' = Row(q.call) /\ Expiry(request[q.call])' = Expiry(request[q.call])
      BY <2>1 DEF Row, Expiry
    <3>2. Row(c) \in nonces'[c.to]
      BY <1>0, <2>1, <2>3, ConsumeAdds DEF Row, IInv
    <3>3. ASSUME NEW q \in handled, now < Expiry(request[q.call])
          PROVE  Row(q.call) \in nonces'[q.call.to]
      <4>1. Row(q.call) \in nonces[q.call.to] /\ Row(q.call).expires > now
        BY <2>5, <3>3 DEF GInv, HandledRemembered, Row
      <4> QED BY <1>0, <2>1, <2>5, <4>1, ConsumeAdds DEF IInv
    <3> QED BY <1>0, <2>1, <3>1, <3>2, <3>3 DEF GInv, HandledRemembered
  <2> QED BY <2>7, <2>8
<1> QED BY <1>1, <1>2

LEMMA GuardStep ==
    ASSUME IInv, GInv, [Next]_vars
    PROVE  GInv' /\ [Guard!Next]_(Guard!guard)
<1>1. CASE UNCHANGED vars
  <2>1. \A d : Expiry(request[d.call])' = Expiry(request[d.call]) /\ Row(d.call)' = Row(d.call)
    BY <1>1 DEF vars, calls, Expiry, Row
  <2> QED
    BY <1>1, <2>1 DEF vars, calls, routes, GInv, SentOnce, HandledRemembered, Guard!guard
<1>2. ASSUME NEW d \in Deliveries, Accept(d) PROVE HandledRemembered' /\ Guard!Next
  BY <1>2, AcceptUses DEF Guard!Next
<1>3. ASSUME Next, ~ \E d \in Deliveries : Accept(d)
      PROVE  HandledRemembered' /\ Guard!Next
  <2>1. ASSUME NEW c \in Calls, VerifyReply(c)
        PROVE  /\ UNCHANGED <<now, handled>>
               /\ UNCHANGED nonces \/ Consume(c.from, reply[c])
    BY <2>1 DEF VerifyReply, routes
  <2>2. ASSUME ~ \E c \in Calls : VerifyReply(c)
        PROVE  UNCHANGED <<nonces, handled>>
    BY <1>3, <2>2 DEF Next, Resolve, Send, FailEarly, GiveUp, Receive, Return, Restart,
       Change, Tick, routes
  <2>3. \A c \in Calls : c.from \in Agents
    BY CallAssumption
  <2>4. /\ UNCHANGED handled
        /\ \/ UNCHANGED nonces
           \/ \E a \in Agents : \E e : Consume(a, e) /\ UNCHANGED now
    BY <2>1, <2>2, <2>3
  <2>5. Guard!Pass /\ HandledRemembered'
    BY <1>3, <2>4, GuardPasses
  <2> QED BY <2>5 DEF Guard!Next
<1>4. CASE Next
  BY <1>2, <1>3, <1>4, StepSent DEF GInv, IInv
<1> QED BY <1>1, <1>4

\* The endpoints' nonce states implement the replay guard for requests: what a
\* network delivers again is not handled again within its window.
THEOREM HandlersGuard == Spec => ImplementsGuard
<1>1. Init => GInv /\ Guard!Init
  BY DEF Init, GInv, SentOnce, HandledRemembered, Guard!Init
<1>2. IInv /\ GInv /\ [Next]_vars => GInv' /\ [Guard!Next]_(Guard!guard)
  BY GuardStep
<1> QED BY <1>1, <1>2, Inductive, PTL DEF Spec, ImplementsGuard, Guard!Spec
=============================================================================
