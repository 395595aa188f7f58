----------------------------- MODULE MCReceiver -----------------------------
(***************************************************************************)
(* Instances of Receiver for TLC: two senders with two keys each and       *)
(* envelopes that collide in their IDs.                                    *)
(***************************************************************************)
EXTENDS Receiver, TLC

CONSTANTS alice, bob, endpoint, elsewhere

MCSenders == {alice, bob}
OneSender == {alice}
MCKeyOf(s, v) == <<s, v>>

call(id, s, v, issued) ==
    [id |-> id, sender |-> s, audience |-> endpoint, kid |-> v,
     issued |-> issued, type |-> "agent.call", replyTo |-> NoReply,
     signer |-> MCKeyOf(s, v), body |-> "payload"]

first  == call("first", alice, 1, 0)
second == call("second", alice, 1, 1)

\* Two calls, the second issued one unit later.
TwoEnvelopes == {first, second}

\* Those two, and every way to be refused, most of them with the ID of the first.
MCEnvelopes ==
    TwoEnvelopes \cup
    {NotEnvelope,
     [first EXCEPT !.signer = MCKeyOf(bob, 1)],
     call("first", bob, 1, 0),
     [first EXCEPT !.audience = elsewhere],
     [first EXCEPT !.type = "agent.result"],
     call("first", alice, 1, 2),
     [first EXCEPT !.body = BadJson],
     [first EXCEPT !.body = BadSchema]}

Symmetry == Permutations(Requests) \cup Permutations(Workers)
=============================================================================
