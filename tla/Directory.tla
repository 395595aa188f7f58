------------------------------ MODULE Directory ------------------------------
(***************************************************************************)
(* What one may rely on who asks the Registry for an Agent through a       *)
(* client that caches: an answer that comes back was true while it was on  *)
(* its way, which is never long, and what is told from memory was true     *)
(* within a bounded age.  A failure tells nothing.                         *)
(*                                                                         *)
(* The Registry is its log, entry after entry what became true of an Agent *)
(* and when; a record is the position of its entry.                        *)
(***************************************************************************)
EXTENDS Integers, Sequences

CONSTANTS Agents, Askers,
          Age,      \* how old a record told from memory may be
          Wait,     \* how long an answer may be on its way
          Nothing

VARIABLES time,
          log,      \* per Agent, [at, active]
          asked,    \* the askers that wait for an answer: [agent, at]
          told      \* per asker, [agent, record] or Nothing

directory == <<time, log, asked, told>>

\* Record v of Agent a was what the Registry said at some instant of [t, time].
CurrentSince(a, v, t) ==
    /\ v \in 1..Len(log[a]) /\ log[a][v].active
    /\ v < Len(log[a]) => t <= log[a][v + 1].at

Believable(a) == {v \in 1..Len(log[a]) : CurrentSince(a, v, time - Age)}

Retired(a) == log[a] # <<>> /\ ~log[a][Len(log[a])].active

Init ==
    /\ log = [a \in Agents |-> <<>>]
    /\ asked = [c \in {} |-> <<>>]
    /\ told = [c \in Askers |-> Nothing]

\* An Agent is registered, re-keyed or retired, which is its last change.
Change(a, active) ==
    /\ ~Retired(a) /\ (log[a] = <<>> => active)
    /\ log' = [log EXCEPT ![a] = Append(@, [at |-> time, active |-> active])]
    /\ UNCHANGED <<time, asked, told>>

Ask(c, a) ==
    /\ c \notin DOMAIN asked /\ told[c] = Nothing
    /\ asked' = [d \in DOMAIN asked \cup {c} |->
                    IF d = c THEN [agent |-> a, at |-> time] ELSE asked[d]]
    /\ UNCHANGED <<time, log, told>>

Settle(c) ==
    /\ c \in DOMAIN asked
    /\ asked' = [d \in DOMAIN asked \ {c} |-> asked[d]]
    /\ UNCHANGED <<time, log>>

Tell(c, a, v) == told' = [told EXCEPT ![c] = [agent |-> a, record |-> v]]

Answer(c) ==
    LET a == asked[c].agent IN
    /\ Settle(c)
    /\ \E v \in 1..Len(log[a]) : CurrentSince(a, v, asked[c].at) /\ Tell(c, a, v)

Fail(c) == Settle(c) /\ UNCHANGED told

Remember(c, a) ==
    /\ c \notin DOMAIN asked /\ told[c] = Nothing
    /\ \E v \in Believable(a) : Tell(c, a, v)
    /\ UNCHANGED <<time, log, asked>>

Pass ==
    /\ time <= time'
    /\ \A c \in DOMAIN asked : time' <= asked[c].at + Wait
    /\ UNCHANGED <<log, asked, told>>

Next ==
    \/ \E c \in Askers :
          \/ Answer(c) \/ Fail(c)
          \/ \E a \in Agents : Ask(c, a) \/ Remember(c, a)
    \/ \E a \in Agents, active \in BOOLEAN : Change(a, active)
    \/ Pass

Spec == Init /\ [][Next]_directory
=============================================================================
