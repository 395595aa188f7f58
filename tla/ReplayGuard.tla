----------------------------- MODULE ReplayGuard -----------------------------
(***************************************************************************)
(* What a nonce state promises, whoever keeps it: the request IDs of an    *)
(* accepted envelope are not accepted again at the same place before they  *)
(* expire, and what a place has accepted is forgotten only where nothing   *)
(* is durable, with everything else that the place remembers.              *)
(*                                                                         *)
(* A use is one delivery that is accepted; used maps it to its place, the  *)
(* IDs it spends together and the instant they expire.                     *)
(***************************************************************************)
EXTENDS Integers

CONSTANTS Uses, Places

VARIABLES time, used, durable

guard == <<time, used, durable>>

Init == used = [u \in {} |-> <<>>]

Clash(entry, other) ==
    entry.place = other.place /\ entry.ids \cap other.ids # {}

Use(u) ==
    /\ u \notin DOMAIN used
    /\ DOMAIN used' = DOMAIN used \cup {u}
    /\ \A v \in DOMAIN used :
          /\ used'[v] = used[v]
          /\ Clash(used[v], used'[u]) => used[v].until <= time
    /\ UNCHANGED <<time, durable>>

Forget(place) ==
    /\ ~durable
    /\ used' = [u \in {v \in DOMAIN used : used[v].place # place} |-> used[u]]
    /\ UNCHANGED <<time, durable>>

Pass ==
    /\ time <= time'
    /\ UNCHANGED <<used, durable>>

Next ==
    \/ \E u \in Uses : Use(u)
    \/ \E place \in Places : Forget(place)
    \/ Pass

Spec == Init /\ [][Next]_guard
=============================================================================
