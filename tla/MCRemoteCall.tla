---------------------------- MODULE MCRemoteCall ----------------------------
(***************************************************************************)
(* An instance of RemoteCall: two Agents; the first calls the second twice *)
(* at the same time.  One request may be delivered twice, the other is     *)
(* lost, but may get the answer to the first.                              *)
(***************************************************************************)
EXTENDS RemoteCall, TLC

CONSTANTS alice, bob, x, y, z

Call(n) == [from |-> alice, to |-> bob, n |-> n]
Copy(n, i) == [call |-> Call(n), copy |-> i]
MCAgents == {alice, bob}
MCCalls == {Call(1), Call(2)}
MCDeliveries == {Copy(1, x), Copy(1, y)}

Symmetry == Permutations({x, y})
=============================================================================
