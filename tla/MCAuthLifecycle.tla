--------------------------- MODULE MCAuthLifecycle ---------------------------
(***************************************************************************)
(* Interchangeable coroutines on one AgentAuth.                            *)
(***************************************************************************)
EXTENDS AuthLifecycle, TLC

Symmetry == Permutations(Tasks)
=============================================================================
