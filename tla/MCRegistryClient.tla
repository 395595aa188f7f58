-------------------------- MODULE MCRegistryClient --------------------------
(***************************************************************************)
(* An instance of RegistryClient for TLC.                                  *)
(***************************************************************************)
EXTENDS RegistryClient, TLC

Symmetry == Permutations(Calls)
=============================================================================
