--------------------------- MODULE MCKeyRotation ---------------------------
(***************************************************************************)
(* Instances of KeyRotation: two aliases in one agent-auth.toml, published *)
(* together, two rotations of the first (interchangeable), one of the      *)
(* second and a revocation; the operator configured a version of the       *)
(* second key that Vault does not have yet.  RetryCommands is one rotation *)
(* and its retry.                                                          *)
(***************************************************************************)
EXTENDS KeyRotation, TLC

CONSTANTS a1, a2, x, y

Cmd(op, targets, n) == [op |-> op, todo |-> targets, n |-> n]

MCAliases == {a1, a2}
MCConfigured == [a \in {a1, a2} |-> IF a = a1 THEN 1 ELSE 2]
MCCreated == [a \in {a1, a2} |-> 1]
MCCommands == {Cmd("publish", {a1, a2}, "p"), Cmd("rotate", {a1}, x),
               Cmd("rotate", {a1}, y), Cmd("rotate", {a2}, "z"),
               Cmd("revoke", {a1}, "r")}
RetryCommands == {Cmd("publish", {a1}, "p"), Cmd("rotate", {a1}, x),
                  Cmd("rotate", {a1}, y)}

Symmetry == Permutations({x, y})
=============================================================================
