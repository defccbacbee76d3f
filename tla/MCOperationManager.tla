------------------------- MODULE MCOperationManager --------------------------
(***************************************************************************)
(* Instances of OperationManager for TLC.                                  *)
(***************************************************************************)
EXTENDS OperationProperties, TLC

CONSTANTS e1, e2, r1, r2, a1, a2, d1, d2

Symmetric == Permutations({r1, r2}) \union Permutations({a1, a2})
=============================================================================
