---------------------------- MODULE MCEditedLog -----------------------------
(* Small instances of EditedLog and of its claims for TLC. *)
EXTENDS EditedLogClaims, TLC

CONSTANTS a, b, c

\* The calls differ in nothing but their names.
Symmetry == Permutations(Calls)
=============================================================================
