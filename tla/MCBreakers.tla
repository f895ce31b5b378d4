----------------------------- MODULE MCBreakers -----------------------------
(* Breakers with more deployments than windows and callers that overlap.    *)
EXTENDS Breakers, TLC

CONSTANTS d1, d2, c1, c2, c3

Symmetry == Permutations(Callers)
=============================================================================
