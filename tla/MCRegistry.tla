----------------------------- MODULE MCRegistry -----------------------------
(* Two specialists of one registry id, and the reports to promote them on.  *)
EXTENDS Registry, TLC

CONSTANTS v1, v2, r1, b1, e1, e2, w1, w2, t1

MCRegistryOf == [v \in Versions |-> r1]
MCTenantsOf == [v \in Versions |-> {t1}]
Symmetry == Permutations(Reports) \cup Permutations(Runners)
=============================================================================
