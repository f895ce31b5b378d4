--------------------------- MODULE MCPersistence ---------------------------
(* Two interactions of one subject.                                         *)
EXTENDS Persistence, TLC

CONSTANTS i1, i2, s1

MCSubjectOf == [i \in Interactions |-> s1]
Symmetry == Permutations(Interactions)
=============================================================================
