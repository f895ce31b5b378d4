----------------------------- MODULE MCGateway -----------------------------
(* Calls that may repeat a request id with the same or with another body.   *)
EXTENDS Gateway, TLC

CONSTANTS i1, i2, i3, p1, p2

MCSubjectOf == [i \in Interactions |-> None]
Symmetry == Permutations(Interactions) \cup Permutations(Prints)
=============================================================================
