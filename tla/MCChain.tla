------------------------------ MODULE MCChain -------------------------------
(* Chains of two callers over one specialist and the foundation.              *)
EXTENDS Chain, TLC

CONSTANTS d1, d2, c1, c2

PlansDef == {<<d1, d2>>, <<d2>>}
EstimateDef == [d \in Deployments |-> IF d = d1 THEN 1 ELSE 0]
CostDef == [d \in Deployments |-> 1]
AllReasons == Reasons

Symmetry == Permutations(Callers)
=============================================================================
