------------------------------ MODULE MCServing -----------------------------
(* A live canary policy that shadows, and one with an expanded share, over  *)
(* one specialist.                                                          *)
EXTENDS Serving

CONSTANTS v1, r1, q1, q2, p1, p2, t1, w1

PolicyDef ==
    [q \in Policies |->
        [eligible |-> {v1}, router |-> r1, live |-> TRUE, shadow |-> TRUE,
         killed |-> FALSE, expanded |-> q = q2, on |-> {t1}]]

OneDemand == {{t1}}
=============================================================================
