------------------------------ MODULE MCCanary ------------------------------
(* Two policies over one specialist: a live canary policy that also shadows *)
(* and one that serves the foundation only.                                 *)
EXTENDS Canary

CONSTANTS v1, r1, q1, q2, p1, s1

PolicyDef ==
    [q \in Policies |->
        [eligible |-> {v1}, router |-> IF q = q1 THEN r1 ELSE None, live |-> q = q1,
         shadow |-> q = q1, killed |-> FALSE, expanded |-> FALSE, on |-> {}]]

OneSegment == [i \in Interactions |-> s1]
=============================================================================
