------------------------------ MODULE Delivery ------------------------------
(***************************************************************************)
(* What the outbox promises its producers and consumers, with no tables,   *)
(* clocks, claims or retries: a recorded event is offered to consumers     *)
(* until one has seen it or it is set aside as a dead letter; within one   *)
(* interaction no event is seen before an earlier one unless that one has  *)
(* been set aside.                                                         *)
(***************************************************************************)
EXTENDS Naturals

CONSTANTS Events, Key, NoKey

VARIABLES
    status,   \* absent, pending, delivered or dead
    seen,     \* events a consumer has accepted at least once
    failed,   \* events that have been dead letters
    rank      \* order of recording

vars == <<status, seen, failed, rank>>

Init ==
    /\ status = [e \in Events |-> "absent"]
    /\ seen = {}
    /\ failed = {}
    /\ rank = [e \in Events |-> 0]

\* Some new events are recorded, each after everything recorded before.
Record ==
    /\ \E new \in SUBSET {e \in Events : status[e] = "absent"} :
         /\ status' = [e \in Events |-> IF e \in new THEN "pending" ELSE status[e]]
         /\ \A e \in Events : e \notin new => rank'[e] = rank[e]
         /\ \A e \in new, f \in Events : status[f] # "absent" => rank[f] < rank'[e]
    /\ UNCHANGED <<seen, failed>>

Precedes(f, e) ==
    status[f] # "absent" /\ Key[f] = Key[e] /\ Key[e] # NoKey /\ rank[f] < rank[e]

\* A consumer accepts a pending event; it may accept it again.
Accept(e) ==
    /\ status[e] = "pending"
    /\ \A f \in Events : Precedes(f, e) => f \in seen \cup failed
    /\ seen' = seen \cup {e}
    /\ UNCHANGED <<status, failed, rank>>

Complete(e) ==
    /\ status[e] = "pending" /\ e \in seen
    /\ status' = [status EXCEPT ![e] = "delivered"]
    /\ UNCHANGED <<seen, failed, rank>>

Quarantine(e) ==
    /\ status[e] = "pending"
    /\ status' = [status EXCEPT ![e] = "dead"]
    /\ failed' = failed \cup {e}
    /\ UNCHANGED <<seen, rank>>

Requeue(e) ==
    /\ status[e] = "dead"
    /\ status' = [status EXCEPT ![e] = "pending"]
    /\ UNCHANGED <<seen, failed, rank>>

Next ==
    \/ Record
    \/ \E e \in Events : Accept(e) \/ Complete(e) \/ Quarantine(e) \/ Requeue(e)

Spec == Init /\ [][Next]_vars
=============================================================================
