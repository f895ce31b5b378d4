---------------------------- MODULE OutboxProofs ----------------------------
(* Machine-checked proofs about Outbox, for any events, batches, number of  *)
(* dispatchers, limits and bounds.                                          *)
EXTENDS Outbox, FiniteSetTheorems, TLAPS

-----------------------------------------------------------------------------
(* The inductive invariant *)

\* What the history sets remember of the table.
HistoryOK ==
    /\ DeliveredWasAccepted
    /\ \A e \in Events : state[e] = "dead" => e \in quarantined
    /\ \A e \in Events : state[e] = "absent" => e \notin received

\* Every row has a sequence number already given out.
SequenceOK == \A e \in Events : state[e] # "absent" => seq[e] <= lastSeq

\* Every earlier row of e's interaction has been accepted or quarantined.
Unblocked(e) ==
    \A f \in Events : Earlier(f, e) /\ state[f] # "absent" => f \in received \cup quarantined

\* What a dispatcher knows of the row it holds.
ClaimOK ==
    \A d \in Dispatchers :
        /\ phase[d] = "idle" => claim[d] = Unclaimed
        /\ phase[d] # "idle" =>
              /\ claim[d].event \in Events
              /\ state[claim[d].event] = "pending"
              /\ claim[d].attempts = attempts[claim[d].event] + 1
              /\ Unblocked(claim[d].event)
        /\ phase[d] = "acked" => claim[d].event \in received
        /\ \A c \in Dispatchers : phase[d] # "idle" /\ c # d => claim[c].event # claim[d].event

IInv ==
    TypeOK /\ HistoryOK /\ SequenceOK /\ ClaimOK /\ InteractionOrder /\ RetryBudget

-----------------------------------------------------------------------------
(* Lemmas *)

\* An event is not listed before itself, so the sequence numbers given to the
\* rows one enqueue inserts stay within the new lastSeq.
LEMMA InsertedCounts ==
    ASSUME NEW b, NEW ins \in SUBSET Events
    PROVE  /\ Cardinality(ins) \in Nat
           /\ \A e \in Events : Place(b, ins, e) \in Nat
           /\ \A e \in ins : Place(b, ins, e) + 1 <= Cardinality(ins)
<1>1. IsFiniteSet(ins) /\ Cardinality(ins) \in Nat
  BY OutboxAssumption, FS_Subset, FS_CardinalityType
<1>2. ASSUME NEW e
      PROVE  /\ Cardinality(ins \cap Before(b, e)) \in Nat
             /\ Cardinality(ins \cap Before(b, e)) <= Cardinality(ins)
             /\ Cardinality(ins) = Cardinality(ins \cap Before(b, e))
                  => ins = ins \cap Before(b, e)
  <2>1. ins \cap Before(b, e) \in SUBSET ins
    OBVIOUS
  <2> QED
    BY <1>1, <2>1, FS_Subset, FS_CardinalityType
<1>3. ASSUME NEW e PROVE e \notin Before(b, e)
  <2>1. SUFFICES ASSUME NEW j \in 1..Len(b), \A p \in Positions(b, e) : j < p, b[j] = e
                 PROVE  FALSE
    BY DEF Before
  <2>2. j \in Positions(b, e)
    BY <2>1 DEF Positions
  <2>3. j < j
    BY <2>1, <2>2
  <2> QED
    BY <2>3
<1>4. ASSUME NEW e \in ins
      PROVE  Cardinality(ins \cap Before(b, e)) + 1 <= Cardinality(ins)
  <2>1. ins # ins \cap Before(b, e)
    BY <1>3
  <2> QED
    BY <1>1, <1>2, <2>1
<1> QED
  BY <1>1, <1>2, <1>4 DEF Place

\* The initial state satisfies the inductive invariant.
LEMMA InitInvariant == Init => IInv
<1> SUFFICES ASSUME Init PROVE IInv
  OBVIOUS
<1>1. TypeOK
  BY OutboxAssumption DEF Init, TypeOK, States, Phases, Claims, Unclaimed
<1>2. HistoryOK /\ SequenceOK /\ InteractionOrder
  BY DEF Init, HistoryOK, DeliveredWasAccepted, SequenceOK, InteractionOrder
<1>3. ClaimOK
  BY DEF Init, ClaimOK
<1>4. RetryBudget
  BY OutboxAssumption DEF Init, RetryBudget
<1> QED
  BY <1>1, <1>2, <1>3, <1>4 DEF IInv

\* Saturate never leaves the natural numbers.
LEMMA SaturateType == ASSUME NEW t \in Nat PROVE Saturate(t) \in Nat
  BY OutboxAssumption DEF Saturate

\* The whole of a bookkeeping step, once the claimed row is known to be
\* pending: the conditional UPDATE always applies.
LEMMA BookEffect ==
    ASSUME TypeOK, ClaimOK, NEW d \in Dispatchers, phase[d] # "idle",
           NEW outcome, NEW at, Book(d, outcome, at)
    PROVE  /\ claim[d].event \in Events
           /\ claim[d].attempts \in Nat
           /\ state' = [state EXCEPT ![claim[d].event] = outcome]
           /\ attempts' = [attempts EXCEPT ![claim[d].event] = claim[d].attempts]
           /\ due' = [due EXCEPT ![claim[d].event] = at]
           /\ quarantined' = IF outcome = "dead" THEN quarantined \cup {claim[d].event}
                                                ELSE quarantined
           /\ claim' = [claim EXCEPT ![d] = Unclaimed]
           /\ phase' = [phase EXCEPT ![d] = "idle"]
           /\ UNCHANGED <<seq, lastSeq, submitted, now, sink, received, redeliveries, crashes>>
<1>1. claim[d].event \in Events /\ state[claim[d].event] = "pending"
  BY DEF ClaimOK
<1>2. claim[d].attempts \in Nat
  BY DEF TypeOK, Claims
<1> QED
  BY <1>1, <1>2 DEF Book

\* Each of the four outcomes of an attempt books the row once.
LEMMA FinishEffect ==
    ASSUME TypeOK, NEW d \in Dispatchers,
           \/ FinishInvalid(d) \/ FinishDelivered(d) \/ FinishExhausted(d) \/ FinishRetry(d)
    PROVE  /\ phase[d] # "idle"
           /\ \E at \in Nat :
                \/ Book(d, "dead", at)
                \/ phase[d] = "acked" /\ Book(d, "delivered", at)
                \/ claim[d].attempts < MaxAttempts /\ Book(d, "pending", at)
<1>1. now \in Nat
  BY DEF TypeOK
<1>2. CASE FinishInvalid(d) \/ FinishDelivered(d) \/ FinishExhausted(d)
  BY <1>1, <1>2 DEF FinishInvalid, FinishDelivered, FinishExhausted
<1>3. CASE FinishRetry(d)
  <2>1. PICK x \in Delays(claim[d].attempts) : Book(d, "pending", Saturate(now + x))
    BY <1>3 DEF FinishRetry
  <2>2. now + x \in Nat
    BY <1>1 DEF Delays
  <2> QED
    BY <1>3, <2>1, <2>2, SaturateType DEF FinishRetry
<1> QED
  BY <1>2, <1>3

-----------------------------------------------------------------------------
(* Each action preserves the inductive invariant *)

\* Enqueue: the new rows come after everything in the table.
LEMMA EnqueueStep ==
    ASSUME IInv, NEW b \in Batches, Enqueue(b)
    PROVE  IInv'
<1> USE DEF IInv
<1>1. PICK ins \in SUBSET Events, at \in 0..now :
         /\ Inserted(b, ins)
         /\ state' = [e \in Events |-> IF e \in ins THEN "pending" ELSE state[e]]
         /\ attempts' = [e \in Events |-> IF e \in ins THEN 0 ELSE attempts[e]]
         /\ due' = [e \in Events |-> IF e \in ins THEN at ELSE due[e]]
         /\ seq' = [e \in Events |-> IF e \in ins THEN lastSeq + Place(b, ins, e) + 1 ELSE seq[e]]
         /\ lastSeq' = lastSeq + Cardinality(ins)
  BY DEF Enqueue
<1>2. /\ submitted' = submitted \cup {b}
      /\ UNCHANGED <<now, claim, phase, sink, received, quarantined, redeliveries, crashes>>
  BY DEF Enqueue
<1>3. \A e \in ins : state[e] = "absent"
  BY <1>1 DEF Inserted
<1>4. /\ Cardinality(ins) \in Nat
      /\ \A e \in Events : Place(b, ins, e) \in Nat
      /\ \A e \in ins : Place(b, ins, e) + 1 <= Cardinality(ins)
  BY InsertedCounts
<1>5. TypeOK'
  <2>1. at \in Nat
    BY DEF TypeOK
  <2>2. state' \in [Events -> States] /\ attempts' \in [Events -> Nat] /\ due' \in [Events -> Nat]
    BY <1>1, <2>1 DEF TypeOK, States
  <2>3. seq' \in [Events -> Nat] /\ lastSeq' \in Nat
    BY <1>1, <1>4 DEF TypeOK
  <2> QED
    BY <1>2, <2>2, <2>3 DEF TypeOK
<1>6. HistoryOK'
  BY <1>1, <1>2, <1>3 DEF HistoryOK, DeliveredWasAccepted, TypeOK
<1>7. SequenceOK'
  BY <1>1, <1>3, <1>4 DEF SequenceOK, TypeOK
\* A row that existed is preceded only by rows that existed.
<1>8. ASSUME NEW e \in Events, state[e] # "absent", NEW f \in Events,
             Earlier(f, e)', (state[f] # "absent")'
      PROVE  Earlier(f, e) /\ state[f] # "absent"
  BY <1>1, <1>3, <1>4, <1>8 DEF Earlier, SequenceOK, TypeOK
<1>9. InteractionOrder'
  BY <1>2, <1>8 DEF InteractionOrder, HistoryOK
<1>10. ClaimOK'
  <2> SUFFICES ASSUME NEW d \in Dispatchers
               PROVE  /\ phase[d] = "idle" => claim[d] = Unclaimed
                      /\ phase[d] # "idle" =>
                            /\ claim[d].event \in Events
                            /\ (state[claim[d].event] = "pending")'
                            /\ (claim[d].attempts = attempts[claim[d].event] + 1)'
                            /\ Unblocked(claim[d].event)'
                      /\ phase[d] = "acked" => claim[d].event \in received
                      /\ \A c \in Dispatchers : phase[d] # "idle" /\ c # d
                            => claim[c].event # claim[d].event
    BY <1>2 DEF ClaimOK
  <2>1. ASSUME phase[d] # "idle" PROVE Unblocked(claim[d].event)'
    BY <1>2, <1>8, <2>1 DEF ClaimOK, Unblocked
  <2>2. ASSUME phase[d] # "idle"
        PROVE  /\ state'[claim[d].event] = "pending"
               /\ attempts'[claim[d].event] = attempts[claim[d].event]
    BY <1>1, <1>3, <2>2 DEF ClaimOK
  <2> QED
    BY <1>2, <2>1, <2>2 DEF ClaimOK
<1>11. RetryBudget'
  BY <1>1, OutboxAssumption DEF RetryBudget, TypeOK
<1> QED
  BY <1>5, <1>6, <1>7, <1>9, <1>10, <1>11

\* Claim: the row is pending, unlocked and has no pending predecessor.
LEMMA ClaimStep ==
    ASSUME IInv, NEW d \in Dispatchers, NEW e \in Events, Claim(d, e)
    PROVE  IInv'
<1> USE DEF IInv
<1>1. /\ phase[d] = "idle"
      /\ Eligible(e) /\ ~Locked(e)
      /\ claim' = [claim EXCEPT ![d] = [event |-> e, attempts |-> attempts[e] + 1]]
      /\ phase' = [phase EXCEPT ![d] = "claimed"]
      /\ UNCHANGED <<state, attempts, due, seq, lastSeq, submitted, now, sink, received,
                     quarantined, redeliveries, crashes>>
  BY DEF Claim, Claimable, table
<1>2. TypeOK'
  BY <1>1 DEF TypeOK, Claims, Phases
<1>3. HistoryOK' /\ SequenceOK' /\ InteractionOrder' /\ RetryBudget'
  BY <1>1 DEF HistoryOK, DeliveredWasAccepted, SequenceOK, InteractionOrder, Earlier, RetryBudget
<1>4. Unblocked(e)
  BY <1>1 DEF Unblocked, Eligible, HistoryOK, DeliveredWasAccepted, TypeOK, States
<1>5. \A c \in Dispatchers : claim[c].event # e
  BY <1>1 DEF Locked
<1>6. \A x : Unblocked(x)' <=> Unblocked(x)
  BY <1>1 DEF Unblocked, Earlier
<1>7. ClaimOK'
  BY <1>1, <1>4, <1>5, <1>6, OutboxAssumption DEF ClaimOK, Eligible, TypeOK, Unclaimed
<1> QED
  BY <1>2, <1>3, <1>7

\* Emission: the event reaches the consumer only from a claim, whose
\* predecessors are accounted for.
LEMMA EmitStep ==
    ASSUME IInv, NEW d \in Dispatchers, EmitAccepted(d) \/ EmitRejected(d) \/ EmitLostAck(d)
    PROVE  IInv'
<1> USE DEF IInv
<1>1. /\ phase[d] = "claimed"
      /\ claim[d].event \in Events
      /\ sink' \in Seq(Events)
      /\ \/ received' = received /\ phase' = [phase EXCEPT ![d] = "raised"]
         \/ received' = received \cup {claim[d].event} /\ phase' = [phase EXCEPT ![d] = "raised"]
         \/ received' = received \cup {claim[d].event} /\ phase' = [phase EXCEPT ![d] = "acked"]
      /\ UNCHANGED <<state, attempts, due, seq, lastSeq, submitted, now, claim,
                     quarantined, redeliveries, crashes>>
  <2>1. phase[d] = "claimed" /\ claim[d].event \in Events
    BY DEF EmitAccepted, EmitRejected, EmitLostAck, ClaimOK
  <2>2. sink \in Seq(Events) /\ Append(sink, claim[d].event) \in Seq(Events)
    BY <2>1 DEF TypeOK
  <2> QED
    BY <2>1, <2>2 DEF EmitAccepted, EmitRejected, EmitLostAck, table
<1>2. TypeOK'
  BY <1>1 DEF TypeOK, Phases
<1>3. state[claim[d].event] = "pending" /\ Unblocked(claim[d].event)
  BY <1>1 DEF ClaimOK
<1>4. HistoryOK' /\ SequenceOK' /\ RetryBudget'
  BY <1>1, <1>3 DEF HistoryOK, DeliveredWasAccepted, SequenceOK, RetryBudget
<1>5. InteractionOrder'
  BY <1>1, <1>3 DEF InteractionOrder, Unblocked, Earlier
<1>6. \A x : Unblocked(x) => Unblocked(x)'
  BY <1>1 DEF Unblocked, Earlier
<1>7. ClaimOK'
  BY <1>1, <1>6 DEF ClaimOK, TypeOK
<1> QED
  BY <1>2, <1>4, <1>5, <1>7

\* Bookkeeping: the row leaves "pending" only as delivered after acceptance
\* or as dead, and no other dispatcher holds it.
LEMMA FinishStep ==
    ASSUME IInv, NEW d \in Dispatchers,
           \/ FinishInvalid(d) \/ FinishDelivered(d) \/ FinishExhausted(d) \/ FinishRetry(d)
    PROVE  IInv'
<1> USE DEF IInv
<1> DEFINE e == claim[d].event
<1>1. phase[d] # "idle"
  BY FinishEffect
<1>2. PICK at \in Nat :
         \/ Book(d, "dead", at)
         \/ phase[d] = "acked" /\ Book(d, "delivered", at)
         \/ claim[d].attempts < MaxAttempts /\ Book(d, "pending", at)
  BY FinishEffect
<1>3. PICK outcome \in {"dead", "delivered", "pending"} :
         /\ Book(d, outcome, at)
         /\ outcome = "delivered" => e \in received
         /\ outcome = "pending" => claim[d].attempts < MaxAttempts
  BY <1>1, <1>2 DEF ClaimOK
<1>4. /\ e \in Events
      /\ claim[d].attempts \in Nat
      /\ state' = [state EXCEPT ![e] = outcome]
      /\ attempts' = [attempts EXCEPT ![e] = claim[d].attempts]
      /\ due' = [due EXCEPT ![e] = at]
      /\ quarantined' = IF outcome = "dead" THEN quarantined \cup {e} ELSE quarantined
      /\ claim' = [claim EXCEPT ![d] = Unclaimed]
      /\ phase' = [phase EXCEPT ![d] = "idle"]
      /\ UNCHANGED <<seq, lastSeq, submitted, now, sink, received, redeliveries, crashes>>
  BY <1>1, <1>3, BookEffect
<1>5. state[e] = "pending" /\ claim[d].attempts = attempts[e] + 1
  BY <1>1 DEF ClaimOK
<1> HIDE DEF e
<1>6. TypeOK'
  BY <1>3, <1>4 DEF TypeOK, States, Phases, Claims, Unclaimed
<1>7. HistoryOK' /\ SequenceOK'
  BY <1>3, <1>4, <1>5 DEF HistoryOK, DeliveredWasAccepted, SequenceOK, TypeOK
<1>8. \A x, y \in Events : state'[y] # "absent" <=> state[y] # "absent"
  BY <1>3, <1>4, <1>5 DEF TypeOK
<1>9. quarantined \subseteq quarantined'
  BY <1>4
<1>10. InteractionOrder' /\ \A x : Unblocked(x) => Unblocked(x)'
  BY <1>4, <1>8, <1>9 DEF InteractionOrder, Unblocked, Earlier
<1>11. RetryBudget'
  BY <1>3, <1>4, <1>5, OutboxAssumption DEF RetryBudget, TypeOK
<1>12. \A c \in Dispatchers : phase[c] # "idle" /\ c # d => claim[c].event # e
  BY <1>1 DEF ClaimOK, e
<1>13. ClaimOK'
  BY <1>4, <1>10, <1>12, OutboxAssumption DEF ClaimOK, TypeOK, Unclaimed
<1> QED
  BY <1>6, <1>7, <1>10, <1>11, <1>13

\* A failure only forgets a claim.
LEMMA CrashStep ==
    ASSUME IInv, NEW d \in Dispatchers, Crash(d)
    PROVE  IInv'
<1> USE DEF IInv
<1>1. /\ claim' = [claim EXCEPT ![d] = Unclaimed]
      /\ phase' = [phase EXCEPT ![d] = "idle"]
      /\ sink' \in {sink, <<>>}
      /\ crashes' = crashes + 1
      /\ UNCHANGED <<state, attempts, due, seq, lastSeq, submitted, now, received,
                     quarantined, redeliveries>>
  BY DEF Crash, table
<1>2. TypeOK'
  <2>1. sink \in Seq(Events) /\ <<>> \in Seq(Events)
    BY DEF TypeOK
  <2>2. sink' \in Seq(Events)
    BY <1>1, <2>1, Zenon
  <2>3. claim' \in [Dispatchers -> Claims] /\ phase' \in [Dispatchers -> Phases]
    BY <1>1 DEF TypeOK, Claims, Phases, Unclaimed
  <2> QED
    BY <1>1, <2>2, <2>3 DEF TypeOK
<1>3. HistoryOK' /\ SequenceOK' /\ InteractionOrder' /\ RetryBudget'
  BY <1>1 DEF HistoryOK, DeliveredWasAccepted, SequenceOK, InteractionOrder, Earlier, RetryBudget
<1>4. \A x : Unblocked(x)' <=> Unblocked(x)
  BY <1>1 DEF Unblocked, Earlier
<1>5. ClaimOK'
  BY <1>1, <1>4, OutboxAssumption DEF ClaimOK, TypeOK, Unclaimed
<1> QED
  BY <1>2, <1>3, <1>5

\* A redelivered row has been quarantined, so what followed it stays in order.
LEMMA RedeliverStep ==
    ASSUME IInv, NEW e \in Events, Redeliver(e)
    PROVE  IInv'
<1> USE DEF IInv
<1>1. /\ state[e] = "dead"
      /\ state' = [state EXCEPT ![e] = "pending"]
      /\ attempts' = [attempts EXCEPT ![e] = 0]
      /\ due' = [due EXCEPT ![e] = now]
      /\ redeliveries' = redeliveries + 1
      /\ UNCHANGED <<seq, lastSeq, submitted, now, claim, phase, sink, received,
                     quarantined, crashes>>
  BY DEF Redeliver
<1>2. TypeOK'
  BY <1>1 DEF TypeOK, States
<1>3. HistoryOK' /\ SequenceOK'
  BY <1>1 DEF HistoryOK, DeliveredWasAccepted, SequenceOK, TypeOK
<1>4. \A y \in Events : state'[y] # "absent" <=> state[y] # "absent"
  BY <1>1 DEF TypeOK
<1>5. InteractionOrder' /\ \A x : Unblocked(x)' <=> Unblocked(x)
  BY <1>1, <1>4 DEF InteractionOrder, Unblocked, Earlier
<1>6. RetryBudget'
  BY <1>1, OutboxAssumption DEF RetryBudget, TypeOK
<1>7. ClaimOK'
  BY <1>1, <1>5 DEF ClaimOK, TypeOK
<1> QED
  BY <1>2, <1>3, <1>5, <1>6, <1>7

\* The passage of time and stuttering change nothing the invariant mentions.
LEMMA IdleStep ==
    ASSUME IInv, Tick \/ UNCHANGED vars
    PROVE  IInv'
<1> USE DEF IInv
<1>1. /\ now' \in Nat
      /\ UNCHANGED <<state, attempts, due, seq, lastSeq, submitted, claim, phase, sink,
                     received, quarantined, redeliveries, crashes>>
  BY DEF Tick, vars, table, TypeOK
<1>2. TypeOK'
  BY <1>1 DEF TypeOK
<1>3. HistoryOK' /\ SequenceOK' /\ InteractionOrder' /\ RetryBudget' /\ ClaimOK'
  BY <1>1 DEF HistoryOK, DeliveredWasAccepted, SequenceOK, InteractionOrder, Earlier,
              RetryBudget, ClaimOK, Unblocked
<1> QED
  BY <1>2, <1>3

\* Every step preserves the inductive invariant.
LEMMA NextInvariant == IInv /\ [Next]_vars => IInv'
  BY EnqueueStep, ClaimStep, EmitStep, FinishStep, CrashStep, RedeliverStep, IdleStep
     DEF Next, Dispatch

\* The inductive invariant holds of every reachable state.
THEOREM Invariance == Spec => []IInv
  BY InitInvariant, NextInvariant, PTL DEF Spec

-----------------------------------------------------------------------------
(* Results *)

\* Every reachable state is well typed.
THEOREM TypeCorrect == Spec => []TypeOK
  BY Invariance, PTL DEF IInv

\* A row booked "delivered" has been accepted by a consumer.
THEOREM DeliveredCorrect == Spec => []DeliveredWasAccepted
<1>1. IInv => DeliveredWasAccepted
  BY DEF IInv, HistoryOK
<1> QED
  BY <1>1, Invariance, PTL

\* Consumers see each interaction's events in the order of their rows.
THEOREM OrderCorrect == Spec => []InteractionOrder
  BY Invariance, PTL DEF IInv

\* No row is attempted more than max_attempts times between redeliveries.
THEOREM BudgetCorrect == Spec => []RetryBudget
  BY Invariance, PTL DEF IInv

\* Concurrent dispatchers never work on the same row, and the row one works
\* on is still pending when it books the outcome.
THEOREM ClaimCorrect == Spec => []ClaimIsExclusive
<1>1. IInv => ClaimIsExclusive
  BY DEF IInv, ClaimOK, ClaimIsExclusive
<1> QED
  BY <1>1, Invariance, PTL

\* No mandatory event of a committed transaction is ever without a row.
THEOREM MandatoryCorrect == Spec => []MandatoryNeverDropped
<1>1. Init => MandatoryNeverDropped
  BY DEF Init, MandatoryNeverDropped
<1>2. TypeOK /\ ClaimOK /\ MandatoryNeverDropped /\ [Next]_vars => MandatoryNeverDropped'
  <2> SUFFICES ASSUME TypeOK, ClaimOK, MandatoryNeverDropped, [Next]_vars
               PROVE  MandatoryNeverDropped'
    OBVIOUS
  <2>0. ASSUME NEW b \in Batches, NEW k \in 1..Len(b) PROVE b[k] \in Events
    BY OutboxAssumption
  <2>1. ASSUME NEW b \in Batches, Enqueue(b) PROVE MandatoryNeverDropped'
    <3>1. PICK ins \in SUBSET Events :
             /\ Inserted(b, ins)
             /\ state' = [e \in Events |-> IF e \in ins THEN "pending" ELSE state[e]]
      BY <2>1 DEF Enqueue
    <3>2. \A k \in 1..Len(b) : b[k] \in Optional \/ state'[b[k]] # "absent"
      BY <2>0, <3>1 DEF Inserted
    <3>3. submitted' = submitted \cup {b} /\ submitted \subseteq Batches
      BY <2>1 DEF Enqueue, TypeOK
    <3>4. \A c \in submitted : \A k \in 1..Len(c) :
             c[k] \in Optional \/ state'[c[k]] # "absent"
      BY <2>0, <3>1, <3>3 DEF MandatoryNeverDropped
    <3> QED
      BY <3>2, <3>3, <3>4 DEF MandatoryNeverDropped
  <2>2. ASSUME submitted' = submitted, \A e \in Events : state[e] # "absent" => state'[e] # "absent"
        PROVE  MandatoryNeverDropped'
    BY <2>0, <2>2 DEF MandatoryNeverDropped, TypeOK
  <2>3. ASSUME NEW d \in Dispatchers,
               \/ FinishInvalid(d) \/ FinishDelivered(d) \/ FinishExhausted(d) \/ FinishRetry(d)
        PROVE  MandatoryNeverDropped'
    <3>1. PICK outcome \in {"dead", "delivered", "pending"}, at \in Nat : Book(d, outcome, at)
      BY <2>3, FinishEffect
    <3>2. phase[d] # "idle"
      BY <2>3, FinishEffect
    <3>3. submitted' = submitted /\ state' = [state EXCEPT ![claim[d].event] = outcome]
      BY <3>1, <3>2, BookEffect
    <3> QED
      BY <2>2, <3>1, <3>3 DEF TypeOK
  <2>4. ASSUME NEW e \in Events, Redeliver(e) PROVE MandatoryNeverDropped'
    BY <2>2, <2>4 DEF Redeliver, TypeOK
  <2>5. ASSUME UNCHANGED table PROVE MandatoryNeverDropped'
    BY <2>2, <2>5 DEF table
  <2> QED
    BY <2>1, <2>3, <2>4, <2>5 DEF Next, Dispatch, Claim, EmitAccepted, EmitRejected,
                                  EmitLostAck, Crash, Tick, vars
<1>3. IInv => TypeOK /\ ClaimOK
  BY DEF IInv
<1> QED
  BY <1>1, <1>2, <1>3, Invariance, PTL DEF Spec

\* The outbox implements ordered at-least-once delivery with quarantine.
THEOREM Refinement == Spec => ImplementsDelivery
<1>1. Init => Promise!Init
  BY DEF Init, Promise!Init
<1>2. IInv /\ [Next]_vars => [Promise!Next]_(Promise!vars)
  <2> SUFFICES ASSUME IInv, [Next]_vars
               PROVE  Promise!Next \/ UNCHANGED <<state, received, quarantined, seq>>
    BY DEF Promise!vars
  <2>1. ASSUME NEW b \in Batches, Enqueue(b) PROVE Promise!Next
    <3>1. PICK ins \in SUBSET Events, at \in 0..now :
             /\ Inserted(b, ins)
             /\ state' = [e \in Events |-> IF e \in ins THEN "pending" ELSE state[e]]
             /\ seq' = [e \in Events |->
                          IF e \in ins THEN lastSeq + Place(b, ins, e) + 1 ELSE seq[e]]
             /\ UNCHANGED <<received, quarantined>>
      BY <2>1 DEF Enqueue
    <3>2. ins \in SUBSET {e \in Events : state[e] = "absent"}
      BY <3>1 DEF Inserted
    <3>3. \A e \in Events : Place(b, ins, e) \in Nat
      BY InsertedCounts
    <3>4. /\ \A e \in Events : e \notin ins => seq'[e] = seq[e]
          /\ \A e \in ins, f \in Events : state[f] # "absent" => seq[f] < seq'[e]
      BY <3>1, <3>3 DEF IInv, TypeOK, SequenceOK
    <3>5. Promise!Record
      BY <3>1, <3>2, <3>4 DEF Promise!Record
    <3> QED
      BY <3>5 DEF Promise!Next
  <2>2. ASSUME NEW d \in Dispatchers, EmitAccepted(d) \/ EmitLostAck(d) PROVE Promise!Next
    <3>1. /\ claim[d].event \in Events
          /\ state[claim[d].event] = "pending"
          /\ Unblocked(claim[d].event)
      BY <2>2 DEF IInv, ClaimOK, EmitAccepted, EmitLostAck
    <3>2. Promise!Accept(claim[d].event)
      BY <2>2, <3>1 DEF EmitAccepted, EmitLostAck, table, Promise!Accept, Promise!Precedes,
                        Unblocked, Earlier
    <3> QED
      BY <3>1, <3>2 DEF Promise!Next
  <2>3. ASSUME NEW d \in Dispatchers,
               \/ FinishInvalid(d) \/ FinishDelivered(d) \/ FinishExhausted(d) \/ FinishRetry(d)
        PROVE  Promise!Next \/ UNCHANGED <<state, received, quarantined, seq>>
    <3>1. PICK outcome \in {"dead", "delivered", "pending"}, at \in Nat :
             Book(d, outcome, at) /\ (outcome = "delivered" => phase[d] = "acked")
      BY <2>3, FinishEffect DEF IInv
    <3>2. phase[d] # "idle"
      BY <2>3, FinishEffect DEF IInv
    <3>3. /\ claim[d].event \in Events
          /\ state' = [state EXCEPT ![claim[d].event] = outcome]
          /\ quarantined' = IF outcome = "dead" THEN quarantined \cup {claim[d].event}
                                               ELSE quarantined
          /\ UNCHANGED <<seq, received>>
      BY <3>1, <3>2, BookEffect DEF IInv
    <3>4. state[claim[d].event] = "pending" /\ (phase[d] = "acked" => claim[d].event \in received)
      BY <3>2 DEF IInv, ClaimOK
    <3>5. CASE outcome = "dead"
      BY <3>3, <3>4, <3>5 DEF Promise!Next, Promise!Quarantine
    <3>6. CASE outcome = "delivered"
      BY <3>1, <3>3, <3>4, <3>6 DEF Promise!Next, Promise!Complete
    <3>7. CASE outcome = "pending"
      BY <3>3, <3>4, <3>7 DEF IInv, TypeOK
    <3> QED
      BY <3>1, <3>5, <3>6, <3>7
  <2>4. ASSUME NEW e \in Events, Redeliver(e) PROVE Promise!Next
    BY <2>4 DEF Redeliver, Promise!Next, Promise!Requeue
  <2>5. ASSUME UNCHANGED <<table, received, quarantined>>
        PROVE  UNCHANGED <<state, received, quarantined, seq>>
    BY <2>5 DEF table
  <2> QED
    BY <2>1, <2>2, <2>3, <2>4, <2>5 DEF Next, Dispatch, Claim, EmitRejected, Crash, Tick, vars
<1> QED
  BY <1>1, <1>2, Invariance, PTL DEF Spec, ImplementsDelivery, Promise!Spec
=============================================================================
