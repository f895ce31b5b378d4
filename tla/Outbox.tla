------------------------------- MODULE Outbox -------------------------------
(***************************************************************************)
(* The transactional outbox and its at-least-once dispatch: the table      *)
(* operations of storage/outbox.py (and their PostgreSQL overrides in      *)
(* storage/postgres_stores.py), the Dispatcher of events/outbox.py and the *)
(* bounded consumer of events/__init__.py.                                 *)
(*                                                                         *)
(* Producers enqueue a batch of events inside their own transaction.  A    *)
(* dispatcher claims the first due row, hands its envelope to the sink and *)
(* then books the outcome; the three are separate steps, and the process   *)
(* may fail between any two of them.  With one dispatcher this is the      *)
(* SQLite deployment; with several it is PostgreSQL, where a claim holds   *)
(* the row lock until its bookkeeping commits.                             *)
(***************************************************************************)
EXTENDS Naturals, Sequences, FiniteSets

CONSTANTS
    Events,          \* event ids
    Batches,         \* each a sequence of events one transaction enqueues
    Key,             \* Key[e]: the (tenant, interaction) the event belongs to
    NoKey,           \* the key of an event with no interaction (SQL NULL)
    Optional,        \* events of a type in OPTIONAL_EVENTS
    Invalid,         \* events whose stored envelope fails validation
    Repeatable,      \* batches a caller may enqueue again (repeated deletions)
    Dispatchers,
    PendingLimit,    \* outbox_pending_limit
    MaxAttempts,     \* OutboxBackoff.max_attempts
    BackoffBase,     \* OutboxBackoff.base, in clock ticks
    BackoffCap,      \* OutboxBackoff.cap, in clock ticks
    SinkCapacity,    \* InMemoryEventSink capacity
    MaxTime,         \* bound: the clock saturates here
    MaxRedeliveries, \* bound on operator redeliveries
    MaxCrashes,      \* bound on process failures
    NoEvent

ASSUME OutboxAssumption ==
    /\ IsFiniteSet(Events)
    /\ NoEvent \notin Events
    /\ Batches \subseteq Seq(Events)
    /\ Repeatable \subseteq Batches
    /\ Optional \subseteq Events
    /\ MaxAttempts \in Nat \ {0}
    /\ MaxTime \in Nat
    /\ MaxRedeliveries \in Nat
    /\ MaxCrashes \in Nat

VARIABLES
    state,        \* outbox.state per event id, "absent" when there is no row
    attempts,     \* outbox.attempts
    due,          \* outbox.next_attempt_at
    seq,          \* outbox.sequence, in order of insertion
    lastSeq,      \* the last sequence number assigned
    submitted,    \* batches whose transaction has committed
    now,
    claim,        \* the row each dispatcher holds, with the attempts it read
    phase,        \* where each dispatcher is in dispatch_once
    sink,         \* InMemoryEventSink._events, in order of acceptance
    received,     \* history: events some consumer has ever accepted
    quarantined,  \* history: events that have ever been dead letters
    redeliveries, crashes

table == <<state, attempts, due, seq, lastSeq, submitted>>
vars == <<table, now, claim, phase, sink, received, quarantined, redeliveries, crashes>>

States == {"absent", "pending", "delivered", "dead"}
Phases == {"idle", "claimed", "acked", "raised"}
Claims == [event : Events \cup {NoEvent}, attempts : Nat]
Unclaimed == [event |-> NoEvent, attempts |-> 0]

TypeOK ==
    /\ state \in [Events -> States]
    /\ attempts \in [Events -> Nat]
    /\ due \in [Events -> Nat]
    /\ seq \in [Events -> Nat]
    /\ lastSeq \in Nat
    /\ submitted \subseteq Batches
    /\ now \in Nat
    /\ claim \in [Dispatchers -> Claims]
    /\ phase \in [Dispatchers -> Phases]
    /\ sink \in Seq(Events)
    /\ received \subseteq Events
    /\ quarantined \subseteq Events
    /\ redeliveries \in Nat
    /\ crashes \in Nat

Init ==
    /\ state = [e \in Events |-> "absent"]
    /\ attempts = [e \in Events |-> 0]
    /\ due = [e \in Events |-> 0]
    /\ seq = [e \in Events |-> 0]
    /\ lastSeq = 0
    /\ submitted = {}
    /\ now = 0
    /\ claim = [d \in Dispatchers |-> Unclaimed]
    /\ phase = [d \in Dispatchers |-> "idle"]
    /\ sink = <<>>
    /\ received = {}
    /\ quarantined = {}
    /\ redeliveries = 0
    /\ crashes = 0

-----------------------------------------------------------------------------
(* Producers *)

Pending == {e \in Events : state[e] = "pending"}

Positions(b, e) == {k \in 1..Len(b) : b[k] = e}

\* The events of b listed before e.
Before(b, e) == {b[k] : k \in {j \in 1..Len(b) : \A p \in Positions(b, e) : j < p}}

\* How many of the rows ins the loop inserts ahead of e.
Place(b, ins, e) == Cardinality(ins \cap Before(b, e))

\* The rows the loop of enqueue inserts: an event id already in the table is
\* skipped, and an optional event is dropped when the rows pending by then
\* have reached the limit.  No other event is ever dropped.
Inserted(b, ins) ==
    LET new == {b[k] : k \in 1..Len(b)} \cap {e \in Events : state[e] = "absent"}
    IN  /\ ins \subseteq new
        /\ \A e \in new :
             e \in ins <=> \/ e \notin Optional
                           \/ Cardinality(Pending) + Place(b, ins, e) < PendingLimit

\* next_attempt_at starts as the event's occurred_at, which precedes the commit.
Enqueue(b) ==
    /\ b \in submitted => b \in Repeatable
    /\ \E ins \in SUBSET Events, at \in 0..now :
         /\ Inserted(b, ins)
         /\ state' = [e \in Events |-> IF e \in ins THEN "pending" ELSE state[e]]
         /\ attempts' = [e \in Events |-> IF e \in ins THEN 0 ELSE attempts[e]]
         /\ due' = [e \in Events |-> IF e \in ins THEN at ELSE due[e]]
         /\ seq' = [e \in Events |-> IF e \in ins THEN lastSeq + Place(b, ins, e) + 1 ELSE seq[e]]
         /\ lastSeq' = lastSeq + Cardinality(ins)
    /\ submitted' = submitted \cup {b}
    /\ UNCHANGED <<now, claim, phase, sink, received, quarantined, redeliveries, crashes>>

-----------------------------------------------------------------------------
(* The dispatcher *)

\* SQL: earlier.interaction_id = o.interaction_id is not true of two NULLs.
Earlier(f, e) == Key[f] = Key[e] /\ Key[e] # NoKey /\ seq[f] < seq[e]

\* Mutant of Eligible: no NOT EXISTS clause.
EligibleUnordered(e) == state[e] = "pending" /\ due[e] <= now

Eligible(e) ==
    /\ state[e] = "pending"
    /\ due[e] <= now
    /\ ~ \E f \in Events : Earlier(f, e) /\ state[f] = "pending"

\* FOR UPDATE OF o SKIP LOCKED: vacuous with a single dispatcher.
Locked(e) == \E d \in Dispatchers : claim[d].event = e

\* ORDER BY next_attempt_at, sequence LIMIT 1
Claimable(e) ==
    /\ Eligible(e) /\ ~Locked(e)
    /\ \A f \in Events : Eligible(f) /\ ~Locked(f) =>
         due[e] < due[f] \/ (due[e] = due[f] /\ seq[e] <= seq[f])

\* Mutant of Claim: the attempts stored with the row are ignored.
ClaimAfresh(d, e) ==
    /\ phase[d] = "idle"
    /\ Claimable(e)
    /\ claim' = [claim EXCEPT ![d] = [event |-> e, attempts |-> 1]]
    /\ phase' = [phase EXCEPT ![d] = "claimed"]
    /\ UNCHANGED <<table, now, sink, received, quarantined, redeliveries, crashes>>

Claim(d, e) ==
    /\ phase[d] = "idle"
    /\ Claimable(e)
    /\ claim' = [claim EXCEPT ![d] = [event |-> e, attempts |-> attempts[e] + 1]]
    /\ phase' = [phase EXCEPT ![d] = "claimed"]
    /\ UNCHANGED <<table, now, sink, received, quarantined, redeliveries, crashes>>

InSink(e) == \E k \in 1..Len(sink) : sink[k] = e

\* EventSink.emit returned: the event is held, now or already (deduplicated).
EmitAccepted(d) ==
    LET e == claim[d].event IN
    /\ phase[d] = "claimed" /\ e \notin Invalid
    /\ \/ InSink(e) /\ UNCHANGED sink
       \/ ~InSink(e) /\ Len(sink) < SinkCapacity /\ sink' = Append(sink, e)
    /\ received' = received \cup {e}
    /\ phase' = [phase EXCEPT ![d] = "acked"]
    /\ UNCHANGED <<table, now, claim, quarantined, redeliveries, crashes>>

\* emit raised: the sink is full or unavailable and holds nothing new.
EmitRejected(d) ==
    /\ phase[d] = "claimed" /\ claim[d].event \notin Invalid
    /\ phase' = [phase EXCEPT ![d] = "raised"]
    /\ UNCHANGED <<table, now, claim, sink, received, quarantined, redeliveries, crashes>>

\* The sink accepted the event and the acknowledgement was lost.
EmitLostAck(d) ==
    LET e == claim[d].event IN
    /\ phase[d] = "claimed" /\ e \notin Invalid
    /\ ~InSink(e) /\ Len(sink) < SinkCapacity
    /\ sink' = Append(sink, e)
    /\ received' = received \cup {e}
    /\ phase' = [phase EXCEPT ![d] = "raised"]
    /\ UNCHANGED <<table, now, claim, quarantined, redeliveries, crashes>>

Saturate(t) == IF t > MaxTime THEN MaxTime ELSE t

\* OutboxBackoff.delay: equal jitter over the capped exponential ceiling.
Ceiling(n) ==
    LET raw == BackoffBase * 2^(IF n - 1 > 30 THEN 30 ELSE n - 1)
    IN  IF raw > BackoffCap THEN BackoffCap ELSE raw
Delays(n) == {x \in 1..Ceiling(n) : 2 * x >= Ceiling(n)}

\* finish: UPDATE ... WHERE event_id = ? AND state = 'pending'
Book(d, outcome, at) ==
    LET e == claim[d].event IN
    /\ IF state[e] = "pending"
       THEN /\ state' = [state EXCEPT ![e] = outcome]
            /\ attempts' = [attempts EXCEPT ![e] = claim[d].attempts]
            /\ due' = [due EXCEPT ![e] = at]
            /\ quarantined' = IF outcome = "dead" THEN quarantined \cup {e} ELSE quarantined
       ELSE UNCHANGED <<state, attempts, due, quarantined>>
    /\ claim' = [claim EXCEPT ![d] = Unclaimed]
    /\ phase' = [phase EXCEPT ![d] = "idle"]
    /\ UNCHANGED <<seq, lastSeq, submitted, now, sink, received, redeliveries, crashes>>

FinishInvalid(d) ==
    /\ phase[d] = "claimed" /\ claim[d].event \in Invalid
    /\ Book(d, "dead", now)

FinishDelivered(d) ==
    /\ phase[d] = "acked"
    /\ Book(d, "delivered", now)

FinishExhausted(d) ==
    /\ phase[d] = "raised" /\ claim[d].attempts >= MaxAttempts
    /\ Book(d, "dead", now)

FinishRetry(d) ==
    /\ phase[d] = "raised" /\ claim[d].attempts < MaxAttempts
    /\ \E x \in Delays(claim[d].attempts) : Book(d, "pending", Saturate(now + x))

-----------------------------------------------------------------------------
(* Environment *)

\* The dispatching process dies, or finish fails in storage: the claim is
\* gone and the row is as the last commit left it.  A consumer in the memory
\* of that process is lost with it.
Crash(d) ==
    /\ crashes < MaxCrashes /\ phase[d] # "idle"
    /\ crashes' = crashes + 1
    /\ claim' = [claim EXCEPT ![d] = Unclaimed]
    /\ phase' = [phase EXCEPT ![d] = "idle"]
    /\ sink' \in {sink, <<>>}
    /\ UNCHANGED <<table, now, received, quarantined, redeliveries>>

\* Mutant of Redeliver: without AND state = 'dead'.
RedeliverAny(e) ==
    /\ redeliveries < MaxRedeliveries /\ state[e] # "absent"
    /\ redeliveries' = redeliveries + 1
    /\ state' = [state EXCEPT ![e] = "pending"]
    /\ attempts' = [attempts EXCEPT ![e] = 0]
    /\ due' = [due EXCEPT ![e] = now]
    /\ UNCHANGED <<seq, lastSeq, submitted, now, claim, phase, sink, received, quarantined, crashes>>

\* redeliver: an operator puts a dead letter back.
Redeliver(e) ==
    /\ redeliveries < MaxRedeliveries /\ state[e] = "dead"
    /\ redeliveries' = redeliveries + 1
    /\ state' = [state EXCEPT ![e] = "pending"]
    /\ attempts' = [attempts EXCEPT ![e] = 0]
    /\ due' = [due EXCEPT ![e] = now]
    /\ UNCHANGED <<seq, lastSeq, submitted, now, claim, phase, sink, received, quarantined, crashes>>

Tick ==
    /\ now < MaxTime
    /\ now' = now + 1
    /\ UNCHANGED <<table, claim, phase, sink, received, quarantined, redeliveries, crashes>>

Dispatch(d) ==
    \/ \E e \in Events : Claim(d, e)
    \/ EmitAccepted(d) \/ EmitRejected(d) \/ EmitLostAck(d)
    \/ FinishInvalid(d) \/ FinishDelivered(d) \/ FinishExhausted(d) \/ FinishRetry(d)

Next ==
    \/ \E b \in Batches : Enqueue(b)
    \/ \E d \in Dispatchers : Dispatch(d) \/ Crash(d)
    \/ \E e \in Events : Redeliver(e)
    \/ Tick

Spec == Init /\ [][Next]_vars

\* Dispatcher.run loops for as long as the process lives and the wall clock
\* advances; producers, operators and failures owe nothing.
Fairness == WF_vars(Tick) /\ \A d \in Dispatchers : WF_vars(Dispatch(d))

FairSpec == Spec /\ Fairness

-----------------------------------------------------------------------------
(* Properties *)

\* A row is booked delivered only when a consumer has accepted its event:
\* dispatch_once books "delivered" after emit returned, never before.
DeliveredWasAccepted == \A e \in Events : state[e] = "delivered" => e \in received

\* Consumers see the events of one interaction in the order they were
\* enqueued: when one has been accepted, every earlier row of the same
\* interaction has been accepted too, or has been a dead letter (dead rows do
\* not block, storage/outbox.py next_due).  Holds across retries, process
\* failures, operator redelivery and concurrent dispatchers.
InteractionOrder ==
    \A e, f \in Events :
        e \in received /\ Earlier(f, e) /\ state[f] # "absent"
            => f \in received \cup quarantined

\* Whatever the backlog, a committed transaction has a row for each of its
\* events outside OPTIONAL_EVENTS (the loop of enqueue).
MandatoryNeverDropped ==
    \A b \in submitted : \A k \in 1..Len(b) : b[k] \in Optional \/ state[b[k]] # "absent"

\* The retry budget is exact: a row waiting for another attempt has used
\* fewer than max_attempts, and none is ever attempted more often.
RetryBudget ==
    \A e \in Events : /\ state[e] = "pending" => attempts[e] < MaxAttempts
                      /\ attempts[e] <= MaxAttempts

\* A claimed row is still pending and held by no one else, so the
\* "AND state = 'pending'" of finish never discards the outcome of an attempt.
ClaimIsExclusive ==
    \A d \in Dispatchers : phase[d] # "idle" =>
        /\ state[claim[d].event] = "pending"
        /\ \A c \in Dispatchers \ {d} : claim[c].event # claim[d].event

\* No event is stuck: every row is eventually delivered or quarantined, even
\* when the sink never accepts anything and rows block one another.
EventuallySettled ==
    \A e \in Events : state[e] = "pending" ~> state[e] \in {"delivered", "dead"}

Promise == INSTANCE Delivery WITH
    status <- state, seen <- received, failed <- quarantined, rank <- seq

\* The table, the dispatchers and the sink together implement ordered
\* at-least-once delivery with quarantine.
ImplementsDelivery == Promise!Spec
=============================================================================
