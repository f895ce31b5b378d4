------------------------------- MODULE Chain --------------------------------
(***************************************************************************)
(* routing/chain.py run_chain: a request tries the candidates of its plan  *)
(* in order, each at most once, within its cost, its deadline and the      *)
(* policy's attempts, and every candidate through its circuit breaker.     *)
(* The callers of Breakers are here the tasks that run chains; their       *)
(* chains interleave at every generation.                                  *)
(***************************************************************************)
EXTENDS Breakers

CONSTANTS
    Plans,           \* candidate sequences: at most one specialist, then the foundation
    Foundation,      \* the foundation's deployment
    Cost,            \* Cost[d]: what a generation on d costs, and its estimate
    Estimate,        \* Estimate[d]: estimated_latency_ms of d as a candidate, in ticks
    MaxCost,         \* options.max_cost_micros
    MaxAttempts,     \* policy.max_attempts
    HardFallbackOn,  \* policy.hard_fallback_on, of the reasons a chain can meet
    Patience         \* ticks to a request's deadline

Reasons == {"validation_failure", "unsupported_tool", "endpoint_error", "deadline_risk"}

ASSUME ChainAssumption ==
    /\ Foundation \in Deployments
    /\ Plans \subseteq Seq(Deployments)
    /\ \A plan \in Plans : plan # <<>> /\ plan[Len(plan)] = Foundation
    /\ \A plan \in Plans : \A j, k \in 1..Len(plan) : plan[j] = plan[k] => j = k
    /\ Cost \in [Deployments -> Nat] /\ MaxCost \in Nat
    /\ Estimate \in [Deployments -> Nat]
    /\ MaxAttempts \in Nat \ {0} /\ Patience \in Nat
    /\ HardFallbackOn \subseteq Reasons

VARIABLE
    chain        \* the chain each caller runs, or ran last

chainVars == <<vars, chain>>

\* Before the first chain.
Idle == [at |-> "answered", todo |-> <<>>, visited |-> {}, attempts |-> 0, spent |-> 0,
         until |-> 0]
Chains == [at : {"trying", "generating", "answered", "failed", "cancelled"},
           todo : Seq(Deployments), visited : SUBSET Deployments,
           attempts : Nat, spent : Nat, until : Nat]

ChainTypeOK == TypeOK /\ chain \in [Callers -> Chains]

ChainInit == Init /\ chain = [c \in Callers |-> Idle]

-----------------------------------------------------------------------------
\* A request enters run_chain with its plan.
Begin(c, plan) ==
    /\ chain[c].at \notin {"trying", "generating"}
    /\ chain' = [chain EXCEPT ![c] =
          [at |-> "trying", todo |-> plan, visited |-> {}, attempts |-> 0, spent |-> 0,
           until |-> now + Patience]]
    /\ UNCHANGED vars

Candidate(c) == Head(chain[c].todo)
Trying(c) == chain[c].at = "trying"

\* run_chain returns or raises; what it tried and paid is kept for the reader.
Over(k) == IF k.at \in {"trying", "generating"} THEN k ELSE [k EXCEPT !.todo = <<>>, !.until = 0]
Goes(c, k) == chain' = [chain EXCEPT ![c] = Over(k)]

\* The loop ends without an answer: no candidate left, or no attempt left.
Exhausted(c) ==
    /\ Trying(c)
    /\ chain[c].todo = <<>> \/ chain[c].attempts >= MaxAttempts
    /\ Goes(c, [chain[c] EXCEPT !.at = "failed"])
    /\ UNCHANGED vars

\* The candidate at the head of the loop, if it gets as far as its checks.  No
\* planner repeats a deployment, so visited never holds the candidate.
Considers(c) ==
    Trying(c) /\ chain[c].todo # <<>> /\ chain[c].attempts < MaxAttempts

\* rejection, for what changes along the chain; the reasons that depend on the
\* plan and the request alone shorten the plan.
TooExpensive(c) == Cost[Candidate(c)] + chain[c].spent > MaxCost

\* The deadline leaves no time for the candidate's estimated latency.
AtRisk(c) == chain[c].until <= now + Estimate[Candidate(c)]

\* The loop moves past its candidate.
Passed(c, stage) ==
    Goes(c, [chain[c] EXCEPT !.at = stage, !.todo = Tail(@),
                             !.visited = @ \cup {Candidate(c)}])

\* Skipped before the breaker is asked.  deadline_risk ends the chain unless
\* the policy falls back on it.
Skip(c) ==
    /\ Considers(c)
    /\ \/ TooExpensive(c) /\ Passed(c, "trying")
       \/ /\ ~TooExpensive(c) /\ AtRisk(c)
          /\ Passed(c, IF "deadline_risk" \in HardFallbackOn THEN "trying" ELSE "failed")
    /\ UNCHANGED vars

\* acquire: the generation starts, or the candidate is skipped as circuit_open.
Try(c) ==
    LET d == Candidate(c) IN
    /\ Considers(c) /\ ~TooExpensive(c) /\ ~AtRisk(c)
    /\ Acquire(c, d)
    /\ Passed(c, IF Admits(d) THEN "generating" ELSE "trying")

\* How execute_attempt can end.  Whatever the provider did, an attempt that
\* ends at or after the deadline is a deadline_exceeded; its answer may have
\* failed validation as well.
Late(c) == chain[c].until <= now
Endings(c) ==
    [code : {"provider_failed", "request_cancelled", "provider_deadline_exceeded"},
     failure : {FALSE}, tool : {FALSE}] \cup
    (IF Late(c)
     THEN [code : {"provider_deadline_exceeded"}, failure : {TRUE}, tool : BOOLEAN]
     ELSE [code : {"validation_failed"}, failure : {TRUE}, tool : BOOLEAN] \cup
          [code : {"ok"}, failure : {FALSE}, tool : {FALSE}])

ReasonOf(e) ==
    IF e.tool THEN "unsupported_tool"
    ELSE IF e.code = "validation_failed" THEN "validation_failure"
    ELSE IF e.code = "provider_deadline_exceeded" THEN "deadline_risk" ELSE "endpoint_error"

\* Mutant of After: any failed attempt ends the chain.
AfterFirst(e) ==
    IF e.code = "ok" THEN "answered"
    ELSE IF e.code = "request_cancelled" THEN "cancelled" ELSE "failed"

After(e) ==
    IF e.code = "ok" THEN "answered"
    ELSE IF e.code = "request_cancelled" THEN "cancelled"
    ELSE IF ReasonOf(e) \in HardFallbackOn THEN "trying" ELSE "failed"

\* Mutant of Counted: a cancelled attempt is raised before it is recorded.
CountedUnlessCancelled(c, e, latency) ==
    IF e.code = "request_cancelled"
    THEN at' = [at EXCEPT ![c] = Nowhere] /\ UNCHANGED <<windows, now, probe>>
    ELSE Record(c, e.code \notin {"ok", "validation_failed"}, e.failure, latency)

\* The attempt is recorded with its breaker, whatever its code.
Counted(c, e, latency) == Record(c, e.code \notin {"ok", "validation_failed"}, e.failure, latency)

\* The attempt ended: it is recorded, counted and paid for.  One that brought
\* no result costs nothing (paid).
End(c, e, latency, paid) ==
    /\ e.code = "ok" \/ e.failure => paid
    /\ Counted(c, e, latency)
    /\ Goes(c, [chain[c] EXCEPT !.at = After(e), !.attempts = @ + 1,
                                !.spent = @ + (IF paid THEN Cost[at[c]] ELSE 0)])

Step(c) ==
    \/ Exhausted(c) \/ Skip(c) \/ Try(c)
    \/ /\ chain[c].at = "generating"
       /\ \E e \in Endings(c), latency \in Latencies, paid \in BOOLEAN : End(c, e, latency, paid)

ChainNext ==
    \/ \E c \in Callers : Step(c) \/ \E plan \in Plans : Begin(c, plan)
    \/ ((\E d \in Deployments : Available(d)) \/ Tick) /\ UNCHANGED chain

ChainSpec == ChainInit /\ [][ChainNext]_chainVars

-----------------------------------------------------------------------------
(* Properties *)

\* A chain uses the breakers the way Breakers describes their users, so what
\* is shown and proved there holds of serving: no attempt without an acquire,
\* no acquire without its record, cancellation and deadlines included.
UsesBreakers == Spec

\* A failing specialist never denies a request the foundation: a chain that
\* may fall back on every reason fails only after the foundation was tried or
\* refused for its own sake, or when no attempt was left.
FoundationTried ==
    \A c \in Callers : chain[c].at = "failed" /\ HardFallbackOn = Reasons =>
        Foundation \in chain[c].visited \/ chain[c].attempts >= MaxAttempts
=============================================================================
