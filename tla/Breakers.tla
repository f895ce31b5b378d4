------------------------------ MODULE Breakers ------------------------------
(***************************************************************************)
(* routing/breakers.py: one circuit breaker per deployment, and the calls  *)
(* it admits.  Serving (routing/chain.py run_chain) and the shadow worker  *)
(* (routing/shadow.py) share the breakers: each acquires a deployment,     *)
(* generates, and records how the attempt went.  Every operation of        *)
(* CircuitBreakers holds its lock, so each is one step; the generations    *)
(* between acquire and record overlap freely.                              *)
(***************************************************************************)
EXTENDS Integers, Sequences, FiniteSets

CONSTANTS
    Deployments,
    Callers,           \* concurrent users of the breakers
    WindowLimit,       \* 64 windows at most
    MaxSamples,        \* deque(maxlen=1000)
    Latencies,         \* attempt latencies
    WindowSeconds, MinimumSamples, CooldownSeconds,
    ErrorRate,         \* percentages: error_rate, validation_failure_rate
    FailureRate,
    LatencyLimit,      \* p95_latency_ms
    MaxTime,           \* bound on the clock
    Nowhere            \* the deployment of a caller with no call in flight

ASSUME BreakersAssumption ==
    /\ IsFiniteSet(Deployments)
    /\ Nowhere \notin Deployments
    /\ Latencies \subseteq Nat
    /\ WindowLimit \in Nat
    /\ MaxSamples \in Nat \ {0}
    /\ MinimumSamples \in Nat \ {0}
    /\ WindowSeconds \in Nat /\ CooldownSeconds \in Nat
    /\ MaxTime \in Nat

VARIABLES
    known,      \* deployments with a window in _windows
    state, openedAt, probing, samples,   \* the fields of each Window
    now,
    at,         \* the deployment each caller has a generation in flight on
    probe       \* history: callers admitted as the half-open probe

windows == <<known, state, openedAt, probing, samples>>
vars == <<windows, now, at, probe>>

Samples == [at : Nat, error : BOOLEAN, failure : BOOLEAN, latency : Latencies]

TypeOK ==
    /\ known \subseteq Deployments
    /\ state \in [Deployments -> {"closed", "open", "half_open"}]
    /\ openedAt \in [Deployments -> Nat]
    /\ probing \in [Deployments -> BOOLEAN]
    /\ samples \in [Deployments -> Seq(Samples)]
    /\ now \in Nat
    /\ at \in [Callers -> Deployments \cup {Nowhere}]
    /\ probe \subseteq Callers

Init ==
    /\ known = {}
    /\ state = [d \in Deployments |-> "closed"]
    /\ openedAt = [d \in Deployments |-> 0]
    /\ probing = [d \in Deployments |-> FALSE]
    /\ samples = [d \in Deployments |-> <<>>]
    /\ now = 0
    /\ at = [c \in Callers |-> Nowhere]
    /\ probe = {}

-----------------------------------------------------------------------------
(* _window and _advance *)

\* _window(d) is not None: d is known or there is room for one more.
HasWindow(d) == d \in known \/ Cardinality(known) < WindowLimit

CooledDown(d) == state[d] = "open" /\ now - openedAt[d] >= CooldownSeconds

\* The state of d after _advance.
Advanced(d) == IF CooledDown(d) THEN "half_open" ELSE state[d]

\* _window(d) as a side effect.
Opened(d) == known' = IF HasWindow(d) THEN known \cup {d} ELSE known

\* available: planners ask before they pick d.
Available(d) ==
    /\ Opened(d)
    /\ state' = [state EXCEPT ![d] = IF HasWindow(d) THEN Advanced(d) ELSE state[d]]
    /\ UNCHANGED <<openedAt, probing, samples, now, at, probe>>

\* acquire returns True.
Admits(d) == HasWindow(d) /\ Advanced(d) # "open" /\ ~probing[d]

\* acquire; when it returns True the caller starts generating.
Acquire(c, d) ==
    /\ at[c] = Nowhere
    /\ Opened(d)
    /\ state' = [state EXCEPT ![d] = IF HasWindow(d) THEN Advanced(d) ELSE state[d]]
    /\ IF Admits(d)
       THEN /\ at' = [at EXCEPT ![c] = d]
            /\ probing' = [probing EXCEPT ![d] = Advanced(d) = "half_open"]
            /\ probe' = IF Advanced(d) = "half_open" THEN probe \cup {c} ELSE probe
       ELSE UNCHANGED <<at, probing, probe>>
    /\ UNCHANGED <<openedAt, samples, now>>

-----------------------------------------------------------------------------
(* record *)

Count(s, P(_)) == Cardinality({i \in 1..Len(s) : P(s[i])})

\* ordered[k] of percentile: the k-th smallest latency, counted from 0.
Ranked(s, k) ==
    CHOOSE v \in Latencies : /\ Count(s, LAMBDA x : x.latency < v) <= k
                             /\ k < Count(s, LAMBDA x : x.latency <= v)

\* percentile(latencies, 0.95) > p95_latency_ms, in twentieths: linear
\* interpolation between the two ranks around (n - 1) * 19 / 20.
TooSlow(s) ==
    LET position == (Len(s) - 1) * 19
        lower == position \div 20
        upper == (position + 19) \div 20
    IN  Ranked(s, lower) * 20 + (Ranked(s, upper) - Ranked(s, lower)) * (position % 20)
            > LatencyLimit * 20

\* The thresholds a closed breaker trips on.
Trips(s) ==
    /\ Len(s) >= MinimumSamples
    /\ \/ Count(s, LAMBDA x : x.error) * 100 >= ErrorRate * Len(s)
       \/ Count(s, LAMBDA x : x.failure) * 100 >= FailureRate * Len(s)
       \/ TooSlow(s)

\* deque(maxlen).append
Push(s, x) == IF Len(s) < MaxSamples THEN Append(s, x) ELSE Append(Tail(s), x)

\* popleft while the oldest sample is older than the window.
Outdated(s) ==
    Cardinality({i \in 1..Len(s) : \A j \in 1..i : s[j].at < now - WindowSeconds})
Pruned(s) == SubSeq(s, Outdated(s) + 1, Len(s))

Bad(x) == x.error \/ x.failure \/ x.latency > LatencyLimit

\* Mutant of Probed: the old window is kept when the probe succeeds.
ProbedKeeping(d, x) ==
    /\ probing' = [probing EXCEPT ![d] = FALSE]
    /\ state' = [state EXCEPT ![d] = IF Bad(x) THEN "open" ELSE "closed"]
    /\ openedAt' = [openedAt EXCEPT ![d] = now]
    /\ UNCHANGED samples

\* Mutant of Probed: a failed probe leaves the flag set.
ProbedStuck(d, x) ==
    /\ probing' = [probing EXCEPT ![d] = Bad(x)]
    /\ state' = [state EXCEPT ![d] = IF Bad(x) THEN "open" ELSE "closed"]
    /\ openedAt' = [openedAt EXCEPT ![d] = now]
    /\ samples' = [samples EXCEPT ![d] = <<>>]

\* record in the half-open state: this attempt decides.
Probed(d, x) ==
    /\ probing' = [probing EXCEPT ![d] = FALSE]
    /\ state' = [state EXCEPT ![d] = IF Bad(x) THEN "open" ELSE "closed"]
    /\ openedAt' = [openedAt EXCEPT ![d] = now]
    /\ samples' = [samples EXCEPT ![d] = <<>>]

\* record in the closed state: the sliding window decides.
Sampled(d, x) ==
    LET s == Pruned(Push(samples[d], x)) IN
    /\ samples' = [samples EXCEPT ![d] = s]
    /\ state' = [state EXCEPT ![d] = IF Trips(s) THEN "open" ELSE "closed"]
    /\ openedAt' = [openedAt EXCEPT ![d] = IF Trips(s) THEN now ELSE openedAt[d]]
    /\ UNCHANGED probing

\* record: the caller's attempt ended.  execute_attempt catches every
\* exception, cancellation included, so a record always follows an acquire.
Record(c, error, failure, latency) ==
    LET d == at[c]
        x == [at |-> now, error |-> error, failure |-> failure, latency |-> latency]
    IN  /\ d # Nowhere
        /\ Opened(d)
        /\ \/ state[d] = "half_open" /\ Probed(d, x)
           \/ state[d] = "closed" /\ Sampled(d, x)
           \/ state[d] = "open" /\ UNCHANGED <<state, openedAt, probing, samples>>
        /\ at' = [at EXCEPT ![c] = Nowhere]
        /\ probe' = probe \ {c}
        /\ UNCHANGED now

Finish(c) ==
    \E error, failure \in BOOLEAN, latency \in Latencies : Record(c, error, failure, latency)

Tick == now < MaxTime /\ now' = now + 1 /\ UNCHANGED <<windows, at, probe>>

Next ==
    \/ \E d \in Deployments : Available(d)
    \/ \E c \in Callers, d \in Deployments : Acquire(c, d)
    \/ \E c \in Callers : Finish(c)
    \/ Tick

Spec == Init /\ [][Next]_vars

-----------------------------------------------------------------------------
(* Properties *)

\* The probing flag never outlives its probe: while acquire refuses everyone
\* because a probe is out, some probe really is in flight on that deployment.
\* Otherwise the deployment would be refused for ever.
ProbeInFlight ==
    \A d \in Deployments : probing[d] =>
        state[d] = "half_open" /\ \E c \in probe : at[c] = d

\* A closed breaker judges only attempts that ended after it last closed and
\* within the window, whatever was still in flight when it tripped.
FreshEvidence ==
    \A d \in Deployments : \A i, j \in 1..Len(samples[d]) :
        LET s == samples[d] IN
        /\ state[d] = "closed" => s[i].at >= openedAt[d]
        /\ s[i].at - s[j].at <= WindowSeconds
        /\ i <= j => s[i].at <= s[j].at

\* "Refuse additional deployments rather than evicting an open breaker":
\* a deployment under watch stays under watch, and the table stays bounded.
NeverEvicted ==
    /\ Cardinality(known) <= WindowLimit
    /\ \A d \in Deployments : state[d] # "closed" \/ (\E c \in Callers : at[c] = d) => d \in known

=============================================================================
