------------------------------- MODULE Canary -------------------------------
(***************************************************************************)
(* The evidence half of routing/control.py, and routing/canary.py: what    *)
(* shadow and canary traffic leave behind, the gate a version passes to    *)
(* canary and to production, and the monitor that disables a breaching     *)
(* version.                                                                *)
(*                                                                         *)
(* An interaction's measurements are reduced to what the gate and the      *)
(* monitor tell apart.  A comparison is valid when the specialist's answer *)
(* passed validation; a live outcome is "good" (served), "bad" (a failed   *)
(* attempt, paid for and answered by the foundation) or "incident" (a      *)
(* critical safety failure).  Scores, qualities and costs are not kept:    *)
(* whether the lower end of a bootstrap interval is above the margin, and  *)
(* whether there are savings, is open, so a promotion that counts and      *)
(* validations permit may be granted or refused.  A refusal raises and     *)
(* changes nothing.                                                        *)
(***************************************************************************)
EXTENDS Routing, FiniteSetsExt

CONSTANTS
    MaxInteractions,   \* bound on interactions, numbered as they are recorded
    SegmentOf,         \* SegmentOf[i]: the critical segment of an interaction
    MinimumSamples, RateMax,      \* RollbackThresholds; the rate in percent
    MaxFailures        \* bound on monitor passes that fail

Interactions == 1..MaxInteractions

ASSUME CanaryAssumption ==
    /\ MaxInteractions \in Nat
    /\ Versions \subseteq Scopes   \* one column disables versions
    /\ MinimumSamples \in Nat \ {0} /\ RateMax \in Nat /\ MaxFailures \in Nat

VARIABLES
    observed,    \* shadow_observations: the policy each was observed under
    compared,    \* shadow_comparisons
    live,        \* live_observations in the order they were created
    old,         \* how many of them have left the monitor's window
    monitor,     \* the canary monitor of each process
    failures

evidence == <<observed, compared, live, old>>
vars == <<routes, evidence, monitor, failures>>

Outcomes == {"good", "bad", "incident"}
Idle == [at |-> "idle"]
Passes == [at : {"snapshot"}, row : Rows] \cup
          [at : {"disabling", "returning"}, policy : Policies, due : SUBSET Models]

TypeOK ==
    /\ RoutesTypeOK
    /\ observed \in [Interactions -> Policies \cup {None}]
    /\ compared \in [Interactions -> [version : Versions, valid : BOOLEAN] \cup {None}]
    /\ live \in Seq([policy : Policies, version : Versions \cup {None}, outcome : Outcomes])
    /\ old \in 0..Len(live)
    /\ monitor \in [Processes -> Passes \cup {Idle}]
    /\ failures \in 0..MaxFailures

Init ==
    /\ RoutesInit
    /\ observed = [i \in Interactions |-> None]
    /\ compared = [i \in Interactions |-> None]
    /\ live = <<>> /\ old = 0
    /\ monitor = [p \in Processes |-> Idle]
    /\ failures = 0

-----------------------------------------------------------------------------
(* Evidence *)

\* observe: the first observation of an interaction stays.
Observe(i, q) ==
    /\ observed[i] = None
    /\ observed' = [observed EXCEPT ![i] = q]
    /\ UNCHANGED <<routes, compared, live, old, monitor, failures>>

\* compare: a comparison refers to an observation, and the first one stays.
Compare(i, v, valid) ==
    /\ observed[i] # None /\ compared[i] = None
    /\ compared' = [compared EXCEPT ![i] = [version |-> v, valid |-> valid]]
    /\ UNCHANGED <<routes, observed, live, old, monitor, failures>>

\* record_live, once for each interaction.
RecordLive(q, v, outcome) ==
    /\ Len(live) < MaxInteractions
    /\ live' = Append(live, [policy |-> q, version |-> v, outcome |-> outcome])
    /\ UNCHANGED <<routes, observed, compared, old, monitor, failures>>

\* The oldest row leaves the window of rollback.window_seconds.
Age ==
    /\ old < Len(live)
    /\ old' = old + 1
    /\ UNCHANGED <<routes, observed, compared, live, monitor, failures>>

\* Mutant of shadow_passed: failed validations are left out of the rate.
shadow_passedUnvalidated(I) == Cardinality(I) >= MinimumSamples

\* shadow_passed(aggregate(I)), as far as it does not depend on scores: enough
\* comparisons and a validation pass rate of 1.
shadow_passed(I) == Cardinality(I) >= MinimumSamples /\ \A i \in I : compared[i].valid

\* The comparisons progression_gate reads for a version under a policy.
Comparisons(q, v) ==
    {i \in Interactions : observed[i] = q /\ compared[i] # None /\ compared[i].version = v}

\* Rows of canary_report, by their numbers.
Recent(q) == {k \in old + 1 .. Len(live) : live[k].policy = q}
LabelledBy(R, label) == {k \in R : SegmentOf[k] = label}
Segments(R) == {SegmentOf[k] : k \in R}

Specialist(R) == {k \in R : live[k].version # None}
Foundation(R) == R \ Specialist(R)
Served(R) == {k \in Specialist(R) : live[k].outcome = "good"}

\* breach_reasons of aggregate: one incident is always a breach, the rates
\* count once there are enough attempts.
Breach(R) ==
    LET S == Specialist(R)
        Failed == {k \in S : live[k].outcome \in {"bad", "incident"}}
    IN  \/ \E k \in S : live[k].outcome = "incident"
        \/ Cardinality(S) >= MinimumSamples /\ Cardinality(Failed) * 100 > RateMax * Cardinality(S)

\* matched: served and foundation rows are paired within a group.
Matched(R) ==
    MapThenSumSet(LAMBDA s : Min({Cardinality(Served(LabelledBy(R, s))),
                                  Cardinality(Foundation(LabelledBy(R, s)))}), Segments(R))

\* passed of aggregate, as far as it does not depend on qualities and savings.
Passed(R) == Matched(R) >= MinimumSamples /\ ~Breach(R)

\* canary_report: the report as a whole, and what it measures of a version
\* against the foundation rows, overall and per segment.
ReportPassed(q) ==
    LET R == Recent(q) IN
    Passed(R) /\ \A s \in Segments(R) : Passed(LabelledBy(R, s))
Of(q, v) == {k \in Recent(q) : live[k].version \in {None, v}}
VersionBreach(q, v) ==
    Breach(Of(q, v)) \/ \E s \in Segments(Recent(q)) : Breach(LabelledBy(Of(q, v), s))
VersionPassed(q, v) ==
    Passed(Of(q, v)) /\ \A s \in Segments(Recent(q)) : Passed(LabelledBy(Of(q, v), s))

-----------------------------------------------------------------------------
(* The registry, as far as routing depends on it *)

\* What progression_gate demands besides scores, qualities and savings.  It runs
\* in the registry's transaction and reads the durable row, not the cache.
\* Routers are exempt.
progression_gate(v, target) ==
    LET q == row.policy IN
    /\ q # None
    /\ v \in Policy[q].eligible /\ v \notin row.disabled
    /\ ~row.killed /\ ~Policy[q].killed
    /\ target = "canary" =>
          /\ ~Policy[q].expanded /\ Policy[q].live
          /\ shadow_passed(Comparisons(q, v))
          /\ \A s \in {SegmentOf[i] : i \in Comparisons(q, v)} :
                shadow_passed({i \in Comparisons(q, v) : SegmentOf[i] = s})
    /\ target = "production" => ReportPassed(q) /\ VersionPassed(q, v)

-----------------------------------------------------------------------------
(* The canary monitor *)

\* work_once takes a snapshot.
MonitorSnapshot(p) ==
    LET r == cache[p].row IN
    /\ monitor[p] = Idle /\ Serves(p)
    /\ r.policy # None /\ Policy[r.policy].live /\ ~r.killed
    /\ monitor' = [monitor EXCEPT ![p] = [at |-> "snapshot", row |-> r]]
    /\ UNCHANGED <<routes, evidence, failures>>

\* It reads the report and keeps the breaching versions the snapshot has not
\* disabled.
MonitorMeasure(p) ==
    LET r == monitor[p].row
        due == {v \in Policy[r.policy].eligible \ r.disabled : VersionBreach(r.policy, v)}
    IN  /\ monitor[p].at = "snapshot"
        /\ monitor' = [monitor EXCEPT ![p] =
              IF due = {} THEN Idle
              ELSE [at |-> "disabling", policy |-> r.policy, due |-> due]]
        /\ UNCHANGED <<routes, evidence, failures>>

\* Mutant of StillDue: the policy measured need not be the active one.
StillDueAnyPolicy(q, v) == v \notin row.disabled /\ lifecycle[v] \in {"canary", "production"}

\* Mutant of StillDue: versions in canary are left alone.
StillDueProduction(q, v) == row.policy = q /\ v \notin row.disabled /\ lifecycle[v] = "production"

\* The conditions automatic_disable checks again in its transaction.
StillDue(q, v) ==
    /\ row.policy = q
    /\ v \notin row.disabled
    /\ lifecycle[v] \in {"canary", "production"}

\* automatic_disable for one due version, up to the commit.  A version that is
\* no longer due is skipped.
automatic_disable(p, v) ==
    LET m == monitor[p] IN
    /\ m.at = "disabling" /\ v \in m.due
    /\ IF StillDue(m.policy, v)
       THEN /\ Committed([row EXCEPT !.disabled = @ \cup {v}])
            /\ monitor' = [monitor EXCEPT ![p] = [m EXCEPT !.at = "returning", !.due = @ \ {v}]]
       ELSE /\ monitor' = [monitor EXCEPT ![p] =
                 IF m.due = {v} THEN Idle ELSE [m EXCEPT !.due = @ \ {v}]]
            /\ UNCHANGED <<control, caches, firm>>
    /\ UNCHANGED <<evidence, request, changes, failures>>

\* _invalidate after the commit; the loop goes on with the other versions.
MonitorReturn(p) ==
    LET m == monitor[p] IN
    /\ m.at = "returning"
    /\ Dropped(p)
    /\ monitor' = [monitor EXCEPT ![p] =
          IF m.due = {} THEN Idle ELSE [m EXCEPT !.at = "disabling"]]
    /\ UNCHANGED <<control, slow, request, changes, evidence, failures>>

\* An exception ends the pass; run counts it and tries again after a second.
MonitorFails(p) ==
    /\ monitor[p].at \in {"snapshot", "disabling"} /\ failures < MaxFailures
    /\ monitor' = [monitor EXCEPT ![p] = Idle]
    /\ failures' = failures + 1
    /\ UNCHANGED <<routes, evidence>>

MonitorSteps(p) ==
    \/ MonitorMeasure(p)
    \/ \E v \in Versions : automatic_disable(p, v)

-----------------------------------------------------------------------------
\* What requests planned under a policy leave behind, possibly after it has
\* been replaced; rows of policies without live traffic are left out.  Only an
\* answer of the foundation is shadowed, after its live row is written
\* (gateway/service.py _execute).  The worker found the version it compares in
\* shadow when it loaded it; by now it may have been promoted.
Traffic ==
    \/ \E k \in 1..Len(live) :
          /\ live[k].version = None \/ live[k].outcome # "good"
          /\ Policy[live[k].policy].shadow /\ Observe(k, live[k].policy)
    \/ \E i \in Interactions, valid \in BOOLEAN :
          observed[i] # None /\ \E v \in Policy[observed[i]].eligible : Compare(i, v, valid)
    \/ \E q \in used, outcome \in Outcomes :
          \E v \in Policy[q].eligible :
              /\ Policy[q].live /\ lifecycle[v] # "shadow"
              /\ RecordLive(q, v, outcome)
    \/ \E q \in used : Policy[q].live /\ RecordLive(q, None, "good")
    \/ Age

Promote == \E v \in Versions, target \in Lifecycle :
    /\ Transition(v, target, progression_gate(v, target))
    /\ UNCHANGED <<evidence, monitor, failures>>

Next ==
    \/ RoutesNext /\ UNCHANGED <<evidence, monitor, failures>>
    \/ Promote
    \/ \E p \in Processes : MonitorSnapshot(p) \/ MonitorSteps(p) \/ MonitorReturn(p) \/ MonitorFails(p)
    \/ Traffic

Spec == Init /\ [][Next]_vars

\* The monitor's loop goes on.  Its call of snapshot returns the copy it
\* refreshed itself if the cache has expired, so a cache that keeps expiring
\* does not starve it: strong fairness.  So with _lock, which _invalidate needs.
FairSpec ==
    /\ Spec /\ RoutesFair
    /\ \A p \in Processes :
          /\ SF_vars(MonitorSnapshot(p)) /\ SF_vars(MonitorReturn(p))
          /\ WF_vars(MonitorSteps(p))

-----------------------------------------------------------------------------
(* Properties *)

\* A version that traffic can reach has answered at least MinimumSamples shadowed
\* requests in a way that passed validation, under one policy that allows live
\* traffic, whatever comparisons and policies came after its promotion.
LiveOnEvidence ==
    \A v \in Versions : lifecycle[v] \in {"canary", "production"} =>
        \E q \in created : Policy[q].live /\
            Cardinality({i \in Comparisons(q, v) : compared[i].valid}) >= MinimumSamples

\* The monitor disables a version only under the policy whose traffic it
\* measured, and only while the version serves, whatever operators did since
\* the measurement.
RollbackOnActive ==
    [][\A p \in Processes, v \in Versions :
          monitor[p].at = "disabling" /\ monitor'[p].at = "returning" /\
          v \in row'.disabled \ row.disabled
              => row.policy = monitor[p].policy /\ lifecycle[v] \in {"canary", "production"}]_vars

\* A version that breaches its thresholds under the active policy, and serves,
\* does not keep serving: it is disabled, or traffic is stopped or moved some
\* other way, or the breach leaves the window.
Breaching(v) ==
    /\ row.policy # None /\ Policy[row.policy].live /\ ~row.killed
    /\ v \in Policy[row.policy].eligible /\ v \notin row.disabled
    /\ lifecycle[v] \in {"canary", "production"}
    /\ VersionBreach(row.policy, v)
BreachRolledBack == \A v \in Versions : Breaching(v) ~> ~Breaching(v)
=============================================================================
