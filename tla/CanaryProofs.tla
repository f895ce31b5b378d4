---------------------------- MODULE CanaryProofs ----------------------------
(***************************************************************************)
(* The promotion gate and the monitor's rollback, for any versions,        *)
(* policies, segments, processes, interactions and thresholds.             *)
(*                                                                         *)
(* The gate reads the evidence once, at promotion to canary; LiveOnEvidence *)
(* speaks of every later state.  So the invariant follows a version from   *)
(* canary through production, deprecation and rollback, and rests on       *)
(* evidence only ever growing: observe and compare keep the first row.     *)
(***************************************************************************)
EXTENDS Canary, FiniteSetTheorems, TLAPS

\* The control tables, without the processes' copies of them.
ControlOK ==
    /\ row \in Rows
    /\ lifecycle \in [Models -> Lifecycle]
    /\ row.policy # None => row.policy \in created
    /\ None \notin created

\* The evidence tables are keyed by interaction.
EvidenceOK ==
    /\ observed = [i \in Interactions |-> observed[i]]
    /\ compared = [i \in Interactions |-> compared[i]]

Valid(q, v) == {i \in Comparisons(q, v) : compared[i].valid}

\* v passed the gate to canary on evidence that is still there.
Proven(v) == \E q \in created : Policy[q].live /\ Cardinality(Valid(q, v)) >= MinimumSamples

\* A version past the gate, a deprecated one included: rollback restores it
\* without asking the gate again.
GateInv ==
    \A v \in Versions : lifecycle[v] \in {"canary", "production", "deprecated"} => Proven(v)

\* Each monitor is in one stage of its pass.
Stages == {"idle", "snapshot", "disabling", "returning"}
MonitorOK ==
    /\ monitor = [p \in Processes |-> monitor[p]]
    /\ \A p \in Processes : "at" \in DOMAIN monitor[p] /\ monitor[p].at \in Stages

IInv == ControlOK /\ EvidenceOK /\ GateInv /\ MonitorOK

-----------------------------------------------------------------------------
(* Evidence *)

\* There are finitely many interactions, so the counts are numbers.
LEMMA ValidFinite == \A q, v : IsFiniteSet(Valid(q, v)) /\ Cardinality(Valid(q, v)) \in Nat
<1>1. IsFiniteSet(Interactions)
  BY CanaryAssumption, FS_Interval DEF Interactions
<1>2. \A q, v : Valid(q, v) \subseteq Interactions
  BY DEF Valid, Comparisons
<1> QED
  BY <1>1, <1>2, FS_Subset, FS_CardinalityType

\* A version keeps its evidence as long as no row of it is lost.
LEMMA ProvenKept ==
    ASSUME NEW v, created \subseteq created',
           \A q \in created : Valid(q, v) \subseteq Valid(q, v)', Proven(v)
    PROVE  Proven(v)'
<1>1. PICK q \in created : Policy[q].live /\ Cardinality(Valid(q, v)) >= MinimumSamples
  BY DEF Proven
<1>2. IsFiniteSet(Valid(q, v)') /\ Cardinality(Valid(q, v)') \in Nat
  <2>1. IsFiniteSet(Interactions)
    BY CanaryAssumption, FS_Interval DEF Interactions
  <2>2. Valid(q, v)' \subseteq Interactions
    BY DEF Valid, Comparisons
  <2> QED
    BY <2>1, <2>2, FS_Subset, FS_CardinalityType
<1>3. Cardinality(Valid(q, v)) <= Cardinality(Valid(q, v)') /\ Cardinality(Valid(q, v)) \in Nat
  BY <1>2, ValidFinite, FS_Subset
<1>4. Cardinality(Valid(q, v)') >= MinimumSamples
  BY <1>1, <1>2, <1>3, CanaryAssumption
<1> QED
  BY <1>1, <1>4 DEF Proven

\* observe and compare write each row once.
LEMMA EvidenceGrows ==
    ASSUME IInv, NEW v, NEW q \in created,
           \A i \in Interactions : /\ observed[i] # None => observed'[i] = observed[i]
                                   /\ compared[i] # None => compared'[i] = compared[i]
    PROVE  Valid(q, v) \subseteq Valid(q, v)'
<1> SUFFICES ASSUME NEW i \in Valid(q, v) PROVE i \in Valid(q, v)'
  OBVIOUS
<1>1. /\ i \in Interactions /\ observed[i] = q /\ compared[i] # None
      /\ compared[i].version = v /\ compared[i].valid
  BY DEF Valid, Comparisons
<1>2. observed[i] # None
  BY <1>1 DEF IInv, ControlOK
<1> QED
  BY <1>1, <1>2 DEF Valid, Comparisons

\* Steps that leave the registry alone and lose no evidence.
LEMMA GateKept ==
    ASSUME IInv, created \subseteq created', UNCHANGED lifecycle,
           \A i \in Interactions : /\ observed[i] # None => observed'[i] = observed[i]
                                   /\ compared[i] # None => compared'[i] = compared[i]
    PROVE  GateInv'
<1> SUFFICES ASSUME NEW v \in Versions, lifecycle[v] \in {"canary", "production", "deprecated"}
             PROVE  Proven(v)'
  BY DEF GateInv
<1>1. Proven(v)
  BY DEF IInv, GateInv
<1>2. \A q \in created : Valid(q, v) \subseteq Valid(q, v)'
  BY EvidenceGrows
<1> QED
  BY <1>1, <1>2, ProvenKept

\* observe and compare.
LEMMA TrafficStep ==
    ASSUME IInv, Traffic
    PROVE  IInv'
<1>1. UNCHANGED <<row, lifecycle, created, monitor>>
  BY DEF Traffic, Observe, Compare, RecordLive, Age, routes, control
<1>2. ControlOK' /\ MonitorOK'
  BY <1>1 DEF IInv, ControlOK, MonitorOK
<1>3. /\ EvidenceOK'
      /\ \A i \in Interactions : /\ observed[i] # None => observed'[i] = observed[i]
                                 /\ compared[i] # None => compared'[i] = compared[i]
  <2>1. ASSUME NEW k, NEW q, Observe(k, q)
        PROVE  /\ EvidenceOK'
               /\ \A i \in Interactions : /\ observed[i] # None => observed'[i] = observed[i]
                                          /\ compared[i] # None => compared'[i] = compared[i]
    BY <2>1 DEF Observe, IInv, EvidenceOK
  <2>2. ASSUME NEW k, NEW v, NEW valid, Compare(k, v, valid)
        PROVE  /\ EvidenceOK'
               /\ \A i \in Interactions : /\ observed[i] # None => observed'[i] = observed[i]
                                          /\ compared[i] # None => compared'[i] = compared[i]
    BY <2>2 DEF Compare, IInv, EvidenceOK
  <2>3. CASE UNCHANGED <<observed, compared>>
    BY <2>3 DEF IInv, EvidenceOK
  <2> QED
    BY <2>1, <2>2, <2>3 DEF Traffic, RecordLive, Age
<1>4. GateInv'
  BY <1>1, <1>3, GateKept
<1> QED
  BY <1>2, <1>3, <1>4 DEF IInv

-----------------------------------------------------------------------------
(* The registry *)

\* Passing the gate to canary takes enough comparisons, all of them valid.
LEMMA GateProves ==
    ASSUME ControlOK, NEW v \in Versions, progression_gate(v, "canary")
    PROVE  Proven(v)
<1> DEFINE q == row.policy
<1>1. q \in created /\ Policy[q].live /\ shadow_passed(Comparisons(q, v))
  BY DEF progression_gate, ControlOK
<1>2. Valid(q, v) = Comparisons(q, v)
  BY <1>1 DEF shadow_passed, Valid
<1> QED
  BY <1>1, <1>2 DEF shadow_passed, Proven

\* promote and rollback: the only way past shadow is the gate to canary.
LEMMA PromoteStep ==
    ASSUME IInv, Promote
    PROVE  IInv'
<1>1. PICK v \in Versions, target \in Lifecycle :
         /\ Transition(v, target, progression_gate(v, target))
         /\ UNCHANGED <<evidence, monitor, failures>>
  BY DEF Promote
<1>2. /\ UNCHANGED <<row, created, observed, compared, monitor>>
      /\ lifecycle' = [lifecycle EXCEPT ![v] = target] /\ v \in Models
      /\ <<lifecycle[v], target>> \in Edges
  BY <1>1 DEF Transition, evidence, Models
<1>3. ControlOK' /\ EvidenceOK' /\ MonitorOK'
  BY <1>2 DEF IInv, ControlOK, EvidenceOK, MonitorOK
<1>4. ASSUME target \in {"canary", "production", "deprecated"} PROVE Proven(v)
  <2>1. CASE target = "canary"
    <3>1. lifecycle[v] = "shadow"
      BY <1>2, <2>1 DEF Edges, Lifecycle
    <3>2. progression_gate(v, "canary")
      BY <1>1, <2>1, <3>1 DEF Transition
    <3> QED
      BY <3>2, GateProves DEF IInv
  <2>2. CASE target # "canary"
    <3>1. lifecycle[v] \in {"canary", "production", "deprecated"}
      BY <1>2, <1>4, <2>2 DEF Edges, Lifecycle
    <3> QED
      BY <3>1 DEF IInv, GateInv
  <2> QED
    BY <2>1, <2>2
<1>5. GateInv'
  <2> SUFFICES ASSUME NEW u \in Versions, lifecycle'[u] \in {"canary", "production", "deprecated"}
               PROVE  Proven(u)'
    BY DEF GateInv
  <2>1. u \in Models
    BY DEF Models
  <2>2. Proven(u)
    BY <1>2, <1>4, <2>1 DEF IInv, GateInv, ControlOK
  <2> QED
    BY <1>2, <2>2 DEF Proven, Valid, Comparisons
<1> QED
  BY <1>3, <1>5 DEF IInv

-----------------------------------------------------------------------------
(* The store and the monitor *)

\* A transaction on the pointer names a created policy or keeps the one it had.
LEMMA CommitStep ==
    ASSUME IInv, NEW r \in Rows, r.policy \in created \cup {row.policy}, Committed(r)
    PROVE  ControlOK' /\ UNCHANGED <<created, lifecycle>>
  BY DEF IInv, ControlOK, Committed

\* activate, switch, create and the caches.
LEMMA StoreStep ==
    ASSUME IInv, RoutesNext, UNCHANGED <<evidence, monitor, failures>>
    PROVE  IInv'
<1>1. ControlOK' /\ created \subseteq created' /\ UNCHANGED lifecycle
  <2>1. ASSUME NEW p \in Processes, NEW q \in Policies, activate(p, q)
        PROVE  ControlOK' /\ UNCHANGED <<created, lifecycle>>
    <3>1. [row EXCEPT !.policy = q] \in Rows /\ [row EXCEPT !.policy = q].policy = q
      BY DEF IInv, ControlOK, Rows
    <3> QED
      BY <2>1, <3>1, CommitStep DEF activate, Ordered
  <2>2. ASSUME NEW p \in Processes, NEW scope \in Scopes, NEW off \in BOOLEAN, switch(p, scope, off)
        PROVE  ControlOK' /\ UNCHANGED <<created, lifecycle>>
    <3> DEFINE D == IF off THEN row.disabled \cup {scope} ELSE row.disabled \ {scope}
    <3>1. D \in SUBSET Scopes
      BY DEF IInv, ControlOK, Rows
    <3>2. [row EXCEPT !.disabled = D] \in Rows /\ [row EXCEPT !.disabled = D].policy = row.policy
      BY <3>1 DEF IInv, ControlOK, Rows
    <3> QED
      BY <2>2, <3>2, CommitStep DEF switch, Ordered
  <2>3. ASSUME NEW p \in Processes, NEW off \in BOOLEAN, switch_all(p, off)
        PROVE  ControlOK' /\ UNCHANGED <<created, lifecycle>>
    <3>1. [row EXCEPT !.killed = off] \in Rows /\ [row EXCEPT !.killed = off].policy = row.policy
      BY DEF IInv, ControlOK, Rows
    <3> QED
      BY <2>3, <3>1, CommitStep DEF switch_all, Ordered
  <2>4. ASSUME NEW q \in Policies, create(q)
        PROVE  ControlOK' /\ created \subseteq created' /\ UNCHANGED lifecycle
    BY <2>4, RoutingAssumption DEF create, IInv, ControlOK
  <2>5. CASE UNCHANGED control
    BY <2>5 DEF control, IInv, ControlOK
  <2> QED
    BY <2>1, <2>2, <2>3, <2>4, <2>5 DEF RoutesNext, Operate, Return, Read, Publish, Tick
<1>2. UNCHANGED <<observed, compared, monitor>>
  BY DEF evidence
<1>3. EvidenceOK' /\ MonitorOK'
  BY <1>2 DEF IInv, EvidenceOK, MonitorOK
<1>4. GateInv'
  BY <1>1, <1>2, GateKept
<1> QED
  BY <1>1, <1>3, <1>4 DEF IInv

MonitorStep(p) ==
    MonitorSnapshot(p) \/ MonitorSteps(p) \/ MonitorReturn(p) \/ MonitorFails(p)

\* Passes of the monitor keep their shape.
LEMMA MonitorShape ==
    ASSUME IInv, NEW p \in Processes, MonitorStep(p)
    PROVE  MonitorOK'
<1> DEFINE m == monitor[p]
           Good(x) == "at" \in DOMAIN x /\ x.at \in Stages
<1>1. SUFFICES \E x : monitor' = [monitor EXCEPT ![p] = x] /\ Good(x)
  BY DEF IInv, MonitorOK
<1>2. Good(Idle)
  BY DEF Idle, Stages
<1>3. CASE MonitorSnapshot(p)
  <2> DEFINE x == [at |-> "snapshot", row |-> cache[p].row]
  <2>1. Good(x)
    BY DEF Stages
  <2> QED
    BY <1>3, <2>1 DEF MonitorSnapshot
<1>4. CASE MonitorMeasure(p)
  <2> DEFINE r == m.row
             due == {v \in Policy[r.policy].eligible \ r.disabled : VersionBreach(r.policy, v)}
             x == [at |-> "disabling", policy |-> r.policy, due |-> due]
  <2>1. Good(x)
    BY DEF Stages
  <2>2. monitor' = [monitor EXCEPT ![p] = IF due = {} THEN Idle ELSE x]
    BY <1>4 DEF MonitorMeasure
  <2> HIDE DEF x, due
  <2> QED
    BY <1>2, <2>1, <2>2
<1>5. ASSUME NEW v \in Versions, automatic_disable(p, v)
      PROVE  \E x : monitor' = [monitor EXCEPT ![p] = x] /\ Good(x)
  <2> DEFINE x == [m EXCEPT !.at = "returning", !.due = @ \ {v}]
             y == [m EXCEPT !.due = @ \ {v}]
  <2>1. Good(x) /\ Good(y)
    BY DEF Stages, IInv, MonitorOK
  <2>2. \/ monitor' = [monitor EXCEPT ![p] = x]
        \/ monitor' = [monitor EXCEPT ![p] = IF m.due = {v} THEN Idle ELSE y]
    BY <1>5 DEF automatic_disable
  <2> HIDE DEF x, y
  <2> QED
    BY <1>2, <2>1, <2>2
<1>6. CASE MonitorReturn(p)
  <2> DEFINE y == [m EXCEPT !.at = "disabling"]
  <2>1. Good(y)
    BY DEF Stages, IInv, MonitorOK
  <2>2. monitor' = [monitor EXCEPT ![p] = IF m.due = {} THEN Idle ELSE y]
    BY <1>6 DEF MonitorReturn
  <2> HIDE DEF y
  <2> QED
    BY <1>2, <2>1, <2>2
<1>7. CASE MonitorFails(p)
  BY <1>2, <1>7 DEF MonitorFails
<1> QED
  BY <1>3, <1>4, <1>5, <1>6, <1>7 DEF MonitorStep, MonitorSteps

\* The monitor disables versions and changes nothing else of the pointer.
LEMMA MonitoringStep ==
    ASSUME IInv, NEW p \in Processes, MonitorStep(p)
    PROVE  IInv'
<1>1. ControlOK' /\ UNCHANGED <<created, lifecycle, observed, compared>>
  <2>1. ASSUME NEW v \in Versions, automatic_disable(p, v)
        PROVE  ControlOK' /\ UNCHANGED <<created, lifecycle, observed, compared>>
    <3> DEFINE r == [row EXCEPT !.disabled = @ \cup {v}]
    <3>1. CASE Committed(r)
      <4>1. r \in Rows /\ r.policy = row.policy
        BY CanaryAssumption DEF IInv, ControlOK, Rows
      <4>2. ControlOK' /\ UNCHANGED <<created, lifecycle>>
        BY <3>1, <4>1, CommitStep
      <4> QED
        BY <2>1, <4>2 DEF automatic_disable, evidence
    <3> QED
      BY <2>1, <3>1 DEF automatic_disable, control, evidence, IInv, ControlOK
  <2> QED
    BY <2>1 DEF MonitorStep, MonitorSteps, MonitorSnapshot, MonitorMeasure, MonitorReturn,
                MonitorFails, routes, control, evidence, IInv, ControlOK
<1>2. EvidenceOK' /\ GateInv'
  BY <1>1, GateKept DEF IInv, EvidenceOK
<1> QED
  BY <1>1, <1>2, MonitorShape DEF IInv

\* Every step of the module.
LEMMA InvariantStep == IInv /\ [Next]_vars => IInv'
<1> SUFFICES ASSUME IInv, [Next]_vars PROVE IInv'
  OBVIOUS
<1>1. CASE UNCHANGED vars
  <2>1. UNCHANGED <<row, lifecycle, created, observed, compared, monitor>>
    BY <1>1 DEF vars, routes, control, evidence
  <2>2. GateInv'
    BY <2>1, GateKept
  <2> QED
    BY <2>1, <2>2 DEF IInv, ControlOK, EvidenceOK, MonitorOK
<1> QED
  BY <1>1, StoreStep, PromoteStep, MonitoringStep, TrafficStep DEF Next, MonitorStep

\* Nothing has passed the gate at the start.
LEMMA InvariantInit == Init => IInv
<1> SUFFICES ASSUME Init PROVE IInv
  OBVIOUS
<1>1. ControlOK
  BY DEF Init, RoutesInit, ControlOK, NoPointer, Rows, Lifecycle
<1>2. EvidenceOK
  BY DEF Init, EvidenceOK
<1>3. GateInv
  <2>1. \A v \in Versions : lifecycle[v] \in {"approved", "shadow"}
    BY DEF Init, RoutesInit, Models
  <2> QED
    BY <2>1 DEF GateInv
<1>4. MonitorOK
  BY DEF Init, MonitorOK, Idle, Stages
<1> QED
  BY <1>1, <1>2, <1>3, <1>4 DEF IInv

\* The inductive invariant holds of every reachable state.
THEOREM Invariance == Spec => []IInv
  BY InvariantInit, InvariantStep, PTL DEF Spec

\* No version serves without enough valid comparisons under one live policy,
\* whatever the scores were: neither later observations and comparisons nor
\* changes of policy, deprecation and rollback leave a serving version without
\* the evidence it was promoted on.
THEOREM EvidenceCorrect == Spec => []LiveOnEvidence
<1>1. IInv => LiveOnEvidence
  BY DEF IInv, GateInv, Proven, Valid, LiveOnEvidence
<1> QED
  BY <1>1, Invariance, PTL

-----------------------------------------------------------------------------
(* The rollback *)

\* automatic_disable checks again what the pass measured, in the transaction
\* that disables.
LEMMA RollbackStep ==
    ASSUME IInv, [Next]_vars, NEW p \in Processes, NEW v \in Versions,
           monitor[p].at = "disabling", monitor'[p].at = "returning",
           v \in row'.disabled \ row.disabled
    PROVE  row.policy = monitor[p].policy /\ lifecycle[v] \in {"canary", "production"}
<1>1. PICK x \in Processes : MonitorStep(x)
  <2>1. monitor' # monitor
    OBVIOUS
  <2>2. ASSUME Traffic PROVE FALSE
    BY <2>1, <2>2 DEF Traffic, Observe, Compare, RecordLive, Age
  <2> QED
    BY <2>1, <2>2 DEF Next, Promote, vars, MonitorStep
<1>2. x = p
  <2> SUFFICES ASSUME x # p PROVE monitor'[p] = monitor[p]
    OBVIOUS
  <2> QED
    BY <1>1 DEF MonitorStep, MonitorSteps, MonitorSnapshot, MonitorMeasure, automatic_disable,
                MonitorReturn, MonitorFails, IInv, MonitorOK
<1>3. PICK u \in Versions : automatic_disable(p, u)
  <2>1. ~MonitorSnapshot(p)
    BY DEF MonitorSnapshot, Idle
  <2>2. ~MonitorMeasure(p) /\ ~MonitorReturn(p)
    BY DEF MonitorMeasure, MonitorReturn
  <2>3. ~MonitorFails(p)
    BY DEF MonitorFails, Idle, IInv, MonitorOK
  <2> QED
    BY <1>1, <1>2, <2>1, <2>2, <2>3 DEF MonitorStep, MonitorSteps
<1>4. StillDue(monitor[p].policy, u) /\ row' = [row EXCEPT !.disabled = @ \cup {u}]
  BY <1>3 DEF automatic_disable, Committed, control
<1>5. v = u
  BY <1>4 DEF IInv, ControlOK, Rows
<1> QED
  BY <1>4, <1>5 DEF StillDue

\* The monitor's rollback is never stale: it hits a version that serves, under
\* the policy whose traffic was measured, however many operators and monitors
\* changed the pointer in between.
THEOREM RollbackCorrect == Spec => RollbackOnActive
<1>1. IInv /\ [Next]_vars =>
        [\A p \in Processes, v \in Versions :
          monitor[p].at = "disabling" /\ monitor'[p].at = "returning" /\
          v \in row'.disabled \ row.disabled
              => row.policy = monitor[p].policy /\ lifecycle[v] \in {"canary", "production"}]_vars
  BY RollbackStep
<1> QED
  BY <1>1, Invariance, PTL DEF Spec, RollbackOnActive
=============================================================================
