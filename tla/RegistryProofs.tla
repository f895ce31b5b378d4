--------------------------- MODULE RegistryProofs ---------------------------
(* Machine-checked proofs about Registry, for any versions, registry ids,   *)
(* reports, runners and number of rollbacks.                                *)
EXTENDS Registry, TLAPS

\* The inductive invariant: the pointers need OneProduction (only the version
\* pointed at can be in service) and the evidence needs BaselinePassed.
IInv ==
    TypeOK /\ OneProduction /\ PointersConsistent /\ ApprovedOnEvidence /\ BaselinePassed

-----------------------------------------------------------------------------
(* Evidence *)

\* Evidence accepted by _passed names a committed report of v, and the lock it
\* is judged against is a passed foundation report.
LEMMA PassedFacts ==
    ASSUME TypeOK, BaselinePassed, NEW v \in Versions, NEW e \in Reports \cup {None}, Passed(v, e)
    PROVE  /\ e \in Reports /\ e # None /\ report[e] # None
           /\ report[e].passed /\ report[e].candidate = v
           /\ v \notin Routers => /\ report[e].against # None
                                  /\ report[report[e].against] # None
                                  /\ report[report[e].against].passed
                                  /\ report[report[e].against].candidate = Foundation
  BY RegistryAssumption DEF Passed, BaselinePassed, TypeOK

\* ApprovedOnEvidence for one version.
Evidenced(v) ==
    LET e == approval[v] IN
    /\ e # None /\ e \in evidence[v]
    /\ report[e] # None /\ report[e].passed /\ report[e].candidate = v
    /\ v \notin Routers => /\ report[e].against # None
                           /\ report[report[e].against] # None
                           /\ report[report[e].against].passed
                           /\ report[report[e].against].candidate = Foundation

Proven == {"approved", "shadow", "canary", "production", "deprecated"}

\* ApprovedOnEvidence says of each version past approval that it is Evidenced.
LEMMA EvidenceMeans == ApprovedOnEvidence <=> \A v \in Versions : state[v] \in Proven => Evidenced(v)
  BY DEF ApprovedOnEvidence, Evidenced, Proven

-----------------------------------------------------------------------------
(* Steps of evaluations *)

\* publish only adds a row, so what a version was approved on stays as it was,
\* and a new lock is the passed foundation report just written.
LEMMA PublishStep ==
    ASSUME IInv, NEW w \in Runners, NEW passed \in BOOLEAN, Publish(w, passed)
    PROVE  IInv'
<1> USE DEF IInv
<1> DEFINE t == task[w]
           row == [candidate |-> t.candidate, compared |-> t.compared,
                   against |-> t.locked, passed |-> passed]
<1>1. /\ t # None /\ report[t.id] = None
      /\ report' = [report EXCEPT ![t.id] = row]
      /\ directories' = directories \cup {t.id}
      /\ baseline' = IF Locking(t) /\ passed THEN t.id ELSE baseline
      /\ evidence' = [v \in Versions |->
                        IF v = t.candidate /\ passed THEN evidence[v] \cup {t.id} ELSE evidence[v]]
      /\ task' = [task EXCEPT ![w] = None]
      /\ UNCHANGED <<state, approval, current, previous, intact, rollbacks>>
  BY DEF Publish, Publishable
<1>2. t \in Tasks /\ t.id \in Reports /\ row \in ReportRows
  BY <1>1, RegistryAssumption DEF TypeOK, Tasks, ReportRows
<1>3. TypeOK'
  BY <1>1, <1>2 DEF TypeOK
<1>4. OneProduction' /\ PointersConsistent'
  BY <1>1 DEF OneProduction, PointersConsistent, Serving
<1>5. \A e \in Reports : report[e] # None => report'[e] = report[e]
  BY <1>1, <1>2 DEF TypeOK
<1>6. BaselinePassed'
  <2>1. CASE baseline' = baseline
    BY <1>5, <2>1, RegistryAssumption DEF BaselinePassed, TypeOK
  <2>2. CASE Locking(t) /\ passed /\ baseline' = t.id
    <3>1. report'[t.id] = row /\ row # None
      BY <1>1, <1>2, NoneAssumption DEF TypeOK
    <3>2. row.passed = passed /\ row.candidate = Foundation
      BY <2>2 DEF Locking
    <3> QED
      BY <2>2, <3>1, <3>2 DEF BaselinePassed
  <2> QED
    BY <1>1, <2>1, <2>2
<1>7. ASSUME NEW v \in Versions, Evidenced(v) PROVE Evidenced(v)'
  <2> DEFINE e == approval[v]
  <2>1. e \in Reports /\ report'[e] = report[e] /\ approval'[v] = e
    BY <1>1, <1>5, <1>7 DEF Evidenced, TypeOK
  <2>2. e \in evidence'[v]
    BY <1>1, <1>7 DEF Evidenced, TypeOK
  <2>3. ASSUME v \notin Routers
        PROVE  report'[report[e].against] = report[report[e].against]
    <3>1. report[e] \in ReportRows /\ report[e].against # None
      BY <1>7, <2>1, <2>3 DEF Evidenced, TypeOK
    <3>2. report[e].against \in Reports
      BY <3>1 DEF ReportRows
    <3>3. CASE report[e].against = t.id
      BY <1>1, <1>7, <2>3, <3>3 DEF Evidenced
    <3>4. CASE report[e].against # t.id
      BY <1>1, <3>2, <3>4 DEF TypeOK
    <3> QED
      BY <3>3, <3>4
  <2> QED
    BY <1>7, <2>1, <2>2, <2>3 DEF Evidenced
<1>8. ApprovedOnEvidence'
  BY <1>1, <1>7, EvidenceMeans DEF ApprovedOnEvidence, Evidenced, Proven
<1> QED
  BY <1>3, <1>4, <1>6, <1>8

\* Steps that move no version, report or pointer.
LEMMA QuietStep ==
    ASSUME IInv, UNCHANGED <<models, report, baseline>>, task' \in [Runners -> Tasks \cup {None}],
           intact' \subseteq Versions, directories' \subseteq Reports, rollbacks' \in Nat
    PROVE  IInv'
  BY DEF IInv, models, TypeOK, OneProduction, Serving, PointersConsistent, ApprovedOnEvidence,
         BaselinePassed

-----------------------------------------------------------------------------
(* Steps of the lifecycle *)

\* A transition keeps the evidence of every version that had it, and gives it
\* to a version that is being approved.
LEMMA RecordedEvidence ==
    ASSUME TypeOK, BaselinePassed, NEW v \in Versions, NEW target \in Lifecycle,
           NEW e \in Reports \cup {None}, ValidTransition(v, target, e), Recorded(v, target, e),
           UNCHANGED <<report, baseline>>
    PROVE  /\ approval' \in [Versions -> Reports \cup {None}]
           /\ evidence' \in [Versions -> SUBSET Reports]
           /\ target = "approved" => Evidenced(v)'
           /\ \A u \in Versions : (u = v => target # "approved") /\ Evidenced(u) => Evidenced(u)'
<1>1. /\ approval' \in [Versions -> Reports \cup {None}]
      /\ evidence' \in [Versions -> SUBSET Reports]
  <2>1. Passed(v, e) => e \in Reports
    BY PassedFacts
  <2> QED
    BY <2>1 DEF Recorded, TypeOK
<1>2. ASSUME target = "approved" PROVE Evidenced(v)'
  <2>1. Passed(v, e)
    BY <1>2 DEF ValidTransition
  <2>2. approval'[v] = e /\ e \in evidence'[v]
    BY <1>2, <2>1 DEF Recorded, TypeOK
  <2> QED
    BY <2>1, <2>2, PassedFacts DEF Evidenced
<1>3. ASSUME NEW u \in Versions, u = v => target # "approved", Evidenced(u) PROVE Evidenced(u)'
  <2>1. approval'[u] = approval[u] /\ evidence[u] \subseteq evidence'[u]
    BY <1>3 DEF Recorded, TypeOK
  <2> QED
    BY <1>3, <2>1 DEF Evidenced
<1> QED
  BY <1>1, <1>2, <1>3

\* promote to any state but production.
LEMMA PromoteStep ==
    ASSUME IInv, NEW v \in Versions, NEW target \in Lifecycle, NEW e \in Reports \cup {None},
           Promote(v, target, e)
    PROVE  IInv'
<1> USE DEF IInv
<1>1. /\ target # "production"
      /\ <<state[v], target>> \in ALLOWED_EDGES
      /\ ValidTransition(v, target, e)
      /\ state' = [state EXCEPT ![v] = target]
      /\ Recorded(v, target, e)
      /\ UNCHANGED <<current, previous, intact, task, report, directories, baseline, rollbacks>>
  BY DEF Promote, ValidTransition, evaluations
<1>2. /\ approval' \in [Versions -> Reports \cup {None}]
      /\ evidence' \in [Versions -> SUBSET Reports]
      /\ target = "approved" => Evidenced(v)'
      /\ \A u \in Versions : (u = v => target # "approved") /\ Evidenced(u) => Evidenced(u)'
  BY <1>1, RecordedEvidence
<1>3. TypeOK'
  BY <1>1, <1>2 DEF TypeOK
<1>4. OneProduction'
  BY <1>1 DEF OneProduction, Serving, TypeOK
<1>5. state[v] \in {"production", "deprecated", "revoked"} => target \in {"deprecated", "revoked"}
  BY <1>1 DEF ALLOWED_EDGES, Lifecycle
<1>6. state[v] \in {"deprecated", "revoked"} => target = "revoked"
  BY <1>1 DEF ALLOWED_EDGES, Lifecycle
<1>7. PointersConsistent'
  BY <1>1, <1>5, <1>6 DEF PointersConsistent, TypeOK
<1>8. target \in Proven /\ target # "approved" => state[v] \in Proven
  BY <1>1 DEF ALLOWED_EDGES, Lifecycle, Proven
<1>9. (\A u \in Versions : state[u] \in Proven => Evidenced(u))'
  <2> SUFFICES ASSUME NEW u \in Versions, state'[u] \in Proven PROVE Evidenced(u)'
    OBVIOUS
  <2>1. CASE u = v /\ target = "approved"
    BY <1>2, <2>1
  <2>2. CASE u = v /\ target # "approved"
    <3>1. target \in Proven
      BY <1>1, <2>2 DEF TypeOK
    <3> QED
      BY <1>2, <1>8, <2>2, <3>1, EvidenceMeans
  <2>3. CASE u # v
    <3>1. state[u] \in Proven
      BY <1>1, <2>3 DEF TypeOK
    <3> QED
      BY <1>2, <2>3, <3>1, EvidenceMeans
  <2> QED
    BY <2>1, <2>2, <2>3
<1>10. ApprovedOnEvidence'
  BY <1>9 DEF ApprovedOnEvidence, Evidenced, Proven
<1>11. BaselinePassed'
  BY <1>1 DEF BaselinePassed
<1> QED
  BY <1>3, <1>4, <1>7, <1>10, <1>11

\* promote to production: the incumbent leaves as the new version enters.
LEMMA InstallStep ==
    ASSUME IInv, NEW v \in Versions, NEW e \in Reports \cup {None}, Install(v, e)
    PROVE  IInv'
<1> USE DEF IInv
<1> DEFINE r == RegistryOf[v]
<1>1. /\ ValidTransition(v, "production", e)
      /\ current[r] # None => state[current[r]] = "production"
      /\ state' = [u \in Versions |-> IF u = v THEN "production"
                                       ELSE IF u = current[r] THEN "deprecated" ELSE state[u]]
      /\ Recorded(v, "production", e)
      /\ current' = [current EXCEPT ![r] = v]
      /\ previous' = [previous EXCEPT ![r] = current[r]]
      /\ UNCHANGED <<intact, task, report, directories, baseline, rollbacks>>
  BY DEF Install, InstallAllowed, evaluations
<1>2. state[v] = "canary"
  BY <1>1 DEF ValidTransition, ALLOWED_EDGES, Lifecycle
<1>3. r \in Deployments
  BY RegistryAssumption
<1>4. /\ approval' \in [Versions -> Reports \cup {None}]
      /\ evidence' \in [Versions -> SUBSET Reports]
      /\ \A u \in Versions : Evidenced(u) => Evidenced(u)'
  BY <1>1, RecordedEvidence DEF Lifecycle
<1>5. TypeOK'
  BY <1>1, <1>3, <1>4 DEF TypeOK, Lifecycle
<1>6. \A u \in Versions : /\ u = v => state'[u] = "production"
                          /\ u # v /\ u = current[r] => state'[u] = "deprecated"
                          /\ u # v /\ u # current[r] => state'[u] = state[u]
  BY <1>1
<1>7. \A s \in Deployments : /\ s = r => current'[s] = v /\ previous'[s] = current[r]
                             /\ s # r => current'[s] = current[s] /\ previous'[s] = previous[s]
  BY <1>1, <1>3 DEF TypeOK
<1>8. current[r] # v
  BY <1>1, <1>2, RegistryAssumption
<1>9. OneProduction'
  <2> SUFFICES ASSUME NEW s \in Deployments, NEW u \in Versions, RegistryOf[u] = s,
                      state'[u] = "production"
               PROVE  u = current'[s]
    BY DEF OneProduction, Serving
  <2>1. CASE u = v
    BY <1>7, <2>1
  <2>2. CASE u # v
    <3>1. u # current[r] /\ state[u] = "production"
      BY <1>6, <2>2
    <3>2. u = current[s]
      BY <3>1 DEF OneProduction, Serving
    <3> QED
      BY <1>7, <3>1, <3>2
  <2> QED
    BY <2>1, <2>2
<1>10. PointersConsistent'
  <2> SUFFICES ASSUME NEW s \in Deployments
               PROVE  /\ current'[s] # None =>
                            /\ RegistryOf[current'[s]] = s
                            /\ state'[current'[s]] \in {"production", "deprecated", "revoked"}
                      /\ previous'[s] # None =>
                            /\ current'[s] # None /\ previous'[s] # current'[s]
                            /\ RegistryOf[previous'[s]] = s
                            /\ state'[previous'[s]] \in {"deprecated", "revoked"}
    BY DEF PointersConsistent
  <2>1. CASE s = r
    <3>1. current'[s] = v /\ previous'[s] = current[r] /\ v # None
      BY <1>7, <2>1, RegistryAssumption
    <3>2. current[r] # None => current[r] \in Versions /\ RegistryOf[current[r]] = r
      BY <1>3 DEF PointersConsistent, TypeOK
    <3> QED
      BY <1>6, <1>8, <2>1, <3>1, <3>2
  <2>2. CASE s # r
    <3>1. current'[s] = current[s] /\ previous'[s] = previous[s]
      BY <1>7, <2>2
    <3>2. current[s] # None => current[s] \in Versions /\ RegistryOf[current[s]] = s
      BY DEF PointersConsistent, TypeOK
    <3>3. previous[s] # None => previous[s] \in Versions /\ RegistryOf[previous[s]] = s
      BY DEF PointersConsistent, TypeOK
    <3>4. current[r] # None => RegistryOf[current[r]] = r
      BY <1>3 DEF PointersConsistent
    <3>5. current[s] # None => state'[current[s]] = state[current[s]]
      BY <1>6, <2>2, <3>2, <3>4
    <3>6. previous[s] # None => state'[previous[s]] = state[previous[s]]
      BY <1>6, <2>2, <3>3, <3>4
    <3> QED
      BY <3>1, <3>5, <3>6 DEF PointersConsistent
  <2> QED
    BY <2>1, <2>2
<1>11. (\A u \in Versions : state[u] \in Proven => Evidenced(u))'
  <2> SUFFICES ASSUME NEW u \in Versions, state'[u] \in Proven PROVE Evidenced(u)'
    OBVIOUS
  <2>1. state[u] \in Proven
    <3>1. CASE u = v
      BY <1>2, <3>1 DEF Proven
    <3>2. CASE u # v /\ u = current[r]
      BY <1>1, <3>2, RegistryAssumption DEF Proven
    <3>3. CASE u # v /\ u # current[r]
      BY <1>6, <3>3
    <3> QED
      BY <3>1, <3>2, <3>3
  <2>2. Evidenced(u)
    BY <2>1, EvidenceMeans
  <2> QED
    BY <1>4, <2>2
<1>12. ApprovedOnEvidence'
  BY <1>11 DEF ApprovedOnEvidence, Evidenced, Proven
<1>13. BaselinePassed'
  BY <1>1 DEF BaselinePassed
<1> QED
  BY <1>5, <1>9, <1>10, <1>12, <1>13

\* rollback: the two versions of the deployment row trade places.
LEMMA RollbackStep ==
    ASSUME IInv, NEW r \in Deployments, Rollback(r)
    PROVE  IInv'
<1> USE DEF IInv
<1> DEFINE c == current[r]
           p == previous[r]
<1>1. /\ p # None /\ state[c] = "production" /\ state[p] = "deprecated"
      /\ state' = [v \in Versions |-> IF v = c THEN "deprecated"
                                       ELSE IF v = p THEN "production" ELSE state[v]]
      /\ current' = [current EXCEPT ![r] = p]
      /\ previous' = [previous EXCEPT ![r] = c]
      /\ rollbacks' = rollbacks + 1
      /\ UNCHANGED <<approval, evidence, intact, task, report, directories, baseline>>
  BY DEF Rollback, RollbackAllowed, evaluations
<1>2. /\ c \in Versions /\ p \in Versions /\ c # p /\ c # None
      /\ RegistryOf[c] = r /\ RegistryOf[p] = r
  BY <1>1 DEF PointersConsistent, TypeOK
<1>3. TypeOK'
  BY <1>1, <1>2 DEF TypeOK, Lifecycle
<1>4. \A u \in Versions : /\ u = c => state'[u] = "deprecated"
                          /\ u = p => state'[u] = "production"
                          /\ u # c /\ u # p => state'[u] = state[u]
  BY <1>1, <1>2
<1>5. \A s \in Deployments : /\ s = r => current'[s] = p /\ previous'[s] = c
                             /\ s # r => current'[s] = current[s] /\ previous'[s] = previous[s]
  BY <1>1 DEF TypeOK
<1> HIDE DEF c, p
<1>6. OneProduction'
  <2> SUFFICES ASSUME NEW s \in Deployments, NEW u \in Versions, RegistryOf[u] = s,
                      state'[u] = "production"
               PROVE  u = current'[s]
    BY DEF OneProduction, Serving
  <2>1. CASE u = p
    BY <1>2, <1>5, <2>1
  <2>2. CASE u # p
    <3>1. u # c /\ state[u] = "production"
      BY <1>4, <2>2
    <3>2. u = current[s]
      BY <3>1 DEF OneProduction, Serving
    <3> QED
      BY <1>5, <3>1, <3>2 DEF c
  <2> QED
    BY <2>1, <2>2
<1>7. PointersConsistent'
  <2> SUFFICES ASSUME NEW s \in Deployments
               PROVE  /\ current'[s] # None =>
                            /\ RegistryOf[current'[s]] = s
                            /\ state'[current'[s]] \in {"production", "deprecated", "revoked"}
                      /\ previous'[s] # None =>
                            /\ current'[s] # None /\ previous'[s] # current'[s]
                            /\ RegistryOf[previous'[s]] = s
                            /\ state'[previous'[s]] \in {"deprecated", "revoked"}
    BY DEF PointersConsistent
  <2>1. CASE s = r
    BY <1>1, <1>2, <1>4, <1>5, <2>1
  <2>2. CASE s # r
    <3>1. current[s] # None => current[s] \in Versions /\ RegistryOf[current[s]] = s
      BY DEF PointersConsistent, TypeOK
    <3>2. previous[s] # None => previous[s] \in Versions /\ RegistryOf[previous[s]] = s
      BY DEF PointersConsistent, TypeOK
    <3>3. current[s] # None => state'[current[s]] = state[current[s]]
      BY <1>2, <1>4, <2>2, <3>1
    <3>4. previous[s] # None => state'[previous[s]] = state[previous[s]]
      BY <1>2, <1>4, <2>2, <3>2
    <3> QED
      BY <1>5, <2>2, <3>3, <3>4 DEF PointersConsistent
  <2> QED
    BY <2>1, <2>2
<1>8. \A u \in Versions : Evidenced(u)' <=> Evidenced(u)
  BY <1>1 DEF Evidenced
<1>9. (\A u \in Versions : state[u] \in Proven => Evidenced(u))'
  <2>1. Evidenced(c) /\ Evidenced(p)
    BY <1>1, <1>2, EvidenceMeans DEF Proven
  <2> QED
    BY <1>4, <1>8, <2>1, EvidenceMeans
<1>10. ApprovedOnEvidence'
  BY <1>9 DEF ApprovedOnEvidence, Evidenced, Proven
<1>11. BaselinePassed'
  BY <1>1 DEF BaselinePassed
<1> QED
  BY <1>3, <1>6, <1>7, <1>10, <1>11

\* complete registers a version nothing points at.
LEMMA RegisterStep ==
    ASSUME IInv, NEW v \in Versions, Register(v)
    PROVE  IInv'
<1> USE DEF IInv
<1>1. /\ state[v] = "absent"
      /\ state' = [state EXCEPT ![v] = "candidate"]
      /\ UNCHANGED <<approval, evidence, current, previous, intact, task, report, directories,
                     baseline, rollbacks>>
  BY DEF Register, evaluations
<1>2. TypeOK'
  BY <1>1 DEF TypeOK, Lifecycle
<1>3. OneProduction' /\ PointersConsistent'
  BY <1>1 DEF OneProduction, Serving, PointersConsistent, TypeOK
<1>4. ApprovedOnEvidence' /\ BaselinePassed'
  BY <1>1 DEF ApprovedOnEvidence, BaselinePassed, TypeOK
<1> QED
  BY <1>2, <1>3, <1>4

-----------------------------------------------------------------------------
(* The theorems *)

\* The empty registry satisfies the inductive invariant.
LEMMA InitIInv == Init => IInv
<1> SUFFICES ASSUME Init PROVE IInv
  OBVIOUS
<1>1. TypeOK
  BY DEF Init, TypeOK
<1>2. OneProduction /\ PointersConsistent /\ ApprovedOnEvidence /\ BaselinePassed
  BY DEF Init, OneProduction, Serving, PointersConsistent, ApprovedOnEvidence, BaselinePassed
<1> QED
  BY <1>1, <1>2 DEF IInv

\* Every step, and stuttering, preserves the inductive invariant.
LEMMA NextIInv == IInv /\ [Next]_vars => IInv'
<1> SUFFICES ASSUME IInv, [Next]_vars PROVE IInv'
  OBVIOUS
<1>1. TypeOK
  BY DEF IInv
<1>2. ASSUME NEW w \in Runners, NEW e \in Reports, NEW c \in Candidates,
             NEW compared \in BOOLEAN, Begin(w, e, c, compared)
      PROVE  IInv'
  <2>1. [id |-> e, candidate |-> c, compared |-> compared,
         locked |-> IF compared THEN baseline ELSE None] \in Tasks
    BY <1>1 DEF TypeOK, Tasks
  <2>2. task' \in [Runners -> Tasks \cup {None}]
    BY <1>1, <1>2, <2>1 DEF Begin, TypeOK
  <2> QED
    BY <1>1, <1>2, <2>2, QuietStep DEF Begin, TypeOK
<1>3. ASSUME NEW w \in Runners, Abandon(w) PROVE IInv'
  BY <1>1, <1>3, QuietStep DEF Abandon, TypeOK
<1>4. ASSUME NEW w \in Runners, PublishCrash(w) PROVE IInv'
  <2>1. task[w] \in Tasks
    BY <1>1, <1>4 DEF PublishCrash, Publishable, TypeOK
  <2>2. directories' \subseteq Reports
    BY <1>1, <1>4, <2>1 DEF PublishCrash, TypeOK, Tasks
  <2> QED
    BY <1>1, <1>4, <2>2, QuietStep DEF PublishCrash, TypeOK
<1>5. ASSUME NEW v \in Versions, Corrupt(v) PROVE IInv'
  BY <1>1, <1>5, QuietStep DEF Corrupt, TypeOK, evaluations
<1>6. CASE UNCHANGED vars
  BY <1>1, <1>6, QuietStep DEF vars, evaluations, TypeOK
<1> QED
  BY <1>2, <1>3, <1>4, <1>5, <1>6, PublishStep, PromoteStep, InstallStep, RollbackStep,
     RegisterStep DEF Next

\* The inductive invariant holds of every reachable state.
THEOREM Invariance == Spec => []IInv
  BY InitIInv, NextIInv, PTL DEF Spec

\* promote, rollback, complete and publish keep every row well formed.
THEOREM TypeCorrect == Spec => []TypeOK
<1>1. IInv => TypeOK
  BY DEF IInv
<1> QED
  BY <1>1, Invariance, PTL

\* However promotions and rollbacks interleave, a deployment serves one
\* version at most, the one deployments.current_version names.
THEOREM ProductionCorrect == Spec => []OneProduction
<1>1. IInv => OneProduction
  BY DEF IInv
<1> QED
  BY <1>1, Invariance, PTL

\* The two columns of a deployments row name different versions of that
\* deployment, in states promote and rollback can have left them in.
THEOREM PointersCorrect == Spec => []PointersConsistent
<1>1. IInv => PointersConsistent
  BY DEF IInv
<1> QED
  BY <1>1, Invariance, PTL

\* No version reaches traffic without a passed report of its own, measured
\* against a baseline that was published.
THEOREM EvidenceCorrect == Spec => []ApprovedOnEvidence
<1>1. IInv => ApprovedOnEvidence
  BY DEF IInv
<1> QED
  BY <1>1, Invariance, PTL

\* The locked baseline is a passed report of the foundation deployment.
THEOREM BaselineCorrect == Spec => []BaselinePassed
<1>1. IInv => BaselinePassed
  BY DEF IInv
<1> QED
  BY <1>1, Invariance, PTL

\* ALLOWED_EDGES has no way out of revoked, rollback restores deprecated
\* versions only, and publish refuses an id that is taken.
LEMMA TerminalStep ==
    ASSUME TypeOK, [Next]_vars
    PROVE  /\ \A v \in Versions : state[v] = "revoked" => state'[v] = "revoked"
           /\ \A e \in Reports : report[e] # None => report'[e] = report[e]
<1> DEFINE Goal == /\ \A v \in Versions : state[v] = "revoked" => state'[v] = "revoked"
                   /\ \A e \in Reports : report[e] # None => report'[e] = report[e]
<1>1. ASSUME NEW w \in Runners, NEW passed \in BOOLEAN, Publish(w, passed) PROVE Goal
  BY <1>1 DEF Publish, Publishable, TypeOK
<1>2. ASSUME NEW v \in Versions, NEW target \in Lifecycle, NEW e \in Reports \cup {None},
             Promote(v, target, e)
      PROVE  Goal
  BY <1>2 DEF Promote, ValidTransition, ALLOWED_EDGES, Lifecycle, evaluations, TypeOK
<1>3. ASSUME NEW v \in Versions, NEW e \in Reports \cup {None}, Install(v, e) PROVE Goal
  <2>1. state[v] = "canary" /\ UNCHANGED report
    BY <1>3 DEF Install, ValidTransition, ALLOWED_EDGES, Lifecycle, evaluations
  <2>2. \A u \in Versions : state[u] = "revoked" => u # v /\ u # current[RegistryOf[v]]
    BY <1>3, <2>1, RegistryAssumption DEF Install, InstallAllowed
  <2> QED
    BY <1>3, <2>1, <2>2 DEF Install
<1>4. ASSUME NEW r \in Deployments, Rollback(r) PROVE Goal
  BY <1>4 DEF Rollback, RollbackAllowed, evaluations
<1>5. ASSUME NEW v \in Versions, Register(v) PROVE Goal
  BY <1>5 DEF Register, evaluations, TypeOK
<1>6. CASE \/ UNCHANGED vars \/ \E v \in Versions : Corrupt(v)
           \/ \E w \in Runners : Abandon(w) \/ PublishCrash(w)
           \/ \E w \in Runners, e \in Reports, c \in Candidates, compared \in BOOLEAN :
                Begin(w, e, c, compared)
  <2>1. UNCHANGED <<state, report>>
    BY <1>6 DEF vars, models, evaluations, Corrupt, Abandon, PublishCrash, Begin
  <2> QED
    BY <2>1
<1> QED
  BY <1>1, <1>2, <1>3, <1>4, <1>5, <1>6 DEF Next

\* Revocation is final and reports are immutable, in every step of every run.
THEOREM TerminalCorrect == Spec => Terminal
<1>1. TypeOK /\ [Next]_vars =>
        [/\ \A v \in Versions : state[v] = "revoked" => state'[v] = "revoked"
         /\ \A e \in Reports : report[e] # None => report'[e] = report[e]]_vars
  BY TerminalStep
<1> QED
  BY <1>1, TypeCorrect, PTL DEF Spec, Terminal

\* The lock moves only in publish, to a passed foundation report whose expected
\* baseline was compared with the lock inside the same transaction.
LEMMA ChainStep ==
    ASSUME TypeOK, [Next]_vars
    PROVE  [baseline' # baseline =>
              baseline' # None /\ report'[baseline'].against = baseline]_vars
<1>1. ASSUME NEW w \in Runners, NEW passed \in BOOLEAN, Publish(w, passed), baseline' # baseline
      PROVE  baseline' # None /\ report'[baseline'].against = baseline
  <2> DEFINE t == task[w]
  <2>1. Locking(t) /\ baseline' = t.id /\ t # None
    BY <1>1 DEF Publish, Publishable
  <2>2. t.id \in Reports /\ t.locked = baseline
    BY <1>1, <2>1 DEF Publish, Publishable, Locking, TypeOK, Tasks
  <2>3. report'[t.id] = [candidate |-> t.candidate, compared |-> t.compared,
                         against |-> t.locked, passed |-> passed]
    BY <1>1, <2>2 DEF Publish, TypeOK
  <2> QED
    BY <2>1, <2>2, <2>3, RegistryAssumption
<1>2. ASSUME ~ \E w \in Runners, passed \in BOOLEAN : Publish(w, passed) PROVE UNCHANGED baseline
  BY <1>2 DEF Next, vars, evaluations, Begin, Abandon, PublishCrash, Promote, Install, Rollback,
              Register, Corrupt
<1> QED
  BY <1>1, <1>2

\* Concurrent foundation evaluations never both replace the same baseline.
THEOREM ChainCorrect == Spec => BaselineChain
  BY ChainStep, TypeCorrect, PTL DEF Spec, BaselineChain

\* Only promote to approved writes an approval, and _passed reads the lock in
\* that same transaction.
LEMMA ApprovalStep ==
    ASSUME TypeOK, [Next]_vars
    PROVE  [\A v \in Versions : approval'[v] # approval[v] /\ v \notin Routers =>
              report[approval'[v]].against = baseline]_vars
<1> DEFINE Current == \A v \in Versions : approval'[v] # approval[v] /\ v \notin Routers =>
                          report[approval'[v]].against = baseline
<1>1. ASSUME NEW v \in Versions, NEW target \in Lifecycle, NEW e \in Reports \cup {None},
             Promote(v, target, e)
      PROVE  Current
  <2>1. CASE target = "approved"
    <3>1. approval' = [approval EXCEPT ![v] = e] /\ Passed(v, e)
      BY <1>1, <2>1 DEF Promote, Recorded, ValidTransition
    <3>2. v \notin Routers => report[e].against = baseline
      BY <3>1 DEF Passed
    <3> QED
      BY <3>1, <3>2 DEF TypeOK
  <2>2. CASE target # "approved"
    BY <1>1, <2>2 DEF Promote, Recorded
  <2> QED
    BY <2>1, <2>2
<1>2. ASSUME NEW v \in Versions, NEW e \in Reports \cup {None}, Install(v, e) PROVE Current
  BY <1>2 DEF Install, Recorded
<1>3. CASE ~ \E v \in Versions, e \in Reports \cup {None} :
                 Install(v, e) \/ \E target \in Lifecycle : Promote(v, target, e)
  <2>1. UNCHANGED approval
    BY <1>3 DEF Next, vars, models, Begin, Publish, Abandon, PublishCrash, Rollback, Register,
                Corrupt
  <2> QED
    BY <2>1
<1> QED
  BY <1>1, <1>2, <1>3

\* An approval never rests on a report measured against a baseline that had
\* been replaced by the time of the approval, however relocks interleave.
THEOREM ApprovalCorrect == Spec => ApprovalIsCurrent
  BY ApprovalStep, TypeCorrect, PTL DEF Spec, ApprovalIsCurrent
=============================================================================
