------------------------------ MODULE Registry ------------------------------
(***************************************************************************)
(* The model registry and the evidence it promotes on: the lifecycle rules *)
(* of registry/state.py, the promotion, rollback and registration          *)
(* transactions of registry/sqlite.py, and the evaluation runs of          *)
(* evaluation/service.py with their publication and baseline lock          *)
(* (evaluation/storage.py).                                                *)
(*                                                                         *)
(* A registry transaction is one step: SQLite begins it IMMEDIATE and      *)
(* PostgreSQL takes an advisory lock.  An evaluation reads the baseline    *)
(* when it starts and publishes much later, so everything else interleaves *)
(* with it; it may also die after its report directory is renamed into     *)
(* place and before the transaction commits.  Requests the code refuses    *)
(* change nothing and are not steps.  One dataset version is modelled.     *)
(***************************************************************************)
EXTENDS Naturals, FiniteSets

CONSTANTS
    Versions,      \* model versions a training job may register
    Deployments,   \* registry ids
    RegistryOf,    \* RegistryOf[v]: manifest.registry_id
    TenantsOf,     \* TenantsOf[v]: manifest.tenant_ids
    Routers,       \* versions of architecture router-logistic-v1
    Foundation,    \* the foundation deployment, whose evaluation locks a baseline
    Reports,       \* evaluation ids
    Runners,       \* concurrent evaluation requests
    None,
    MaxRollbacks   \* bound on rollbacks

ASSUME RegistryAssumption ==
    /\ Routers \subseteq Versions
    /\ RegistryOf \in [Versions -> Deployments]
    /\ None \notin Versions \cup Reports \cup {Foundation}
    /\ Foundation \notin Versions
    /\ MaxRollbacks \in Nat

VARIABLES
    state,        \* lifecycle state per version, "absent" before registration
    approval,     \* evaluation id of the evaluating -> approved transition
    evidence,     \* evaluation_reports of the manifest that say passed
    current,      \* deployments.current_version per registry id
    previous,     \* deployments.previous_version
    intact,       \* versions whose artifacts still verify
    task,         \* what each runner is evaluating
    report,       \* evaluation_reports rows
    directories,  \* report directories under evaluations/
    baseline,     \* the locked baseline report
    rollbacks

models == <<state, approval, evidence, current, previous>>
evaluations == <<task, report, directories, baseline>>
vars == <<models, intact, evaluations, rollbacks>>

Lifecycle == {"candidate", "evaluating", "approved", "shadow", "canary", "production",
              "deprecated", "revoked"}

Candidates == Versions \cup {Foundation}
Tasks == [id : Reports, candidate : Candidates, compared : BOOLEAN,
          locked : Reports \cup {None}]
ReportRows == [candidate : Candidates, compared : BOOLEAN,
               against : Reports \cup {None}, passed : BOOLEAN]

ASSUME NoneAssumption == None \notin Tasks \cup ReportRows

TypeOK ==
    /\ state \in [Versions -> Lifecycle \cup {"absent"}]
    /\ approval \in [Versions -> Reports \cup {None}]
    /\ evidence \in [Versions -> SUBSET Reports]
    /\ current \in [Deployments -> Versions \cup {None}]
    /\ previous \in [Deployments -> Versions \cup {None}]
    /\ intact \subseteq Versions
    /\ task \in [Runners -> Tasks \cup {None}]
    /\ report \in [Reports -> ReportRows \cup {None}]
    /\ directories \subseteq Reports
    /\ baseline \in Reports \cup {None}
    /\ rollbacks \in Nat

Init ==
    /\ state = [v \in Versions |-> "absent"]
    /\ approval = [v \in Versions |-> None]
    /\ evidence = [v \in Versions |-> {}]
    /\ current = [r \in Deployments |-> None]
    /\ previous = [r \in Deployments |-> None]
    /\ intact = Versions
    /\ task = [w \in Runners |-> None]
    /\ report = [e \in Reports |-> None]
    /\ directories = {}
    /\ baseline = None
    /\ rollbacks = 0

-----------------------------------------------------------------------------
(* Evaluations *)

\* _deployment: the foundation, or a registered version that is past candidate
\* and not withdrawn, and whose artifacts load.
Evaluable(c) ==
    c \in Versions =>
        state[c] \notin {"absent", "candidate", "deprecated", "revoked"} /\ c \in intact

\* evaluate up to the slow part: refuse a known evaluation id, resolve the
\* candidate and remember the baseline it is compared with.  A version still
\* in "candidate" is first promoted to "evaluating", a step of its own.
Begin(w, e, c, compared) ==
    /\ task[w] = None /\ report[e] = None
    /\ Evaluable(c)
    /\ c \in Routers => ~compared
    /\ compared /\ c # Foundation => baseline # None
    /\ task' = [task EXCEPT ![w] = [id |-> e, candidate |-> c, compared |-> compared,
                                    locked |-> IF compared THEN baseline ELSE None]]
    /\ UNCHANGED <<models, intact, report, directories, baseline, rollbacks>>

\* Mutant of Publishable: the baseline is not compared with the one read at
\* the start.
PublishableStale(w) ==
    LET t == task[w] IN
    /\ t # None /\ report[t.id] = None /\ t.id \notin directories
    /\ t.candidate \in Versions => state[t.candidate] \notin {"deprecated", "revoked"}

\* The checks inside the publication transaction: the id is new, the baseline
\* is still the one read at the start (expected_baseline), and record_evaluation
\* accepts the candidate's state.
Publishable(w) ==
    LET t == task[w] IN
    /\ t # None /\ report[t.id] = None /\ t.id \notin directories
    /\ t.compared => baseline = t.locked
    /\ t.candidate \in Versions => state[t.candidate] \notin {"deprecated", "revoked"}

\* A foundation report against the foundation itself is a baseline.
Locking(t) == t.candidate = Foundation /\ t.compared

\* publish: the report row, a passed foundation report as the new baseline,
\* the manifest's evaluation_reports and the directory.
Publish(w, passed) ==
    LET t == task[w] IN
    /\ Publishable(w)
    /\ report' = [report EXCEPT ![t.id] =
                    [candidate |-> t.candidate, compared |-> t.compared,
                     against |-> t.locked, passed |-> passed]]
    /\ directories' = directories \cup {t.id}
    /\ baseline' = IF Locking(t) /\ passed THEN t.id ELSE baseline
    /\ evidence' = [v \in Versions |->
                      IF v = t.candidate /\ passed THEN evidence[v] \cup {t.id} ELSE evidence[v]]
    /\ task' = [task EXCEPT ![w] = None]
    /\ UNCHANGED <<state, approval, current, previous, intact, rollbacks>>

\* The evaluation fails, is refused at publication, or dies before the rename;
\* a failing commit removes the renamed directory again.
Abandon(w) ==
    /\ task[w] # None
    /\ task' = [task EXCEPT ![w] = None]
    /\ UNCHANGED <<models, intact, report, directories, baseline, rollbacks>>

\* The process dies between the rename and the commit.
PublishCrash(w) ==
    /\ Publishable(w)
    /\ directories' = directories \cup {task[w].id}
    /\ task' = [task EXCEPT ![w] = None]
    /\ UNCHANGED <<models, intact, report, baseline, rollbacks>>

-----------------------------------------------------------------------------
(* The lifecycle *)

ALLOWED_EDGES ==
    {<<"candidate", "evaluating">>, <<"evaluating", "approved">>, <<"approved", "shadow">>,
     <<"shadow", "canary">>, <<"canary", "production">>, <<"production", "deprecated">>}
        \cup {<<s, "revoked">> : s \in Lifecycle \ {"revoked"}}

\* Mutant of Passed: any baseline the report was measured against will do.
PassedOnce(v, e) ==
    /\ e # None /\ report[e] # None
    /\ report[e].passed /\ report[e].candidate = v
    /\ v \notin Routers => report[e].compared /\ baseline # None

\* _passed: report e is passed evidence for v, measured against the baseline
\* that is locked now.  Routers are not compared.
Passed(v, e) ==
    /\ e # None /\ report[e] # None
    /\ report[e].passed /\ report[e].candidate = v
    /\ v \notin Routers =>
         /\ report[e].compared
         /\ baseline # None /\ report[baseline].passed
         /\ report[e].against = baseline

\* Mutant of ValidTransition: the evidence for approval is not required.
ValidTransitionUnproven(v, target, e) ==
    /\ <<state[v], target>> \in ALLOWED_EDGES
    /\ target \notin {"revoked", "deprecated"} => v \in intact

\* validate_transition and verify_artifact, for an ordinary transition.  The
\* progression gate for canary and production may say either thing: a free
\* choice, so the step may or may not be taken.
ValidTransition(v, target, e) ==
    /\ <<state[v], target>> \in ALLOWED_EDGES
    /\ target = "approved" => Passed(v, e)
    /\ target \notin {"revoked", "deprecated"} => v \in intact

\* The manifest fields _transition rewrites besides the state.
Recorded(v, target, e) ==
    /\ approval' = IF target = "approved" THEN [approval EXCEPT ![v] = e] ELSE approval
    /\ evidence' = IF Passed(v, e) THEN [evidence EXCEPT ![v] = @ \cup {e}] ELSE evidence

\* promote, to any state but production.
Promote(v, target, e) ==
    /\ target # "production"
    /\ ValidTransition(v, target, e)
    /\ state' = [state EXCEPT ![v] = target]
    /\ Recorded(v, target, e)
    /\ UNCHANGED <<current, previous, intact, evaluations, rollbacks>>

\* The incumbent can be deprecated; otherwise deployment_conflict.
InstallAllowed(v) ==
    LET incumbent == current[RegistryOf[v]] IN
    incumbent # None =>
        state[incumbent] = "production" /\ TenantsOf[incumbent] = TenantsOf[v]

\* Mutant of Install: the incumbent stays in production.
InstallBeside(v, e) ==
    LET r == RegistryOf[v] IN
    /\ ValidTransition(v, "production", e) /\ InstallAllowed(v)
    /\ state' = [state EXCEPT ![v] = "production"]
    /\ Recorded(v, "production", e)
    /\ current' = [current EXCEPT ![r] = v]
    /\ previous' = [previous EXCEPT ![r] = current[r]]
    /\ UNCHANGED <<intact, evaluations, rollbacks>>

\* promote to production: deprecate the incumbent and move the pointers.
Install(v, e) ==
    LET r == RegistryOf[v] IN
    /\ ValidTransition(v, "production", e) /\ InstallAllowed(v)
    /\ state' = [u \in Versions |-> IF u = v THEN "production"
                                     ELSE IF u = current[r] THEN "deprecated" ELSE state[u]]
    /\ Recorded(v, "production", e)
    /\ current' = [current EXCEPT ![r] = v]
    /\ previous' = [previous EXCEPT ![r] = current[r]]
    /\ UNCHANGED <<intact, evaluations, rollbacks>>

RollbackAllowed(r) ==
    LET p == previous[r] IN
    /\ p # None
    /\ state[current[r]] = "production"
    /\ state[p] = "deprecated" /\ approval[p] # None /\ p \in intact

\* rollback: swap the two versions; recorded approval suffices.
Rollback(r) ==
    /\ rollbacks < MaxRollbacks
    /\ RollbackAllowed(r)
    /\ state' = [v \in Versions |-> IF v = current[r] THEN "deprecated"
                                     ELSE IF v = previous[r] THEN "production" ELSE state[v]]
    /\ current' = [current EXCEPT ![r] = previous[r]]
    /\ previous' = [previous EXCEPT ![r] = current[r]]
    /\ rollbacks' = rollbacks + 1
    /\ UNCHANGED <<approval, evidence, intact, evaluations>>

\* complete: a training job registers its candidate.
Register(v) ==
    /\ state[v] = "absent"
    /\ state' = [state EXCEPT ![v] = "candidate"]
    /\ UNCHANGED <<approval, evidence, current, previous, intact, evaluations, rollbacks>>

\* Artifact files are damaged on disk.
Corrupt(v) ==
    /\ v \in intact /\ intact' = intact \ {v}
    /\ UNCHANGED <<models, evaluations, rollbacks>>

Next ==
    \/ \E w \in Runners, e \in Reports, c \in Candidates, compared \in BOOLEAN :
         Begin(w, e, c, compared)
    \/ \E w \in Runners : (\E passed \in BOOLEAN : Publish(w, passed)) \/ Abandon(w) \/ PublishCrash(w)
    \/ \E v \in Versions, e \in Reports \cup {None} :
         Install(v, e) \/ \E target \in Lifecycle : Promote(v, target, e)
    \/ \E r \in Deployments : Rollback(r)
    \/ \E v \in Versions : Register(v) \/ Corrupt(v)

Spec == Init /\ [][Next]_vars

-----------------------------------------------------------------------------
(* Properties *)

Serving(r) == {v \in Versions : RegistryOf[v] = r /\ state[v] = "production"}

\* A registry id serves at most one version, and it is the one its deployment
\* row points at, through promotions, rollbacks, retirements and revocations.
OneProduction == \A r \in Deployments : Serving(r) \subseteq {current[r]}

\* Both pointers name versions of the registry id that have served, and the
\* version kept for rollback is out of service and differs from the current.
PointersConsistent ==
    \A r \in Deployments :
        /\ current[r] # None => /\ RegistryOf[current[r]] = r
                                /\ state[current[r]] \in {"production", "deprecated", "revoked"}
        /\ previous[r] # None => /\ current[r] # None /\ previous[r] # current[r]
                                 /\ RegistryOf[previous[r]] = r
                                 /\ state[previous[r]] \in {"deprecated", "revoked"}

\* Every version past approval was approved on a committed, passed report of
\* itself, and unless it is a router that report was compared with a passed
\* foundation baseline.
ApprovedOnEvidence ==
    \A v \in Versions :
        state[v] \in {"approved", "shadow", "canary", "production", "deprecated"} =>
            LET e == approval[v] IN
            /\ e # None /\ e \in evidence[v]
            /\ report[e] # None /\ report[e].passed /\ report[e].candidate = v
            /\ v \notin Routers => /\ report[e].against # None
                                   /\ report[report[e].against] # None
                                   /\ report[report[e].against].passed
                                   /\ report[report[e].against].candidate = Foundation

\* The lock always names a committed, passed report of the foundation.
BaselinePassed ==
    baseline # None => /\ report[baseline] # None
                       /\ report[baseline].passed /\ report[baseline].candidate = Foundation

\* Baselines form a chain: a locking report was compared with the baseline it
\* replaces, so two concurrent relocks never both succeed.
BaselineChain ==
    [][baseline' # baseline => baseline' # None /\ report'[baseline'].against = baseline]_vars

\* Evidence is judged against the baseline locked when approval is asked for,
\* not the one locked when the report was made (_passed).
ApprovalIsCurrent ==
    [][\A v \in Versions : approval'[v] # approval[v] /\ v \notin Routers =>
          report[approval'[v]].against = baseline]_vars

\* "revoked is terminal", and a published report is never rewritten.
Terminal ==
    [][/\ \A v \in Versions : state[v] = "revoked" => state'[v] = "revoked"
       /\ \A e \in Reports : report[e] # None => report'[e] = report[e]]_vars

=============================================================================
