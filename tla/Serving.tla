------------------------------ MODULE Serving -------------------------------
(***************************************************************************)
(* Who acts on routing snapshots: the live planner (routing/live.py), the  *)
(* specialist loaders and the shadow worker (routing/shadow.py) of each    *)
(* gateway process.                                                        *)
(*                                                                         *)
(* A plan runs under the planner's lock: it takes a snapshot, refreshes    *)
(* its manifests when the snapshot is a new object, loads the candidates   *)
(* the router accepts, and takes a second snapshot before it commits to a  *)
(* specialist.  The worker takes queued answers of the foundation one by   *)
(* one, checks the controls, loads, checks again and generates.  Control   *)
(* changes and registry transitions fall between any two of these steps.   *)
(* What the router estimates, whether a breaker admits and whether a model *)
(* fits the request are free choices.                                      *)
(***************************************************************************)
EXTENDS Routing

CONSTANTS
    Demands,        \* {tenant, task} of the requests
    Works,          \* answers of the foundation that may be shadowed
    Capacity,       \* of the shadow queue
    CacheLimit      \* 8 loaded specialists

ASSUME ServingAssumption ==
    /\ Demands \subseteq SUBSET Scopes
    /\ Capacity \in Nat \ {0} /\ CacheLimit \in Nat \ {0}

VARIABLES
    keyed,       \* the planner's manifests belong to the snapshot in the cache
    manifests,   \* the planner's copy of the registry states
    loaded,      \* the live loader's _cache, most recent last
    planner,     \* the plan under way in each process
    work,        \* where each answer is on its way through the worker
    queue,       \* the shadow queue of each process
    worker,      \* what the shadow worker of each process does
    stopping     \* processes whose worker has been told to stop

planning == <<keyed, manifests, loaded, planner>>
shadowing == <<work, queue, worker, stopping>>
vars == <<routes, planning, shadowing>>

Idle == [at |-> "idle"]
Ending == [at |-> "ending"]   \* a worker whose loop sees that it should stop

\* gone is history: versions that left the states this step may use since it
\* began.
Plans ==
    [at : {"loading"}, row : Rows, demand : Demands, ready : SUBSET Versions,
     todo : SUBSET Versions, gone : SUBSET Versions] \cup
    [at : {"planned"}, version : Versions, gone : SUBSET Versions]
Shadows ==
    [at : {"taken"}, work : Works] \cup
    [at : {"choosing"}, work : Works, row : Rows, todo : SUBSET Versions] \cup
    [at : {"loaded"}, work : Works, row : Rows, todo : SUBSET Versions, version : Versions] \cup
    [at : {"generating"}, work : Works, version : Versions]

\* An answer as ShadowWork carries it, and the snapshot submit holds for it.
WorkRows ==
    [at : {"new", "done"}] \cup
    [at : {"answered", "queued"}, by : Processes, policy : Policies, demand : Demands] \cup
    [at : {"submitted"}, by : Processes, policy : Policies, demand : Demands, row : Rows]

TypeOK ==
    /\ RoutesTypeOK
    /\ keyed \subseteq Processes
    /\ manifests \in [Processes -> [Models -> Lifecycle]]
    /\ loaded \in [Processes -> Seq(Versions)]
    /\ planner \in [Processes -> Plans \cup {Idle}]
    /\ work \in [Works -> WorkRows]
    /\ queue \in [Processes -> Seq(Works)]
    /\ worker \in [Processes -> Shadows \cup {Idle, Ending, [at |-> "stopped"]}]
    /\ stopping \subseteq Processes

Init ==
    /\ RoutesInit
    /\ keyed = {}
    /\ manifests = [p \in Processes |-> lifecycle]
    /\ loaded = [p \in Processes |-> <<>>]
    /\ planner = [p \in Processes |-> Idle]
    /\ work = [w \in Works |-> [at |-> "new"]]
    /\ queue = [p \in Processes |-> <<>>]
    /\ worker = [p \in Processes |-> Idle]
    /\ stopping = {}

\* RouteSnapshot.enabled
Enabled(r, demand) ==
    /\ r.policy # None
    /\ ~r.killed /\ ~Policy[r.policy].killed
    /\ demand \cap r.disabled = {}
    /\ demand \subseteq Policy[r.policy].on

-----------------------------------------------------------------------------
(* The live planner *)

Serveable == {"canary", "production"}

\* The versions _live still considers after the rejections that depend on
\* control state.  S: the registry states the manifests give.
Considered(r, S) ==
    {v \in Policy[r.policy].eligible \ r.disabled :
        S[v] \in Serveable /\ ~(S[v] = "canary" /\ Policy[r.policy].expanded)}

\* plan and _live up to the loads: a snapshot, _refresh_manifests when the
\* snapshot is not the one the manifests were read for, and the candidates
\* the router's estimates, the breakers and the assignment leave.  A plan that
\* finds nothing to consider is a foundation plan and changes only the
\* manifests.
PlanSnapshot(p, demand) ==
    LET r == cache[p].row
        S == IF p \in keyed THEN manifests[p] ELSE lifecycle
    IN  /\ planner[p] = Idle /\ Serves(p)
        /\ Enabled(r, demand) /\ Policy[r.policy].live
        /\ manifests' = [manifests EXCEPT ![p] = S]
        /\ keyed' = keyed \cup {p}
        /\ \E C \in SUBSET Considered(r, S) :
              planner' = [planner EXCEPT ![p] =
                 IF S[Policy[r.policy].router] # "approved" \/ C = {} THEN Idle
                 ELSE [at |-> "loading", row |-> r, demand |-> demand, ready |-> {},
                       todo |-> C, gone |-> {}]]
        /\ UNCHANGED <<routes, loaded, shadowing>>

\* The loader's cache after a hit or a new entry for v: the least recently
\* used entry makes room.
Touched(s, v) ==
    LET t == Append(SelectSeq(s, LAMBDA x : x # v), v)
    IN  IF Len(t) > CacheLimit THEN Tail(t) ELSE t
Evicted(s, v) == SelectSeq(s, LAMBDA x : x # v)

\* Mutant of MayLoad: a cached specialist is returned without asking the
\* registry.
MayLoadCached(p, v) == lifecycle[v] \in Serveable \/ \E k \in 1..Len(loaded[p]) : loaded[p][k] = v

\* The registry admits v when the loader asks; it asks before it uses its cache.
MayLoad(p, v) == lifecycle[v] \in Serveable

\* RegistrySpecialists.load for one candidate.  A version the registry no
\* longer admits is evicted and the exception ends the plan: plan forgets its
\* snapshot and falls back to the foundation.
PlanLoad(p, v) ==
    LET m == planner[p] IN
    /\ m.at = "loading" /\ v \in m.todo
    /\ IF MayLoad(p, v)
       THEN /\ loaded' = [loaded EXCEPT ![p] = Touched(@, v)]
            /\ planner' = [planner EXCEPT ![p] = [m EXCEPT !.todo = @ \ {v}, !.ready = @ \cup {v}]]
            /\ UNCHANGED keyed
       ELSE /\ loaded' = [loaded EXCEPT ![p] = Evicted(@, v)]
            /\ planner' = [planner EXCEPT ![p] = Idle]
            /\ keyed' = keyed \ {p}
    /\ UNCHANGED <<routes, manifests, shadowing>>

\* What the second snapshot must say for the plan to keep its candidates.
Allowed(p) ==
    /\ cache[p].row.policy = planner[p].row.policy
    /\ Enabled(cache[p].row, planner[p].demand)

Kept(p) == planner[p].ready \ cache[p].row.disabled

\* The end of _live: at most one specialist, then the foundation.
PlanFinish(p) ==
    /\ planner[p].at = "loading" /\ planner[p].todo = {} /\ Serves(p)
    /\ planner' = [planner EXCEPT ![p] =
          IF Allowed(p) /\ Kept(p) # {}
          THEN [at |-> "planned", version |-> CHOOSE v \in Kept(p) : TRUE, gone |-> @.gone]
          ELSE Idle]
    /\ UNCHANGED <<routes, keyed, manifests, loaded, shadowing>>

\* An exception anywhere in _live: an artifact that does not verify, or a
\* router whose state changed during its cold load.
PlanFails(p) ==
    /\ planner[p].at = "loading"
    /\ planner' = [planner EXCEPT ![p] = Idle]
    /\ keyed' = keyed \ {p}
    /\ UNCHANGED <<routes, manifests, loaded, shadowing>>

\* The request takes its plan and releases the planner.
PlanTaken(p) ==
    /\ planner[p].at = "planned"
    /\ planner' = [planner EXCEPT ![p] = Idle]
    /\ UNCHANGED <<routes, keyed, manifests, loaded, shadowing>>

-----------------------------------------------------------------------------
(* Submitting answers to the shadow worker *)

Done == [at |-> "done"]

\* The foundation answered a request planned under the policy of a snapshot.
Answer(p, w, demand) ==
    /\ work[w].at = "new" /\ Serves(p) /\ cache[p].row.policy # None
    /\ work' = [work EXCEPT ![w] = [at |-> "answered", by |-> p, demand |-> demand,
                                    policy |-> cache[p].row.policy]]
    /\ UNCHANGED <<routes, planning, queue, worker, stopping>>

\* submit, up to its first await: the policy must still be the one the answer
\* was planned under.
Submit(w) ==
    LET a == work[w]
        r == cache[a.by].row
    IN  /\ a.at = "answered" /\ Serves(a.by)
        /\ work' = [work EXCEPT ![w] =
              IF r.policy = a.policy /\ Policy[r.policy].shadow /\ Policy[r.policy].eligible # {}
                 /\ a.demand \subseteq Policy[r.policy].on
              THEN [at |-> "submitted", by |-> a.by, policy |-> a.policy, demand |-> a.demand,
                    row |-> r]
              ELSE Done]
        /\ UNCHANGED <<routes, planning, queue, worker, stopping>>

\* Mutant of Droppable: a worker that was told to stop is noticed only by its
\* loop.
DroppableLate(w) == ~Enabled(work[w].row, work[w].demand)

\* submit after observe: the reasons to drop.
Droppable(w) == work[w].by \in stopping \/ ~Enabled(work[w].row, work[w].demand)

\* The rest of submit.  healthy: some breaker is available.  put_nowait never
\* waits: a full queue drops the answer.
Enqueue(w, healthy) ==
    LET a == work[w]
        p == a.by
        kept == healthy /\ ~Droppable(w) /\ Len(queue[p]) < Capacity
    IN  /\ a.at = "submitted"
        /\ queue' = [queue EXCEPT ![p] = IF kept THEN Append(@, w) ELSE @]
        /\ work' = [work EXCEPT ![w] =
              IF kept THEN [at |-> "queued", by |-> p, policy |-> a.policy, demand |-> a.demand]
              ELSE Done]
        /\ UNCHANGED <<routes, planning, worker, stopping>>

-----------------------------------------------------------------------------
(* The shadow worker *)

\* The end of _process; run goes back to wait, or sees that it should stop.
Settled(p) ==
    /\ work' = [work EXCEPT ![worker[p].work] = Done]
    /\ worker' = [worker EXCEPT ![p] = IF p \in stopping THEN Ending ELSE Idle]

\* run: the loop waits and takes the oldest answer, also one that arrived before
\* a stop during the wait.
Take(p) ==
    /\ worker[p] = Idle /\ queue[p] # <<>>
    /\ worker' = [worker EXCEPT ![p] = [at |-> "taken", work |-> Head(queue[p])]]
    /\ queue' = [queue EXCEPT ![p] = Tail(@)]
    /\ UNCHANGED <<routes, planning, work, stopping>>

\* _process: the controls as they are now, not as they were when the answer
\* was submitted.
Check(p) ==
    LET m == worker[p]
        a == work[m.work]
        r == cache[p].row
    IN  /\ m.at = "taken" /\ Serves(p)
        /\ IF r.policy = a.policy /\ Policy[r.policy].shadow /\ Enabled(r, a.demand)
           THEN /\ worker' = [worker EXCEPT ![p] =
                     [at |-> "choosing", work |-> m.work, row |-> r,
                      todo |-> Policy[r.policy].eligible \ r.disabled]]
                /\ UNCHANGED work
           ELSE Settled(p)
        /\ UNCHANGED <<routes, planning, queue, stopping>>

\* The loop over the versions: one that has no breaker open (healthy) and that
\* the registry has in shadow is loaded, any other is skipped.
Choose(p, v, healthy) ==
    LET m == worker[p] IN
    /\ m.at = "choosing" /\ v \in m.todo
    /\ worker' = [worker EXCEPT ![p] =
          IF healthy /\ lifecycle[v] = "shadow"
          THEN [at |-> "loaded", work |-> m.work, row |-> m.row, todo |-> m.todo \ {v},
                version |-> v]
          ELSE [at |-> "choosing", work |-> m.work, row |-> m.row, todo |-> m.todo \ {v}]]
    /\ UNCHANGED <<routes, planning, work, queue, stopping>>

\* No version was left: dropped as unhealthy.
Unhealthy(p) ==
    /\ worker[p].at = "choosing" /\ worker[p].todo = {}
    /\ Settled(p)
    /\ UNCHANGED <<routes, planning, queue, stopping>>

\* Mutant of StillAllowed: the controls are not read again after the load.
StillAllowedEarly(p) == TRUE

\* "Recheck controls after potentially slow model loading."
StillAllowed(p) ==
    LET m == worker[p]
        r == cache[p].row
    IN  r.policy = m.row.policy /\ Enabled(r, work[m.work].demand) /\ m.version \notin r.disabled

\* The recheck, the region, and the breaker's acquire (admitted).
Recheck(p, admitted) ==
    LET m == worker[p] IN
    /\ m.at = "loaded" /\ Serves(p)
    /\ \/ /\ ~StillAllowed(p)
          /\ Settled(p)
       \/ /\ StillAllowed(p)
          /\ worker' = [worker EXCEPT ![p] =
                IF admitted THEN [at |-> "generating", work |-> m.work, version |-> m.version]
                ELSE [at |-> "choosing", work |-> m.work, row |-> m.row, todo |-> m.todo]]
          /\ UNCHANGED work
    /\ UNCHANGED <<routes, planning, queue, stopping>>

\* The attempt ended and, unless the interaction was deleted, was saved and
\* compared; an exception at any point ends in the same place.
Generated(p) ==
    /\ worker[p].at \in {"taken", "choosing", "loaded", "generating"}
    /\ Settled(p)
    /\ UNCHANGED <<routes, planning, queue, stopping>>

\* stop, and the end of run: the loop has ended and what is queued is dropped.
Stop(p) ==
    /\ p \notin stopping
    /\ stopping' = stopping \cup {p}
    /\ UNCHANGED <<routes, planning, work, queue, worker>>
Drain(p) ==
    /\ worker[p] \in {Idle, Ending} /\ p \in stopping
    /\ work' = [w \in Works |-> IF \E k \in 1..Len(queue[p]) : queue[p][k] = w THEN Done ELSE work[w]]
    /\ queue' = [queue EXCEPT ![p] = <<>>]
    /\ worker' = [worker EXCEPT ![p] = [at |-> "stopped"]]
    /\ UNCHANGED <<routes, planning, stopping>>

-----------------------------------------------------------------------------
\* Registry transitions; the evidence they need is in Canary.
Move(v, target) ==
    /\ Transition(v, target, TRUE)
    /\ planner' = [p \in Processes |->
          IF planner[p] # Idle /\ target \notin Serveable
          THEN [planner[p] EXCEPT !.gone = @ \cup {v}] ELSE planner[p]]
    /\ UNCHANGED <<keyed, manifests, loaded, shadowing>>

\* A refresh makes a new snapshot object, which the manifests do not belong to.
Refresh(p) == Publish(p) /\ keyed' = keyed \ {p} /\ UNCHANGED <<manifests, loaded, planner, shadowing>>

Planning(p) ==
    \/ \E demand \in Demands : PlanSnapshot(p, demand)
    \/ \E v \in Versions : PlanLoad(p, v)
    \/ PlanFinish(p) \/ PlanFails(p) \/ PlanTaken(p)

Working(p) ==
    \/ Check(p) \/ Unhealthy(p) \/ Generated(p)
    \/ \E v \in Versions, healthy \in BOOLEAN : Choose(p, v, healthy)
    \/ \E admitted \in BOOLEAN : Recheck(p, admitted)

Next ==
    \/ \E q \in Policies : create(q) /\ UNCHANGED <<planning, shadowing>>
    \/ \E p \in Processes : (Operate(p) \/ Return(p) \/ Read(p)) /\ UNCHANGED <<planning, shadowing>>
    \/ \E p \in Processes : Refresh(p)
    \/ Tick /\ UNCHANGED <<planning, shadowing>>
    \/ \E v \in Models, target \in Lifecycle : Move(v, target)
    \/ \E p \in Processes : Planning(p)
    \/ \E p \in Processes, w \in Works, demand \in Demands : Answer(p, w, demand)
    \/ \E w \in Works, healthy \in BOOLEAN : Submit(w) \/ Enqueue(w, healthy)
    \/ \E p \in Processes : Take(p) \/ Working(p) \/ Stop(p) \/ Drain(p)

Spec == Init /\ [][Next]_vars

-----------------------------------------------------------------------------
(* Properties *)

\* No specialist is committed to, live or in shadow, against a control this
\* process has answered for and that is still in force: both re-read the
\* controls after the slow load.
ControlsRespected ==
    [][\A p \in Processes :
          /\ planner[p].at = "loading" /\ planner'[p].at = "planned" =>
                ({"killed", planner'[p].version} \cup planner[p].demand) \cap firm[p] = {}
          /\ worker[p].at = "loaded" /\ worker'[p].at = "generating" =>
                ({"killed", worker[p].version} \cup work[worker[p].work].demand) \cap firm[p] = {}
      ]_vars

\* A specialist that left canary and production before a plan began is not in
\* that plan, although the snapshot, the manifests and the loaded specialists
\* are all cached.
RevokedIsNotPlanned ==
    \A p \in Processes : planner[p].at = "planned" =>
        lifecycle[planner[p].version] \in Serveable \/ planner[p].version \in planner[p].gone

\* A stopped worker leaves nothing behind: no answer is put in its queue after
\* the queue was drained.
NothingStranded ==
    \A p \in Processes : worker[p].at = "stopped" => queue[p] = <<>>
=============================================================================
