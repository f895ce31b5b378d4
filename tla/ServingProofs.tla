---------------------------- MODULE ServingProofs ----------------------------
(***************************************************************************)
(* The properties of Serving for any processes, policies, specialists,     *)
(* requests, lifetimes and bounds.                                         *)
(*                                                                         *)
(* Everything rests on what a cached snapshot may miss.  The store's _lock *)
(* keeps an invalidation out of a refresh, so a copy, cached or being      *)
(* read, holds every control this process has answered for (OwnInv); and a *)
(* copy that misses a change is at most as old as the refresh that read it *)
(* and the part of its lifetime that has passed (AgeInv).                  *)
(***************************************************************************)
EXTENDS Serving, TLAPS

AnyCopies == [row : Rows, late : Int]
Controls == Scopes \cup Policies \cup {None, "killed"}

CopiesOK ==
    /\ row \in Rows
    /\ lifecycle \in [Models -> Lifecycle]
    /\ cache \in [Processes -> AnyCopies]
    /\ left \in [Processes -> 0..TTL]
    /\ reading \in [Processes -> AnyCopies \cup {None}]
    /\ slow \in [Processes -> 0..ReadTicks]
    /\ firm \in [Processes -> SUBSET Controls]

\* No copy that may still be handed out lacks a control of this process.
OwnInv ==
    \A p \in Processes :
        /\ firm[p] \subseteq InForce(row)
        /\ reading[p] # None => firm[p] \subseteq InForce(reading[p].row)
        /\ left[p] > 0 => firm[p] \subseteq InForce(cache[p].row)

\* How long a copy has missed a change.
AgeInv ==
    \A p \in Processes :
        /\ reading[p] # None => reading[p].late <= slow[p]
        /\ left[p] > 0 => cache[p].late <= ReadTicks + TTL - left[p]

RoutesInv == CopiesOK /\ OwnInv /\ AgeInv

Loading == [at : {"loading"}, row : Rows, demand : Demands, ready : SUBSET Models,
            todo : SUBSET Models, gone : SUBSET Models]
Planned == [at : {"planned"}, version : Models, gone : SUBSET Models]
PlannerOK == planner \in [Processes -> Loading \cup Planned \cup {Idle}]

\* What a plan has loaded served when it was loaded, and still does unless it
\* left since the plan began.
ReadyInv ==
    \A p \in Processes : planner[p].at = "loading" =>
        \A v \in planner[p].ready : lifecycle[v] \in Serveable \/ v \in planner[p].gone

\* A stopped worker was told to stop, so submit drops what comes later.
WorkerInv ==
    /\ worker = [p \in Processes |-> worker[p]]
    /\ queue = [p \in Processes |-> queue[p]]
    /\ \A p \in Processes :
          /\ worker[p].at = "stopped" => p \in stopping /\ queue[p] = <<>>
          /\ worker[p].at = "loaded" => worker[p].version \in Versions

ServingInv == RoutesInv /\ PlannerOK /\ ReadyInv /\ RevokedIsNotPlanned /\ WorkerInv

-----------------------------------------------------------------------------
(* The store *)

\* The controls a row puts in force.
LEMMA InForceType == \A r \in Rows : InForce(r) \in SUBSET Controls
  BY DEF Rows, InForce, Controls

\* A copy read now, and the copy that is none.
LEMMA CurrentType == \A r \in Rows : Current(r) \in AnyCopies /\ NoCopy \in AnyCopies
<1>1. NoPointer \in Rows
  BY DEF NoPointer, Rows
<1> QED
  BY <1>1 DEF Current, NoCopy, AnyCopies

\* A copy keeps its row while it ages and while the row moves on.
LEMMA CopyAges ==
    ASSUME NEW c \in AnyCopies
    PROVE  /\ Later(c) \in AnyCopies /\ Later(c).row = c.row
           /\ Later(c).late \in {c.late, c.late + 1}
           /\ c.late = -1 => Later(c).late = -1
  BY RoutingAssumption DEF Later, AnyCopies

\* A copy keeps its row when a commit makes it out of date.
LEMMA CopyOutdated ==
    ASSUME NEW c \in AnyCopies, NEW r \in Rows
    PROVE  /\ Outdated(c, r) \in AnyCopies /\ Outdated(c, r).row = c.row
           /\ Outdated(c, r).late \in {c.late, 0}
  BY DEF Outdated, AnyCopies

\* A committed change: what it takes out of force is no longer firm.
LEMMA CommitStep ==
    ASSUME RoutesInv, NEW r \in Rows, Committed(r)
    PROVE  RoutesInv'
<1> USE DEF RoutesInv
<1>1. CopiesOK'
  BY CopyOutdated, CurrentType DEF Committed, CopiesOK
<1>2. ASSUME NEW p \in Processes
      PROVE  /\ reading[p] # None => reading'[p].row = reading[p].row
             /\ left[p] > 0 => cache'[p].row = cache[p].row
             /\ reading[p] = None => reading'[p] = None
             /\ firm'[p] = firm[p] \cap InForce(r)
  BY CopyOutdated DEF Committed, CopiesOK
<1>3. OwnInv'
  BY <1>2 DEF OwnInv, Committed
<1>4. ASSUME NEW p \in Processes
      PROVE  /\ reading[p] # None => reading'[p].late \in {reading[p].late, 0}
             /\ left[p] > 0 => cache'[p].late \in {cache[p].late, 0}
  BY CopyOutdated DEF Committed, CopiesOK
<1>5. AgeInv'
  BY <1>2, <1>4, RoutingAssumption DEF AgeInv, Committed, CopiesOK
<1> QED
  BY <1>1, <1>3, <1>5

\* An invalidation: it waits for a refresh under way, and leaves no copy.
LEMMA ReturnStep ==
    ASSUME RoutesInv, NEW p \in Processes, Return(p)
    PROVE  RoutesInv'
<1> USE DEF RoutesInv
<1>1. CopiesOK'
  BY InForceType, CurrentType, RoutingAssumption DEF Return, Dropped, CopiesOK, control
<1>2. OwnInv'
  BY RoutingAssumption DEF Return, Dropped, CopiesOK, control, OwnInv
<1>3. AgeInv'
  BY RoutingAssumption DEF Return, Dropped, CopiesOK, control, AgeInv
<1> QED
  BY <1>1, <1>2, <1>3

\* A refresh reads the row: it has every control in force.
LEMMA ReadStep ==
    ASSUME RoutesInv, NEW p \in Processes, Read(p)
    PROVE  RoutesInv'
<1> USE DEF RoutesInv
<1>1. CopiesOK'
  BY CurrentType DEF Read, CopiesOK, control
<1>2. Current(row).row = row /\ Current(row).late = -1
  BY DEF Current
<1>3. OwnInv'
  BY <1>2 DEF Read, CopiesOK, control, OwnInv
<1>4. AgeInv'
  BY <1>2, RoutingAssumption DEF Read, CopiesOK, control, AgeInv
<1> QED
  BY <1>1, <1>3, <1>4

\* A refresh ends: what it read becomes the cached snapshot.
LEMMA PublishStep ==
    ASSUME RoutesInv, NEW p \in Processes, Publish(p)
    PROVE  RoutesInv'
<1> USE DEF RoutesInv
<1>1. reading[p] \in AnyCopies
  BY DEF Publish, CopiesOK
<1>2. CopiesOK'
  BY <1>1, RoutingAssumption DEF Publish, CopiesOK, control
<1>3. OwnInv'
  BY <1>1 DEF Publish, CopiesOK, control, OwnInv
<1>4. AgeInv'
  BY <1>1, RoutingAssumption DEF Publish, CopiesOK, control, AgeInv, AnyCopies
<1> QED
  BY <1>2, <1>3, <1>4

\* Time passes: copies age no faster than their lifetime runs out.
LEMMA TickStep ==
    ASSUME RoutesInv, Tick
    PROVE  RoutesInv'
<1> USE DEF RoutesInv
<1>1. \A p \in Processes : Remaining(p) \in 0..TTL /\ (Remaining(p) > 0 => left[p] = Remaining(p) + 1)
  BY RoutingAssumption DEF Remaining, CopiesOK
<1>2. CopiesOK'
  BY <1>1, CopyAges, CurrentType, RoutingAssumption DEF Tick, CopiesOK, control
<1>3. ASSUME NEW p \in Processes
      PROVE  /\ reading'[p] # None => reading[p] # None /\ reading'[p] = Later(reading[p])
                                      /\ slow'[p] = slow[p] + 1
             /\ left'[p] > 0 => left[p] = left'[p] + 1 /\ cache'[p] = Later(cache[p])
  BY <1>1 DEF Tick, CopiesOK
<1>4. ASSUME NEW p \in Processes
      PROVE  /\ reading'[p] # None => reading'[p].row = reading[p].row
             /\ left'[p] > 0 => cache'[p].row = cache[p].row
  BY <1>3, CopyAges DEF CopiesOK
<1>5. OwnInv'
  <2>1. firm' = firm /\ row' = row
    BY DEF Tick, control
  <2>2. \A p \in Processes : left'[p] > 0 => left[p] > 0
    BY <1>2, <1>3, RoutingAssumption DEF CopiesOK
  <2> QED
    BY <1>3, <1>4, <2>1, <2>2 DEF OwnInv
<1>6. ASSUME NEW p \in Processes, reading'[p] # None
      PROVE  reading'[p].late <= slow'[p]
  <2>1. reading[p] \in AnyCopies /\ slow[p] \in Nat /\ reading[p].late <= slow[p]
    BY <1>3, <1>6, RoutingAssumption DEF CopiesOK, AgeInv
  <2> QED
    BY <1>3, <1>6, <2>1, CopyAges DEF AnyCopies
<1>7. ASSUME NEW p \in Processes, left'[p] > 0
      PROVE  cache'[p].late <= ReadTicks + TTL - left'[p]
  <2>1. cache[p] \in AnyCopies /\ left'[p] \in Nat /\ left[p] = left'[p] + 1
    BY <1>2, <1>3, <1>7, RoutingAssumption DEF CopiesOK
  <2>2. cache[p].late <= ReadTicks + TTL - left[p]
    BY <2>1 DEF AgeInv
  <2>3. cache'[p].late \in {cache[p].late, cache[p].late + 1} /\ cache[p].late \in Int
    BY <1>3, <1>7, <2>1, CopyAges DEF AnyCopies
  <2> QED
    BY <2>1, <2>2, <2>3, RoutingAssumption
<1> QED
  BY <1>2, <1>5, <1>6, <1>7 DEF AgeInv

\* The rows operators write.
LEMMA OperateStep ==
    ASSUME RoutesInv, NEW p \in Processes, Operate(p)
    PROVE  RoutesInv'
<1>1. ASSUME NEW q \in Policies, activate(p, q) PROVE RoutesInv'
  <2>1. [row EXCEPT !.policy = q] \in Rows
    BY DEF RoutesInv, CopiesOK, Rows
  <2> QED
    BY <1>1, <2>1, CommitStep DEF activate, Ordered
<1>2. ASSUME NEW scope \in Scopes, NEW off \in BOOLEAN, switch(p, scope, off) PROVE RoutesInv'
  <2> DEFINE D == IF off THEN row.disabled \cup {scope} ELSE row.disabled \ {scope}
  <2>1. D \in SUBSET Scopes
    BY DEF RoutesInv, CopiesOK, Rows
  <2>2. [row EXCEPT !.disabled = D] \in Rows
    BY <2>1 DEF RoutesInv, CopiesOK, Rows
  <2> QED
    BY <1>2, <2>2, CommitStep DEF switch, Ordered
<1>3. ASSUME NEW off \in BOOLEAN, switch_all(p, off) PROVE RoutesInv'
  <2>1. [row EXCEPT !.killed = off] \in Rows
    BY DEF RoutesInv, CopiesOK, Rows
  <2> QED
    BY <1>3, <2>1, CommitStep DEF switch_all, Ordered
<1> QED
  BY <1>1, <1>2, <1>3 DEF Operate

\* A registry transition, and the creation of a policy, leave every copy alone.
LEMMA RegistryStep ==
    ASSUME RoutesInv,
           (\E q \in Policies : create(q)) \/
           (\E v \in Models, target \in Lifecycle : Transition(v, target, TRUE))
    PROVE  RoutesInv'
<1>1. UNCHANGED <<row, cache, left, reading, slow, firm>> /\ lifecycle' \in [Models -> Lifecycle]
  BY DEF create, Transition, caches, RoutesInv, CopiesOK
<1> QED
  BY <1>1 DEF RoutesInv, CopiesOK, OwnInv, AgeInv

\* Nothing else touches the store.
StoreStep ==
    \/ \E q \in Policies : create(q)
    \/ \E p \in Processes : Operate(p) \/ Return(p) \/ Read(p) \/ Publish(p)
    \/ Tick
    \/ \E v \in Models, target \in Lifecycle : Transition(v, target, TRUE)

\* Every step of the store keeps what its copies may miss.
LEMMA StoreInvariant ==
    ASSUME RoutesInv, StoreStep \/ UNCHANGED routes
    PROVE  RoutesInv'
<1>1. CASE UNCHANGED routes
  BY <1>1 DEF routes, control, caches, RoutesInv, CopiesOK, OwnInv, AgeInv
<1> QED
  BY <1>1, OperateStep, ReturnStep, ReadStep, PublishStep, TickStep, RegistryStep DEF StoreStep

-----------------------------------------------------------------------------
(* The planner *)

\* What a plan or a shadow attempt is refused for is in the snapshot it reads.
LEMMA Enforced ==
    ASSUME RoutesInv, NEW p \in Processes, Serves(p), NEW v \in Models, NEW demand,
           Enabled(cache[p].row, demand), v \notin cache[p].row.disabled
    PROVE  ({"killed", v} \cup demand) \cap firm[p] = {}
<1> DEFINE r == cache[p].row
<1>1. r \in Rows /\ left[p] > 0
  BY DEF Serves, RoutesInv, CopiesOK, AnyCopies
<1>2. firm[p] \subseteq InForce(r)
  BY <1>1 DEF RoutesInv, OwnInv
<1>3. r.policy \in Policies /\ ~r.killed /\ demand \cap r.disabled = {}
      /\ demand \subseteq Policy[r.policy].on
  BY <1>1 DEF Enabled, Rows
<1>4. demand \subseteq Scopes /\ r.disabled \subseteq Scopes
  BY <1>1, <1>3, RoutingAssumption DEF PolicyRecords, Rows
<1>5. InForce(r) = r.disabled \cup {r.policy}
  BY <1>3 DEF InForce
<1>6. "killed" \notin InForce(r)
  BY <1>3, <1>4, <1>5, RoutingAssumption
<1>7. v \notin InForce(r)
  BY <1>3, <1>5, RoutingAssumption
<1>8. demand \cap InForce(r) = {}
  BY <1>3, <1>4, <1>5, RoutingAssumption
<1> QED
  BY <1>2, <1>6, <1>7, <1>8

\* The steps of a plan.
LEMMA PlanningStep ==
    ASSUME ServingInv, NEW p \in Processes, Planning(p)
    PROVE  PlannerOK' /\ ReadyInv' /\ RevokedIsNotPlanned'
<1> USE DEF ServingInv
<1>0. lifecycle' = lifecycle
  BY DEF Planning, PlanSnapshot, PlanLoad, PlanFinish, PlanFails, PlanTaken, routes, control
<1> DEFINE Sound(x) ==
        \/ x = Idle
        \/ x \in Loading /\ \A v \in x.ready : lifecycle[v] \in Serveable \/ v \in x.gone
        \/ x \in Planned /\ (lifecycle[x.version] \in Serveable \/ x.version \in x.gone)
<1>1. \E x : planner' = [planner EXCEPT ![p] = x] /\ Sound(x)
  <2>1. ASSUME NEW demand \in Demands, PlanSnapshot(p, demand) PROVE \E x : planner' = [planner EXCEPT ![p] = x] /\ Sound(x)
    <3> DEFINE r == cache[p].row
               S == IF p \in keyed THEN manifests[p] ELSE lifecycle
    <3>1. r \in Rows /\ Policy[r.policy] \in PolicyRecords
      BY <2>1, RoutingAssumption DEF PlanSnapshot, Enabled, RoutesInv, CopiesOK, AnyCopies, Rows
    <3>2. PICK C \in SUBSET Considered(r, S) : planner' = [planner EXCEPT ![p] =
                 IF S[Policy[r.policy].router] # "approved" \/ C = {} THEN Idle
                 ELSE [at |-> "loading", row |-> r, demand |-> demand, ready |-> {},
                       todo |-> C, gone |-> {}]]
      BY <2>1 DEF PlanSnapshot
    <3>3. C \in SUBSET Models
      BY <3>1 DEF Considered, PolicyRecords
    <3> DEFINE x == [at |-> "loading", row |-> r, demand |-> demand, ready |-> {},
                     todo |-> C, gone |-> {}]
    <3>4. x \in Loading /\ x.ready = {}
      BY <3>1, <3>3 DEF Loading
    <3>5. CASE S[Policy[r.policy].router] # "approved" \/ C = {}
      BY <3>2, <3>5
    <3>6. CASE ~(S[Policy[r.policy].router] # "approved" \/ C = {})
      BY <3>2, <3>4, <3>6
    <3> QED
      BY <3>5, <3>6
  <2>2. ASSUME NEW v \in Versions, PlanLoad(p, v) PROVE \E x : planner' = [planner EXCEPT ![p] = x] /\ Sound(x)
    <3>1. planner[p] \in Loading /\ v \in Models
      BY <2>2 DEF PlanLoad, PlannerOK, Loading, Planned, Idle, Models
    <3>2. CASE MayLoad(p, v)
      <4> DEFINE x == [planner[p] EXCEPT !.todo = @ \ {v}, !.ready = @ \cup {v}]
      <4>1. planner' = [planner EXCEPT ![p] = x]
        BY <2>2, <3>2 DEF PlanLoad
      <4>2. /\ x \in Loading
            /\ x.ready = planner[p].ready \cup {v} /\ x.gone = planner[p].gone
        BY <3>1 DEF Loading
      <4>3. \A u \in planner[p].ready : lifecycle[u] \in Serveable \/ u \in planner[p].gone
        BY <3>1 DEF ReadyInv, Loading
      <4> QED
        BY <3>2, <4>1, <4>2, <4>3 DEF MayLoad
    <3>3. CASE ~MayLoad(p, v)
      BY <2>2, <3>3 DEF PlanLoad
    <3> QED
      BY <3>2, <3>3
  <2>3. CASE PlanFinish(p)
    <3>1. planner[p] \in Loading
      BY <2>3 DEF PlanFinish, PlannerOK, Loading, Planned, Idle
    <3>2. CASE Allowed(p) /\ Kept(p) # {}
      <4> DEFINE w == CHOOSE v \in Kept(p) : TRUE
                 x == [at |-> "planned", version |-> w, gone |-> planner[p].gone]
      <4>1. w \in planner[p].ready
        BY <3>2 DEF Kept
      <4>2. planner' = [planner EXCEPT ![p] = x]
        BY <2>3, <3>2 DEF PlanFinish
      <4>3. x \in Planned /\ x.version = w /\ x.gone = planner[p].gone
        BY <3>1, <4>1 DEF Loading, Planned
      <4>4. lifecycle[w] \in Serveable \/ w \in planner[p].gone
        BY <3>1, <4>1 DEF ReadyInv, Loading
      <4>5. Sound(x)
        BY <4>3, <4>4
      <4> HIDE DEF x
      <4> QED
        BY <4>2, <4>5
    <3>3. CASE ~(Allowed(p) /\ Kept(p) # {})
      BY <2>3, <3>3 DEF PlanFinish
    <3> QED
      BY <3>2, <3>3
  <2>4. CASE PlanFails(p) \/ PlanTaken(p)
    BY <2>4 DEF PlanFails, PlanTaken
  <2> QED
    BY <2>1, <2>2, <2>3, <2>4 DEF Planning
<1>2. PlannerOK'
  BY <1>1 DEF PlannerOK
<1>3. ReadyInv'
  BY <1>0, <1>1 DEF PlannerOK, ReadyInv, Loading, Planned, Idle
<1>4. RevokedIsNotPlanned'
  BY <1>0, <1>1 DEF PlannerOK, RevokedIsNotPlanned, Loading, Planned, Idle
<1> QED
  BY <1>2, <1>3, <1>4

\* A registry transition: a plan under way notes what left.
LEMMA MoveStep ==
    ASSUME ServingInv, NEW v \in Models, NEW target \in Lifecycle, Move(v, target)
    PROVE  /\ PlannerOK' /\ ReadyInv' /\ RevokedIsNotPlanned'
           /\ \A p \in Processes : planner'[p].at = planner[p].at
<1> USE DEF ServingInv
<1>1. lifecycle' = [lifecycle EXCEPT ![v] = target] /\ lifecycle \in [Models -> Lifecycle]
  BY DEF Move, Transition, RoutesInv, CopiesOK
<1>2. ASSUME NEW p \in Processes
      PROVE  \/ planner[p] = Idle /\ planner'[p] = Idle
             \/ /\ planner[p] \in Loading /\ planner'[p] \in Loading
                /\ planner'[p].ready = planner[p].ready
                /\ planner[p].gone \subseteq planner'[p].gone
                /\ target \in Serveable \/ v \in planner'[p].gone
             \/ /\ planner[p] \in Planned /\ planner'[p] \in Planned
                /\ planner'[p].version = planner[p].version
                /\ planner[p].gone \subseteq planner'[p].gone
                /\ target \in Serveable \/ v \in planner'[p].gone
  <2> DEFINE x == [planner[p] EXCEPT !.gone = @ \cup {v}]
  <2>1. planner'[p] = IF planner[p] # Idle /\ target \notin Serveable THEN x ELSE planner[p]
    BY DEF Move
  <2>2. CASE planner[p] = Idle
    BY <2>1, <2>2
  <2>3. CASE planner[p] \in Loading
    <3>1. x \in Loading /\ x.ready = planner[p].ready /\ x.gone = planner[p].gone \cup {v}
      BY <2>3 DEF Loading
    <3>2. planner[p] # Idle
      BY <2>3 DEF Loading, Idle
    <3> QED
      BY <2>1, <2>3, <3>1, <3>2
  <2>4. CASE planner[p] \in Planned
    <3>1. x \in Planned /\ x.version = planner[p].version /\ x.gone = planner[p].gone \cup {v}
      BY <2>4 DEF Planned
    <3>2. planner[p] # Idle
      BY <2>4 DEF Planned, Idle
    <3> QED
      BY <2>1, <2>4, <3>1, <3>2
  <2> QED
    BY <2>2, <2>3, <2>4 DEF PlannerOK
<1>3. planner' = [p \in Processes |-> planner'[p]]
  BY DEF Move
<1>4. PlannerOK'
  BY <1>2, <1>3 DEF PlannerOK
<1>5. ReadyInv'
  BY <1>1, <1>2 DEF ReadyInv, Loading, Planned, Idle
<1>6. RevokedIsNotPlanned'
  BY <1>1, <1>2 DEF RevokedIsNotPlanned, Loading, Planned, Idle
<1>7. \A p \in Processes : planner'[p].at = planner[p].at
  BY <1>2 DEF Loading, Planned
<1> QED
  BY <1>4, <1>5, <1>6, <1>7

-----------------------------------------------------------------------------
(* The shadow worker *)

\* The steps of submit: only a worker that has not been told to stop gets more.
LEMMA SubmitStep ==
    ASSUME WorkerInv, NEW w \in Works, NEW healthy \in BOOLEAN, Submit(w) \/ Enqueue(w, healthy)
    PROVE  WorkerInv'
<1>1. CASE Submit(w)
  BY <1>1 DEF Submit, WorkerInv
<1>2. CASE Enqueue(w, healthy)
  <2>1. worker' = worker /\ stopping' = stopping
    BY <1>2 DEF Enqueue
  <2>2. PICK s : queue' = [queue EXCEPT ![work[w].by] = s] /\
                 (work[w].by \in stopping => s = queue[work[w].by])
    BY <1>2 DEF Enqueue, Droppable
  <2> QED
    BY <2>1, <2>2 DEF WorkerInv
<1> QED
  BY <1>1, <1>2

\* After an answer the worker waits for another one or sees that it should stop.
LEMMA SettledWorker ==
    ASSUME NEW p, Settled(p)
    PROVE  \E x : worker' = [worker EXCEPT ![p] = x] /\ x.at \in {"idle", "ending"}
<1> DEFINE x == IF p \in stopping THEN Ending ELSE Idle
<1>1. worker' = [worker EXCEPT ![p] = x]
  BY DEF Settled
<1>2. x.at \in {"idle", "ending"}
  BY DEF Ending, Idle
<1> HIDE DEF x
<1> QED
  BY <1>1, <1>2

\* The steps of the worker.
LEMMA WorkingStep ==
    ASSUME WorkerInv, NEW p \in Processes, Take(p) \/ Working(p) \/ Stop(p) \/ Drain(p)
    PROVE  WorkerInv'
<1>1. CASE Take(p)
  BY <1>1 DEF Take, WorkerInv, Idle
<1>2. CASE Working(p)
  <2>1. queue' = queue /\ stopping' = stopping
    BY <1>2 DEF Working, Check, Unhealthy, Generated, Choose, Recheck
  <2>2. PICK x : /\ worker' = [worker EXCEPT ![p] = x]
                 /\ x.at # "stopped"
                 /\ x.at = "loaded" => x.version \in Versions
    <3>1. CASE Settled(p)
      BY <3>1, SettledWorker
    <3>2. CASE Check(p) /\ ~Settled(p)
      BY <3>2 DEF Check
    <3>3. ASSUME NEW v \in Versions, NEW healthy \in BOOLEAN, Choose(p, v, healthy)
          PROVE  \E x : /\ worker' = [worker EXCEPT ![p] = x]
                        /\ x.at # "stopped"
                        /\ x.at = "loaded" => x.version \in Versions
      <4>1. CASE healthy /\ lifecycle[v] = "shadow"
        <5> DEFINE x == [at |-> "loaded", work |-> worker[p].work, row |-> worker[p].row,
                         todo |-> worker[p].todo \ {v}, version |-> v]
        <5>1. worker' = [worker EXCEPT ![p] = x]
          BY <3>3, <4>1 DEF Choose
        <5>2. x.at = "loaded" /\ x.version \in Versions
          OBVIOUS
        <5> HIDE DEF x
        <5> QED
          BY <5>1, <5>2
      <4>2. CASE ~(healthy /\ lifecycle[v] = "shadow")
        <5> DEFINE x == [at |-> "choosing", work |-> worker[p].work, row |-> worker[p].row,
                         todo |-> worker[p].todo \ {v}]
        <5>1. worker' = [worker EXCEPT ![p] = x]
          BY <3>3, <4>2 DEF Choose
        <5>2. x.at = "choosing"
          OBVIOUS
        <5> HIDE DEF x
        <5> QED
          BY <5>1, <5>2
      <4> QED
        BY <4>1, <4>2
    <3>4. ASSUME NEW admitted \in BOOLEAN, Recheck(p, admitted)
          PROVE  \E x : /\ worker' = [worker EXCEPT ![p] = x]
                        /\ x.at # "stopped"
                        /\ x.at = "loaded" => x.version \in Versions
      <4>1. CASE ~StillAllowed(p)
        <5>1. Settled(p)
          BY <3>4, <4>1 DEF Recheck
        <5> QED
          BY <5>1, SettledWorker
      <4>2. CASE StillAllowed(p) /\ admitted
        <5> DEFINE x == [at |-> "generating", work |-> worker[p].work,
                         version |-> worker[p].version]
        <5>1. worker' = [worker EXCEPT ![p] = x]
          BY <3>4, <4>2 DEF Recheck
        <5>2. x.at = "generating"
          OBVIOUS
        <5> HIDE DEF x
        <5> QED
          BY <5>1, <5>2
      <4>3. CASE StillAllowed(p) /\ ~admitted
        <5> DEFINE x == [at |-> "choosing", work |-> worker[p].work, row |-> worker[p].row,
                         todo |-> worker[p].todo]
        <5>1. worker' = [worker EXCEPT ![p] = x]
          BY <3>4, <4>3 DEF Recheck
        <5>2. x.at = "choosing"
          OBVIOUS
        <5> HIDE DEF x
        <5> QED
          BY <5>1, <5>2
      <4> QED
        BY <4>1, <4>2, <4>3
    <3> QED
      BY <1>2, <3>1, <3>2, <3>3, <3>4 DEF Working, Unhealthy, Generated
  <2> QED
    BY <2>1, <2>2 DEF WorkerInv
<1>3. CASE Stop(p)
  BY <1>3 DEF Stop, WorkerInv
<1>4. CASE Drain(p)
  BY <1>4 DEF Drain, WorkerInv
<1> QED
  BY <1>1, <1>2, <1>3, <1>4

-----------------------------------------------------------------------------
(* The invariant *)

\* Nothing is cached or planned and no worker has stopped.
LEMMA InitInv == Init => ServingInv
<1> SUFFICES ASSUME Init PROVE ServingInv
  OBVIOUS
<1>1. CopiesOK
  <2>1. NoPointer \in Rows
    BY DEF NoPointer, Rows
  <2> QED
    BY <2>1, CurrentType, RoutingAssumption DEF Init, RoutesInit, CopiesOK, Lifecycle
<1>2. OwnInv /\ AgeInv
  BY DEF Init, RoutesInit, OwnInv, AgeInv
<1>3. PlannerOK /\ ReadyInv /\ RevokedIsNotPlanned
  BY DEF Init, PlannerOK, ReadyInv, RevokedIsNotPlanned, Idle
<1>4. WorkerInv
  BY DEF Init, WorkerInv, Idle
<1> QED
  BY <1>1, <1>2, <1>3, <1>4 DEF ServingInv, RoutesInv

\* The actions by what they may touch.
LEMMA Cases ==
    ASSUME [Next]_vars
    PROVE  \/ /\ StoreStep /\ UNCHANGED <<planner, lifecycle, worker, queue, stopping>>
           \/ \E v \in Models, target \in Lifecycle : Move(v, target)
           \/ \E p \in Processes : Planning(p)
           \/ /\ UNCHANGED <<routes, planning>>
              /\ \/ UNCHANGED shadowing
                 \/ \E p \in Processes, w \in Works, demand \in Demands : Answer(p, w, demand)
                 \/ \E w \in Works, healthy \in BOOLEAN : Submit(w) \/ Enqueue(w, healthy)
                 \/ \E p \in Processes : Take(p) \/ Working(p) \/ Stop(p) \/ Drain(p)
<1>1. CASE UNCHANGED vars
  BY <1>1 DEF vars
<1>2. ASSUME NEW q \in Policies, create(q), UNCHANGED <<planning, shadowing>>
      PROVE  StoreStep /\ UNCHANGED <<planner, lifecycle, worker, queue, stopping>>
  BY <1>2 DEF StoreStep, create, planning, shadowing
<1>3. ASSUME NEW p \in Processes, Operate(p) \/ Return(p) \/ Read(p),
             UNCHANGED <<planning, shadowing>>
      PROVE  StoreStep /\ UNCHANGED <<planner, lifecycle, worker, queue, stopping>>
  <2>1. lifecycle' = lifecycle
    BY <1>3 DEF Operate, activate, switch, switch_all, Ordered, Committed, Return, Read, control
  <2> QED
    BY <1>3, <2>1 DEF StoreStep, planning, shadowing
<1>4. ASSUME NEW p \in Processes, Refresh(p)
      PROVE  StoreStep /\ UNCHANGED <<planner, lifecycle, worker, queue, stopping>>
  BY <1>4 DEF StoreStep, Refresh, Publish, control, shadowing
<1>5. CASE Tick /\ UNCHANGED <<planning, shadowing>>
  BY <1>5 DEF StoreStep, Tick, control, planning, shadowing
<1>6. ASSUME NEW p \in Processes, NEW w \in Works, NEW demand \in Demands, Answer(p, w, demand)
      PROVE  UNCHANGED <<routes, planning>>
  BY <1>6 DEF Answer
<1>7. ASSUME NEW w \in Works, NEW healthy \in BOOLEAN, Submit(w) \/ Enqueue(w, healthy)
      PROVE  UNCHANGED <<routes, planning>>
  BY <1>7 DEF Submit, Enqueue
<1>8. ASSUME NEW p \in Processes, Take(p) \/ Working(p) \/ Stop(p) \/ Drain(p)
      PROVE  UNCHANGED <<routes, planning>>
  BY <1>8 DEF Take, Working, Check, Unhealthy, Generated, Choose, Recheck, Stop, Drain
<1> QED
  BY <1>1, <1>2, <1>3, <1>4, <1>5, <1>6, <1>7, <1>8 DEF Next

\* Every step keeps the invariant, one case per part of the process.
LEMMA StepInv == ServingInv /\ [Next]_vars => ServingInv'
<1> SUFFICES ASSUME ServingInv, [Next]_vars PROVE ServingInv'
  OBVIOUS
<1>1. CASE StoreStep /\ UNCHANGED <<planner, lifecycle, worker, queue, stopping>>
  BY <1>1, StoreInvariant
  DEF ServingInv, PlannerOK, ReadyInv, RevokedIsNotPlanned, WorkerInv
<1>2. ASSUME NEW v \in Models, NEW target \in Lifecycle, Move(v, target) PROVE ServingInv'
  <2>1. StoreStep /\ UNCHANGED <<worker, queue, stopping>>
    BY <1>2 DEF Move, StoreStep, shadowing
  <2>2. WorkerInv'
    BY <2>1 DEF ServingInv, WorkerInv
  <2> QED
    BY <1>2, <2>1, <2>2, StoreInvariant, MoveStep DEF ServingInv
<1>3. ASSUME NEW p \in Processes, Planning(p) PROVE ServingInv'
  <2>1. UNCHANGED <<routes, worker, queue, stopping>>
    BY <1>3 DEF Planning, PlanSnapshot, PlanLoad, PlanFinish, PlanFails, PlanTaken, shadowing
  <2>2. WorkerInv'
    BY <2>1 DEF ServingInv, WorkerInv
  <2> QED
    BY <1>3, <2>1, <2>2, StoreInvariant, PlanningStep DEF ServingInv
<1>4. ASSUME UNCHANGED <<routes, planning>>, WorkerInv' PROVE ServingInv'
  BY <1>4, StoreInvariant
  DEF ServingInv, PlannerOK, ReadyInv, RevokedIsNotPlanned, planning, routes, control
<1>5. ASSUME UNCHANGED shadowing PROVE WorkerInv'
  BY <1>5 DEF ServingInv, WorkerInv, shadowing
<1>6. ASSUME NEW p \in Processes, NEW w \in Works, NEW demand \in Demands, Answer(p, w, demand)
      PROVE  WorkerInv'
  BY <1>6 DEF Answer, ServingInv, WorkerInv
<1> QED
  BY <1>1, <1>2, <1>3, <1>4, <1>5, <1>6, SubmitStep, WorkingStep, Cases DEF ServingInv

\* The invariant holds of every store, planner and worker of a process: no order
\* of operators, refreshes, registry moves, plans and answers leaves it.
THEOREM Invariance == Spec => []ServingInv
  BY InitInv, StepInv, PTL DEF Spec

-----------------------------------------------------------------------------
\* Once activate or switch has answered, every snapshot of that process has the
\* change, however many refreshes were under way.
THEOREM OwnChangesCorrect == Spec => []OwnChangesSeen
<1>1. ServingInv => OwnChangesSeen
  BY RoutingAssumption DEF ServingInv, RoutesInv, OwnInv, OwnChangesSeen, Serves
<1> QED
  BY <1>1, Invariance, PTL

\* A change reaches every process after a lifetime of the cache and the length
\* of one refresh.
THEOREM StaleCorrect == Spec => []StaleOnlyBriefly
<1>1. ServingInv => StaleOnlyBriefly
  <2> SUFFICES ASSUME ServingInv, NEW p \in Processes, Serves(p)
               PROVE  cache[p].late < TTL + ReadTicks
    BY DEF StaleOnlyBriefly
  <2>1. cache[p].late \in Int /\ left[p] \in Int /\ left[p] > 0
        /\ cache[p].late <= ReadTicks + TTL - left[p]
    BY RoutingAssumption DEF ServingInv, RoutesInv, CopiesOK, AgeInv, Serves, AnyCopies
  <2> QED
    BY <2>1, RoutingAssumption
<1> QED
  BY <1>1, Invariance, PTL

\* Caches of manifests and of loaded specialists never put a version back
\* into a plan that began after the version left.
THEOREM RevokedCorrect == Spec => []RevokedIsNotPlanned
  BY Invariance, PTL DEF ServingInv

\* Stopping and submitting in any order leaves no answer behind.
THEOREM StrandedCorrect == Spec => []NothingStranded
<1>1. ServingInv => NothingStranded
  BY DEF ServingInv, WorkerInv, NothingStranded
<1> QED
  BY <1>1, Invariance, PTL

\* The second look at the controls is enough, for plans and for shadow attempts.
LEMMA ControlsStep ==
    ASSUME ServingInv, [Next]_vars, NEW p \in Processes
    PROVE  /\ planner[p].at = "loading" /\ planner'[p].at = "planned" =>
                ({"killed", planner'[p].version} \cup planner[p].demand) \cap firm[p] = {}
           /\ worker[p].at = "loaded" /\ worker'[p].at = "generating" =>
                ({"killed", worker[p].version} \cup work[worker[p].work].demand) \cap firm[p] = {}
<1>1. ASSUME planner[p].at = "loading", planner'[p].at = "planned"
      PROVE  ({"killed", planner'[p].version} \cup planner[p].demand) \cap firm[p] = {}
  <2>1. PICK q \in Processes : Planning(q)
    BY <1>1, Cases, MoveStep DEF planning
  <2>2. planner \in [Processes -> Loading \cup Planned \cup {Idle}] /\ planner[p] \in Loading
    BY <1>1 DEF ServingInv, PlannerOK, Planned, Idle
  <2>3. PlanFinish(p)
    <3>1. ASSUME NEW v \in Versions, PlanLoad(p, v) PROVE FALSE
      <4>1. CASE MayLoad(p, v)
        <5> DEFINE x == [planner[p] EXCEPT !.todo = @ \ {v}, !.ready = @ \cup {v}]
        <5>1. planner'[p] = x
          BY <2>2, <3>1, <4>1 DEF PlanLoad
        <5>2. x.at = "loading"
          BY <1>1, <2>2 DEF Loading
        <5> HIDE DEF x
        <5> QED
          BY <1>1, <5>1, <5>2
      <4>2. CASE ~MayLoad(p, v)
        <5>1. planner'[p] = Idle
          BY <2>2, <3>1, <4>2 DEF PlanLoad
        <5> QED
          BY <1>1, <5>1 DEF Idle
      <4> QED
        BY <4>1, <4>2
    <3>2. ~PlanFails(p) /\ ~PlanTaken(p)
      BY <1>1, <2>2 DEF PlanFails, PlanTaken, Idle
    <3>3. \A demand \in Demands : ~PlanSnapshot(p, demand)
      BY <1>1 DEF PlanSnapshot, Idle
    <3>4. q = p
      BY <1>1, <2>1, <2>2
      DEF Planning, PlanSnapshot, PlanLoad, PlanFinish, PlanFails, PlanTaken
    <3> QED
      BY <2>1, <3>1, <3>2, <3>3, <3>4 DEF Planning
  <2>4. Serves(p) /\ Enabled(cache[p].row, planner[p].demand) /\ Kept(p) # {}
        /\ planner'[p].version = CHOOSE v \in Kept(p) : TRUE
    BY <1>1, <2>2, <2>3 DEF PlanFinish, Allowed, Idle
  <2>5. planner'[p].version \in Kept(p)
    BY <2>4
  <2>6. planner'[p].version \in Models /\ planner'[p].version \notin cache[p].row.disabled
    BY <2>2, <2>5 DEF Kept, Loading
  <2> QED
    BY <2>4, <2>6, Enforced DEF ServingInv
<1>2. ASSUME worker[p].at = "loaded", worker'[p].at = "generating"
      PROVE  ({"killed", worker[p].version} \cup work[worker[p].work].demand) \cap firm[p] = {}
  <2>1. worker = [r \in Processes |-> worker[r]] /\ worker[p].version \in Models
    BY <1>2 DEF ServingInv, WorkerInv, Models
  <2>2. worker' # worker
    BY <1>2
  <2>3. PICK q \in Processes : Take(q) \/ Working(q) \/ Drain(q)
    BY <2>2, Cases DEF shadowing, Move, Planning, PlanSnapshot, PlanLoad, PlanFinish, PlanFails,
       PlanTaken, Answer, Submit, Enqueue, Stop
  <2>4. q = p
    BY <1>2, <2>1, <2>3
    DEF Take, Drain, Working, Check, Unhealthy, Generated, Choose, Recheck, Settled
  <2>5. ~Settled(p)
    BY <1>2, <2>1, SettledWorker
  <2>6. \E admitted \in BOOLEAN : Recheck(p, admitted)
    BY <1>2, <2>1, <2>3, <2>4, <2>5
    DEF Take, Drain, Working, Check, Unhealthy, Generated, Choose, Idle
  <2>7. Serves(p) /\ StillAllowed(p)
    BY <2>5, <2>6 DEF Recheck
  <2> QED
    BY <2>1, <2>7, Enforced DEF StillAllowed, ServingInv
<1> QED
  BY <1>1, <1>2

THEOREM ControlsCorrect == Spec => ControlsRespected
<1>1. ServingInv /\ [Next]_vars => [\A p \in Processes :
          /\ planner[p].at = "loading" /\ planner'[p].at = "planned" =>
                ({"killed", planner'[p].version} \cup planner[p].demand) \cap firm[p] = {}
          /\ worker[p].at = "loaded" /\ worker'[p].at = "generating" =>
                ({"killed", worker[p].version} \cup work[worker[p].work].demand) \cap firm[p] = {}
      ]_vars
  BY ControlsStep
<1> QED
  BY <1>1, Invariance, PTL DEF Spec, ControlsRespected
=============================================================================
