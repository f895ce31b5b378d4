------------------------------ MODULE Routing -------------------------------
(***************************************************************************)
(* routing/control.py: route policies, the active pointer with its kill    *)
(* switch and disablements, and the snapshot of it that every process      *)
(* caches.  Canary adds the evidence and the monitor, Serving the planners *)
(* and the shadow workers that act on snapshots.                           *)
(*                                                                         *)
(* Every mutation is a transaction of the control database followed by     *)
(* _invalidate in the process that made it; the two are separate steps and *)
(* everything else interleaves.  A refresh of the cache holds the store's  *)
(* _lock from the read of the row to the new expiry.  Time is relative:    *)
(* what is left of a cache's lifetime, and for how long a copy has missed  *)
(* a committed change.                                                     *)
(***************************************************************************)
EXTENDS Integers, Sequences, FiniteSets

CONSTANTS
    Versions,          \* specialist versions a policy may name
    Routers,           \* versions of architecture router-logistic-v1
    Policies,          \* policy ids
    Policy,            \* Policy[q]: the immutable RoutePolicy named q
    Processes,         \* gateway processes on one control database
    Columns,           \* the scopes of each disablement column
    DisablementLimit,  \* 100
    TTL,               \* lifetime of a cached snapshot, in ticks
    ReadTicks,         \* bound on the ticks a refresh takes
    MaxChanges,        \* bound on operator mutations
    None

Scopes == UNION Columns
Models == Versions \cup Routers

\* What RoutePolicy says that control depends on.  expanded: traffic_fraction
\* is above 0.05; on: the tenants and tasks it enables.
PolicyRecords ==
    [eligible : SUBSET Models, router : Models \cup {None}, live : BOOLEAN,
     shadow : BOOLEAN, killed : BOOLEAN, expanded : BOOLEAN, on : SUBSET Scopes]

ASSUME RoutingAssumption ==
    /\ Versions \cap Routers = {}
    /\ Policy \in [Policies -> PolicyRecords]
    /\ \A q \in Policies : Policy[q].live => Policy[q].router # None
    /\ None \notin Policies \cup Models
    /\ Policies \cap (Models \cup Scopes) = {}
    /\ "killed" \notin Policies \cup Models \cup Scopes
    /\ DisablementLimit \in Nat
    /\ TTL \in Nat \ {0} /\ ReadTicks \in Nat
    /\ MaxChanges \in Nat

VARIABLES
    created,     \* rows of route_policies
    used,        \* history: policies that have been active
    row,         \* the environment's row of route_policy_active
    lifecycle,   \* registry state of each model
    cache, left, reading, slow,   \* _cached, what is left to _expires, a refresh
    request,     \* the operator request of each process
    firm,        \* history: what has been in force since a change was answered here
    changes

control == <<created, used, row, lifecycle>>
caches == <<cache, left, reading, slow>>
routes == <<control, caches, request, firm, changes>>

Lifecycle == {"approved", "shadow", "canary", "production", "deprecated", "revoked"}
Rows == [policy : Policies \cup {None}, killed : BOOLEAN, disabled : SUBSET Scopes]

\* A copy of the row.  late is history: the ticks since the first committed
\* change it misses, -1 when it misses none.
Copies == [row : Rows, late : -1 .. TTL + ReadTicks + 1]

\* What a row puts in force.
InForce(r) == r.disabled \cup {r.policy} \cup (IF r.killed THEN {"killed"} ELSE {})

RoutesTypeOK ==
    /\ created \subseteq Policies /\ used \subseteq created
    /\ row \in Rows
    /\ lifecycle \in [Models -> Lifecycle]
    /\ cache \in [Processes -> Copies]
    /\ left \in [Processes -> 0..TTL]
    /\ reading \in [Processes -> Copies \cup {None}]
    /\ slow \in [Processes -> 0..ReadTicks]
    /\ request \in [Processes -> {"idle", "returning"}]
    /\ firm \in [Processes -> SUBSET (Scopes \cup Policies \cup {None, "killed"})]
    /\ changes \in 0..MaxChanges

NoPointer == [policy |-> None, killed |-> FALSE, disabled |-> {}]
Current(r) == [row |-> r, late |-> -1]

\* In place of an expired copy, which is never read again.
NoCopy == Current(NoPointer)

RoutesInit ==
    /\ created = {} /\ used = {}
    /\ row = NoPointer
    /\ lifecycle = [v \in Models |-> IF v \in Routers THEN "approved" ELSE "shadow"]
    /\ cache = [p \in Processes |-> NoCopy]
    /\ left = [p \in Processes |-> 0]
    /\ reading = [p \in Processes |-> None]
    /\ slow = [p \in Processes |-> 0]
    /\ request = [p \in Processes |-> "idle"]
    /\ firm = [p \in Processes |-> {}]
    /\ changes = 0

-----------------------------------------------------------------------------
(* The cached snapshot *)

\* snapshot, first half: the cache has expired, so read the row.  The reader
\* keeps _lock until it has published what it read.
Read(p) ==
    /\ left[p] = 0 /\ reading[p] = None
    /\ reading' = [reading EXCEPT ![p] = Current(row)]
    /\ UNCHANGED <<control, cache, left, slow, request, firm, changes>>

\* snapshot, second half.  The lifetime starts here, not when the row was read.
Publish(p) ==
    /\ reading[p] # None
    /\ cache' = [cache EXCEPT ![p] = reading[p]]
    /\ left' = [left EXCEPT ![p] = TTL]
    /\ reading' = [reading EXCEPT ![p] = None]
    /\ slow' = [slow EXCEPT ![p] = 0]
    /\ UNCHANGED <<control, request, firm, changes>>

\* What snapshot returns to a caller in p: the cache while it is live.  A
\* caller that finds it expired refreshes it, or waits for the refresh.
Serves(p) == left[p] > 0 /\ reading[p] = None

\* Mutant of Dropped: the expiry is reset without taking _lock, so a refresh
\* under way publishes what it read before the change.
DroppedUnlocked(p) ==
    /\ left' = [left EXCEPT ![p] = 0]
    /\ cache' = [cache EXCEPT ![p] = NoCopy]
    /\ firm' = [firm EXCEPT ![p] = InForce(row)]
    /\ UNCHANGED reading

\* _invalidate, and with it the answer to whoever made the change.
Dropped(p) ==
    /\ reading[p] = None
    /\ left' = [left EXCEPT ![p] = 0]
    /\ cache' = [cache EXCEPT ![p] = NoCopy]
    /\ firm' = [firm EXCEPT ![p] = InForce(row)]
    /\ UNCHANGED reading

\* Mutant of Remaining: the copy in use gets a new lease.
RemainingRenewed(p) == left[p]

\* What is left of the cache's lifetime one tick later.
Remaining(p) == IF left[p] = 0 THEN 0 ELSE left[p] - 1

\* A copy once the row has become r, and one tick later.
Outdated(c, r) == [c EXCEPT !.late = IF @ = -1 /\ r # c.row THEN 0 ELSE @]
Later(c) == [c EXCEPT !.late = IF @ \in 0 .. TTL + ReadTicks THEN @ + 1 ELSE @]

Tick ==
    /\ \A p \in Processes : reading[p] # None => slow[p] < ReadTicks
    /\ left' = [p \in Processes |-> Remaining(p)]
    /\ cache' = [p \in Processes |-> IF Remaining(p) = 0 THEN NoCopy ELSE Later(cache[p])]
    /\ reading' = [p \in Processes |-> IF reading[p] = None THEN None ELSE Later(reading[p])]
    /\ slow' = [p \in Processes |-> IF reading[p] = None THEN 0 ELSE slow[p] + 1]
    /\ UNCHANGED <<control, request, firm, changes>>

-----------------------------------------------------------------------------
(* Operators *)

_validate(q) ==
    /\ \A v \in Policy[q].eligible :
          /\ v \notin Routers /\ lifecycle[v] \in {"shadow", "canary", "production"}
          /\ Policy[q].expanded => lifecycle[v] = "production"
    /\ Policy[q].router # None =>
          lifecycle[Policy[q].router] \in {"approved", "shadow", "canary", "production"}

create(q) ==
    /\ q \notin created /\ _validate(q)
    /\ created' = created \cup {q}
    /\ UNCHANGED <<used, row, lifecycle, caches, request, firm, changes>>

\* What a transaction that changes the pointer to r does to it and to the
\* copies of it.  The entry _audit adds to the history and the events it
\* enqueues are part of the transaction; nothing here reads them.
Committed(r) ==
    /\ row' = r
    /\ used' = used \cup ({r.policy} \ {None})
    /\ firm' = [p \in Processes |-> firm[p] \cap InForce(r)]
    /\ cache' = [p \in Processes |-> IF left[p] = 0 THEN NoCopy ELSE Outdated(cache[p], r)]
    /\ reading' = [p \in Processes |->
                     IF reading[p] = None THEN None ELSE Outdated(reading[p], r)]
    /\ UNCHANGED <<created, lifecycle, left, slow>>

\* An operator's transaction in p.
Ordered(p, r) ==
    /\ request[p] = "idle" /\ changes < MaxChanges
    /\ Committed(r)
    /\ request' = [request EXCEPT ![p] = "returning"]
    /\ changes' = changes + 1

activate(p, q) == q \in created /\ _validate(q) /\ Ordered(p, [row EXCEPT !.policy = q])

\* switch with a scope, and for the whole environment.
switch(p, scope, off) ==
    LET D == IF off THEN row.disabled \cup {scope} ELSE row.disabled \ {scope} IN
    /\ \A C \in Columns : scope \in C => Cardinality(D \cap C) <= DisablementLimit
    /\ Ordered(p, [row EXCEPT !.disabled = D])
switch_all(p, off) == Ordered(p, [row EXCEPT !.killed = off])

\* The end of activate and of switch.
Return(p) ==
    /\ request[p] = "returning"
    /\ Dropped(p)
    /\ request' = [request EXCEPT ![p] = "idle"]
    /\ UNCHANGED <<control, slow, changes>>

-----------------------------------------------------------------------------
\* A transition of the registry between states a policy can name.  gate is the
\* progression gate, asked only for a promotion of a specialist to canary or
\* to production: a rollback is not gated.  Approval evidence, deployment
\* pointers and artifacts are in Registry.  Nothing here tells a router's
\* states from approved to production apart.
Edges == {<<"shadow", "canary">>, <<"canary", "production">>,
          <<"production", "deprecated">>, <<"deprecated", "production">>} \cup
         ((Lifecycle \ {"revoked"}) \X {"revoked"})
Transition(v, target, gate) ==
    /\ <<lifecycle[v], target>> \in Edges
    /\ v \in Versions /\ target \in {"canary", "production"} /\ lifecycle[v] # "deprecated" => gate
    /\ lifecycle' = [lifecycle EXCEPT ![v] = target]
    /\ UNCHANGED <<created, used, row, caches, request, firm, changes>>

Operate(p) ==
    \/ \E q \in Policies : activate(p, q)
    \/ \E scope \in Scopes, off \in BOOLEAN : switch(p, scope, off)
    \/ \E off \in BOOLEAN : switch_all(p, off)

\* The steps of the store itself; registry transitions are added where their
\* gate is.
RoutesNext ==
    \/ \E q \in Policies : create(q)
    \/ \E p \in Processes : Operate(p) \/ Return(p) \/ Read(p) \/ Publish(p)
    \/ Tick

\* A call into the store finishes: the reader publishes, and the operator gets
\* _lock, which refreshes hold only now and then, and is answered.
RoutesFair ==
    \A p \in Processes : WF_routes(Read(p)) /\ WF_routes(Publish(p)) /\ SF_routes(Return(p))

-----------------------------------------------------------------------------
(* Properties *)

\* A control this process has answered for is in every snapshot the process
\* hands out as long as it is in force, however refreshes and mutations
\* interleave.
OwnChangesSeen == \A p \in Processes : Serves(p) => firm[p] \subseteq InForce(cache[p].row)

\* "Every process uses a pointer cache lasting at most one second": a change
\* made anywhere is in every snapshot handed out TTL plus the length of one
\* refresh later.
StaleOnlyBriefly == \A p \in Processes : Serves(p) => cache[p].late < TTL + ReadTicks

=============================================================================
