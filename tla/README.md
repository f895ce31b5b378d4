# TLA+ verification of the adaptive LLM platform

TLA+ models of the stateful core of `src/adaptive_llm` (all paths below are
relative to `src/src/adaptive_llm/` unless they start with `docs/`), the TLC
runs that check them and the proofs that TLAPS checks. `PROJECT.json` maps
every definition to the lines it models and lists runs, mutants, findings,
hazards and theorems.

    tlc -workers 2 -config MCOutbox.cfg MCOutbox     # one run
    tlapm OutboxProofs.tla                           # one module's proofs

## 1. Inventory

The platform is one Python application, usually one process on SQLite, possibly
several processes on PostgreSQL. An asyncio loop serves requests; storage calls
run in worker threads; background tasks dispatch the outbox, work the training
queue, run shadow attempts and watch the canary. All durable state is in two
databases (tenant and control) and in directories under the data directory.

| component | state | operations | interacts with | hard behaviour | what makes it correct | module |
|---|---|---|---|---|---|---|
| Transactional outbox and dispatcher (`storage/outbox.py`, `events/`) | outbox rows, claims, consumer memory | enqueue, claim/next_due, emit, finish, redeliver | every component that announces something enqueues in its own transaction | lost acknowledgements, process failure between emit and finish, several dispatchers, backlog limit | at-least-once, ordered within an interaction, retry budget, mandatory events kept, nothing stuck | `Outbox`, `Delivery` |
| Circuit breakers (`routing/breakers.py`) | window per deployment: state, opened_at, probing, samples | available, acquire, record | chain and shadow worker | overlapping generations, late records, table limit, cooldown | probing flag never outlives its probe, no stale evidence, quiet cooldown | `Breakers` |
| Model registry (`registry/`) | versions with lifecycle and evidence, deployment pointers | complete, promote, rollback, record_evaluation | evaluation, training, routing | long sequences of legal transitions, artifacts damaged meanwhile | one version in service, consistent pointers, approval only on current evidence | `Registry` |
| Evaluation and baselines (`evaluation/service.py`, `storage.py`) | report rows, report directories, baseline lock | evaluate, publish | registry | baseline read minutes before publication; failure between rename and commit | chained baselines, readable reports | `Registry` |
| Training queue and worker (`training/service.py`, `registry/sqlite.py`) | job rows, submitter rows, claims, artifact directories, events | submit/enqueue, cancel_job, worker_claim, run, complete, save_job | registry, outbox, dataset builder | cancellation against completion, retries against the worker, crash between rename and registration, locks in two places | final cancellation, models and directories agree, outcomes told truthfully, every job settles | `Training` |
| Persistence and retention (`storage/persistence.py`, `sqlite.py`, `retention.py`) | rows, payloads, references, replay entries, tombstones | save, save_shadow, delete, delete_subject, sweep | gateway, feedback, shadow worker | deadlines computed before the lock; late writers after a deletion; four ways to drop a replay | erasure is final, references resolve, nothing outlives its row | `Persistence` |
| Feedback (`gateway/feedback.py`) | feedback records, correction payloads | record | persistence | late writer | as above | `Persistence` (the transaction) |
| Inference gateway (`gateway/service.py`) | in-memory reservations | infer, _find_replay, _execute | persistence, routing, chain | concurrent retries, cancellation during the save, restart | no request executed twice at once, answers belong to their request, reservations end | `Gateway` |
| Execution chain (`routing/chain.py`) | attempts, cost and deadline of one request | run_chain | breakers, providers | fallbacks under deadline, budget and cancellation, shared breakers | the foundation is reached, every admission recorded | `Chain` on `Breakers` |
| Routing control plane (`routing/control.py`) | policies, active pointer, kill switch, disablements, snapshot cache per process | create, activate, switch, snapshot | registry, gateway | a refresh between a mutation and its invalidation, caches of other processes | own changes seen at once, others' within a bounded time | `Routing` |
| Evidence, progression gate, canary monitor (`routing/control.py`, `canary.py`) | observations, comparisons, live rows | observe, compare, record_live, progression_gate, automatic_disable, work_once | routing, registry, gateway | a decision on old measurements, operators and monitor on one lock | traffic only on evidence, rollback under the measured policy, every lasting breach rolled back | `Canary` on `Routing` |
| Live planner and shadow worker (`routing/live.py`, `shadow.py`) | cached manifests and specialists, bounded queue | plan, submit, run, stop | routing, registry, breakers | slow loads between two looks at the controls, stop against submit | revoked specialists are not planned, controls hold over a load, nothing stranded | `Serving` on `Routing` |
| Storage operations (`storage/operations.py`, `postgres_operations.py`, `crypto.py`) | key versions, backups, the two databases | rotate_key, backup_pair, restore_pair | all stores | writers and deletions during a rotation, a backup of two databases | every payload of the start rotated, databases stay a pair | `Operations` |
| Dataset builder, approval, distillation (`datasets/`, `distillation/data.py`) | manifests, dataset directories, approvals | build, approve, use by training | persistence, training | deletion during a build, crash between rename and commit, linked examples | no deleted example published, disjoint splits, survivors kept | `Datasets` on `Operations` |
| Training attempt (`training/lora.py`, `training/service.py`) | checkpoint directories, archive, refs of the job | restore, resume, save, archive, export | training queue | a crash between any two renames | checkpoints found again, exact exports | `Checkpoints` on `Training` |

Not modelled, with reasons in `PROJECT.json`: HTTP application, identity and
policy functions, providers, retrieval and validation (functions of one request,
or network I/O whose outcome is a free choice in the models), the arithmetic of
training, routing and evaluation, activation research (offline, written once),
signing, metrics.

## 2. Modules

A database transaction is one step: SQLite begins it IMMEDIATE under one lock,
PostgreSQL takes an advisory lock for the schema. Whatever the code reads or
computes outside the lock (an evaluation's baseline, a retention deadline, a
replay entry, a worker's view of its job) is a step of its own, and everything
else interleaves with it. A request the code refuses changes nothing and is not
a step. Histories (variables marked so) record what was seen, for properties.

**Outbox** has the table (`state`, `attempts`, `due`, `seq`), the dispatchers
(`claim`, `phase`) and the bounded consumer (`sink`). `Enqueue` is
`SQLiteOutboxStore.enqueue` with its backlog rule; `Claim`, the three `Emit…` and
the four `Finish…` actions are `dispatch_once` cut where it awaits or commits;
`EmitLostAck` is a sink that accepted and then raised. `Crash` loses the claim
and a consumer held in memory. One dispatcher is SQLite, several are PostgreSQL
with SKIP LOCKED. **Delivery** is the abstract promise: ordered at-least-once
delivery with quarantine, without tables, clocks or retries. `Outbox` implements
it with `status <- state, seen <- received, failed <- quarantined, rank <- seq`.

**Breakers** has one window per deployment. `Acquire` and `Record` are the locked
methods, `Finish` is the caller's generation ending with any error, validation
failure and latency. The percentile and the two rates that trip a breaker are
translated (`Trips`, `TooSlow`), the sample window too (`Push`, `Pruned`).

**Registry** has lifecycle states, approvals and evidence per version, the two
deployment pointers, the reports with their directories and the baseline lock.
`Promote`, `Install` (promotion to production) and `Rollback` are the registry's
transactions; `Begin`, `Publish`, `Abandon` and `PublishCrash` are an evaluation.
Scores are a free choice of passed or not. `Corrupt` damages artifacts.

**Training** has the job rows, the claims and the worker of each process as a
small program counter. `Claim` takes the oldest waiting job (file lock on SQLite,
row lock of the submitter on PostgreSQL). `Load`, `Start`, `Publish`, `Complete`,
`Unpublish` and `SaveFailure` are `_run`; `Inspect` and `Overrule` are the handler
of `work_once`; `Dies` is a storage error that handler does not catch and that
ends the task of `worker`. A retry whose row is locked stays in its transaction
(`RequeueWaits`) and with it the database lock of its process and the advisory
lock: `Free` and `Unlocked` are those two locks.

**Persistence** has the rows, payloads, references, replay entries, tombstones
and the order of deletion events of one tenant. `SavePrepare`/`SaveCommit` are
`_save` before and inside the lock, `ShadowPrepare`/`ShadowCommit` the same of
`save_shadow`; `Feedback`, `Delete`, `DeleteSubject` and the two steps of the sweep
are the other writers. Payloads that live and die together are one element.

**Gateway** extends Persistence with the calls of a request id: `Reserve`,
`FindEntry`, `FindPayload`, `Finish` (retrieval, routing and chain as one choice
of outcome), the save in its thread, `Release`, and the cancellations. `Recancelled`
names the calls that may be cancelled again while they wait for the save.

**Checkpoints** refines Training's one step of training: `Prepare` and `Restore`
(`_move_checkpoints` from the archive, one rename a step), `Resume`, the loop of
`boundary`, `Train`, `Write`, `Rename` and `Record`, then `Checked`, `Archive` and
`Export`. A checkpoint directory is its name and the number of steps its weights
were trained. `Break` is any other error; a crash may fall between any two steps.

**Chain** is `run_chain` of every caller of Breakers. A plan is a sequence that
ends with the foundation (reasons that depend on the request alone shorten it);
`Skip` is a rejection or a deadline, `Try` an acquire, `End` an attempt with any
ending `execute_attempt` has and what happens next.

**Routing** has the policies, the pointer row and the cached snapshot of each
process. A mutation commits, then `_invalidate` waits for the store's lock
(`Return`); a refresh holds that lock from `Read` to `Publish`. Time is relative:
`late` says for how long a copy has missed a committed change, `firm` which
controls a process has answered for that are still in force. **Canary** adds the
evidence and the monitor: `Observe`, `Compare` and `RecordLive` with outcomes
reduced to what gate and monitor tell apart, `progression_gate` as the guard of
`Promote`, and `work_once` cut at its snapshot, its measurement, its transaction
and its invalidation. A comparison keeps whether its validation passed and not its
score. The gate's other conditions, the bootstrap interval over the score or quality
deltas and the savings, are open: a promotion that counts and validations permit
may be granted or refused, and a refusal changes nothing. A comparison may arrive
after the version it compares has been promoted, because the worker looks at its
state only when it loads it. **Serving** adds the planner (`PlanSnapshot`, `PlanLoad`,
`PlanFinish`) and the shadow worker (`Submit`, `Enqueue`, `Take`, `Check`, `Choose`,
`Recheck`, `Stop`, `Drain`) of each process, with the cache of loaded specialists. A
worker told to stop while it waits may still take one answer; one told to stop while
it works goes on to drain (`Ending`).

**Operations** has the tenant and the control database as values, the backup and
the key rotation: `RotateStart` reads the ceiling, `RotateBatch` is one
transaction; `BackupTenant` and `BackupControl` are the two copies of
`backup_pair` under both writer locks; `Restore` is offline. **Datasets** adds a
build (`BuildSnapshot`, `BuildConstruct`, `BuildStage`, `PublishBegin`,
`PublishEnd`, and again after a deletion), the greedy curation (`Curated`, the set its
loop keeps: neither like an earlier one that was kept nor contaminated by the golden
set the build names, of `FixtureSets`), the union-find of the split (`Linked`, `Visit`,
`Grouped`), distillation from an approved source, the two halves of an approval and
training's check of eligibility.

`MC…` modules only fix small sets, functions and symmetry.

## 3. Runs

| run | bounds | checks |
|---|---|---|
| `outbox` | two dispatchers, three events of one interaction (one optional and corrupt, one enqueued twice), pending limit 1, two attempts, two crashes, one redelivery | order, refinement of `Delivery`, every row settles |
| `breakers` | three callers, two deployments, one window, three samples, clock to 4 | probe flag, fresh evidence |
| `chain` | two callers, a specialist with an estimated latency of one tick and the foundation, two attempts, a deadline of two ticks | the foundation is tried, `Breakers` is used as specified |
| `registry` | a specialist and a router of one registry id, three reports, two runners, two rollbacks | promotion, rollback, evidence, baseline chain |
| `persistence` | two interactions, one subject, two replay keys, capacity 1, clock to 2 | erasure, references, retention |
| `gateway` | two calls, one request id, two bodies, one call cancelled twice, clock to 1 | execution, replay, reservations end |
| `gateway_recancel` | two calls cancelled twice | finding 1 |
| `training` | two jobs as Training sees them, or one of three steps with a checkpoint every two in detail; two processes, both backends, one retry, two failures | checkpoints, export, publication, outcomes, progress |
| `training_retry` | one job, one process, PostgreSQL | finding 2 |
| `canary` | one specialist, a live and a foundation-only policy, two interactions, two operator changes, one failed pass | evidence, rollback, progress of a rollback |
| `serving` | one process, whose own mutation may be slow to invalidate (to its cache, what another process's mutation is), one specialist and a scope, two policies, queue and cache of one, a refresh of up to one tick, two changes | freshness of snapshots, planner and shadow worker |
| `datasets` | four interactions linked through families, two dataset versions, two approvers, three mixes of deletions, rotations, backups and builds | build, split, distillation, approval, rotation, backup, restore |

Why these bounds reach the interesting cases. A conflict in this code is between
two actors over one object, with a third only for the breakers (a late call, a
probe and a second probe). Limits are set so small that they are hit: backlog,
window table, replay table, shadow queue and specialist cache hold one element, the
retry budget is two, a rotation batch is smaller than the table, and clocks are long
enough for a retention period or a cache to end with a writer or a refresh still
under way. The disablement list has room for its one scope: its limit is in the model
(`switch`) and never refuses anything in the runs. Two rollbacks swap versions and swap them
back. In `datasets` interaction 4 joins two families that nothing else joins, 2 is
nearly a copy of 1, one of the two golden sets contaminates 1 (then 2 has to stay) and
the other nothing, and `Budgets` gives each race (deletions against builds and
approvals, a restore, rotations) its own behaviours instead of their product;
`Doubtful` names the one example that construction may reject. In `training`,
`Workloads` does the same for two jobs against one job in detail: three steps with
a checkpoint every two have a checkpoint of the interval, one of the last step and
one of an interruption between them; `Room` keeps a shutdown that is under way
within the bound on failures. `MaxChanges` bounds operators, `ReadTicks` how long a
refresh of a snapshot may take. Symmetry is used over interchangeable callers,
interactions, bodies, versions, approvers and reports, only in runs without
liveness. Deadlock is not checked: when clocks, retries and requests are used up
the modelled system really may rest; that nobody waits for ever is what the
liveness properties and `RetryHonoured` are for.

Fairness. `outbox`: `Dispatcher.run` loops until shutdown and wall time
advances; nothing is assumed of sinks, producers or operators. `gateway`:
lookups and saves are finite storage calls and the chain has a deadline, so the
steps of a call and of its save are weakly fair; clients owe nothing. `training`:
`worker` loops until shutdown and training is finite, so the worker's steps, the
detailed ones included, are weakly fair; `Settles` is stated for SQLite and for as
long as some process has a worker left, because a storage error may end a worker
for good. `canary`: the monitor loops until shutdown and survives its errors. Its
snapshot and its invalidation are strongly fair: the call that refreshed an expired
cache returns what it read, and a Python lock is not withheld for ever from one
waiter. Operators and traffic owe nothing.

Every property has a mutant in `PROJECT.json`: a definition changed as a plausible
bug would change it, on which TLC finds that property violated.

## 4. Findings

1. `NeverExecutedTwice` under a second cancellation. The second wait for the save is
   not shielded (`gateway/service.py:418`). For calls that are not cancelled a second
   time the property holds: `ExecutedOnce` (run `gateway`).
2. `RetryHonoured`. On PostgreSQL the worker's handler needs the database lock while
   its claim holds the submitter row; a retry in the same process waits for that
   row with the lock (`training/service.py:131`, `registry/sqlite.py:155`). The same
   property fails on SQLite in another way: a retry accepted between the booked
   failure and the handler's second look is overwritten as
   `training_eligibility_failed` (`training/service.py:132-145`).

Two smaller disagreements between documents and code, met while modelling and
visible in the models, have no run. `record` takes any outcome in the half-open
state for the probe's (`routing/breakers.py:85`), so a late call may end the
exclusion and a second probe be admitted, where the module's first line says one
probe per deployment; what remains true is `ProbeInFlight`. And `rollback` wants the
current version in production (`registry/sqlite.py:500`), which
`docs/runbooks/training-and-promotion.md:230` does not list.

## 5. Proofs

All theorems hold for every value of the constants under the named `ASSUME` of
their module, which says only what kind of values they are: bounds are naturals,
families are finite, and `None` is no request, version, manifest or interaction.
Every safety property of the passing runs is a theorem; a proof module covers the
component named first and the one it extends.

- **OutboxProofs** (Outbox, Delivery): types, `DeliveredWasAccepted`, `InteractionOrder`,
  `RetryBudget`, `ClaimIsExclusive`, `MandatoryNeverDropped`, and that the outbox
  implements `Delivery`. The invariant adds to these that histories contain what the
  rows say (`HistoryOK`), that sequence numbers are unique and bounded (`SequenceOK`),
  and that a claimed row is pending, unblocked and holds the attempt count that was
  read (`ClaimOK`). Order needs the last: an event is emitted long after the query
  that found it unblocked.
- **ChainProofs** (Chain, Breakers): types, `ProbeInFlight`, `NeverEvicted` and
  `FreshEvidence` of the breakers; `ChainSpec => UsesBreakers`, that is, chains in any
  number and interleaving take only steps of Breakers or stutter; `ProbeInFlight` and
  `FreshEvidence` of them, and `FoundationTried`. `FreshEvidence` needs `NotAhead`: no
  sample and no closing is from the future, so a new sample is the latest and pruning
  leaves a window. `FoundationTried` needs `CourseInv`: a running chain has been at the
  foundation or its remaining plan ends there.
- **RegistryProofs** (Registry): types, `OneProduction`, `PointersConsistent`,
  `ApprovedOnEvidence`, `BaselinePassed`, and the action properties `Terminal`,
  `BaselineChain` and `ApprovalIsCurrent`. Pointers need `OneProduction`; evidence needs
  `BaselinePassed`.
- **GatewayProofs** (Gateway, Persistence): of the stores, types, `Erased`,
  `RefsResolve`, `NothingOutlives`, `SummaryLast`. The invariant adds that tombstones
  match rows (`TombstonesHold`), that deadlines computed before the lock are no later
  than the row's (`DeadlinesOrdered`), that an interaction owns at most one replay entry
  (`OneReplay`) and that events and tombstones agree (`AnnouncedOnce`). Of the gateway,
  types, `ExecutedOnce`, `AnswersItsRequest`, and the action properties `LiveReplayKept`
  and `ErasedIsNotReplayed` (its part about erased subjects only here: the run `gateway`
  has none). Every gateway step keeps the stores' invariant
  (`StoresUnderGateway`), and the gateway's own adds that a call holds its key from
  reservation to release and its save carries its request (`ReservationsHeld`), that
  entries, lookups and answers match the request they are kept for (`RepliesMatch`) and
  that a call executes only while there is nothing to replay for its key
  (`NothingToReplay`), which is what the last two properties need.
- **CheckpointsProofs** (Checkpoints, Training): of the queue, types, `CancelRespected`,
  `PublishedOnce`, `OutcomesFaithful`. The invariant adds that claims are exclusive
  (`ClaimsOK`), what a job's state may be at each step of its worker (`PhaseOK`), that
  only `cancel_job` cancels (`CancelledOK`) and that a waiting retry's job stays failed
  (`WaitingOK`). `CheckpointsSpec => Spec`: an attempt in detail implements Training
  step by step (its variables are Training's and more, so the mapping is the identity;
  the detailed steps that move no variable of Training stutter), and from it
  `PublishedOnce` of the detailed specification. Then `Recoverable` and `ExportExact`:
  every directory was trained as far as its name says, none is both beside the export
  and in the archive, and what is recorded is in one of the two (`FilesOK`); the archive
  is empty from the restore to the end of training, and no attempt passes its start once
  a destination is published (`AttemptsOK`).
- **ServingProofs** (Serving, Routing): `OwnChangesSeen`, `StaleOnlyBriefly`,
  `RevokedIsNotPlanned`, `NothingStranded` and the action property `ControlsRespected`,
  from the assumptions that names of policies, models and scopes do not clash
  (`RoutingAssumption`). The invariant: an invalidation waits for a refresh under way,
  so a copy, cached or being read, holds every control this process has answered for
  (`OwnInv`); a copy misses a change no longer than its refresh took and its lifetime
  has run (`AgeInv`); what a plan has loaded serves, or left after the plan began
  (`ReadyInv`); a stopped worker was told to stop (`WorkerInv`).
- **CanaryProofs** (Canary): `LiveOnEvidence` and the action property
  `RollbackOnActive`. `GateInv` is stronger than the first: a deprecated version has its
  evidence too, since rollback restores it without asking the gate again. The run has a
  threshold of one comparison; the theorem has any threshold, and neither assumes
  anything of the scores.
- **DatasetsProofs** (Datasets, Operations): types, `RotationComplete`, `PairConsistent`,
  `ManifestHasFiles`, `SurvivorsKept`, `SplitsDisjoint`, `HeldOutStaysOut`, and the action
  properties `PublishedIsClean` and `ApprovalStands`. The invariant `DInv` says of the
  tenant database, of the backup and of a copy under way alike that each manifest's
  version was handed out, to no build that still runs, that its files are there and
  that a distilled one is part of its source, split by split (`Registers`), and that
  trained versions have manifests (`Pairs`): a restore brings any of them back. A build
  has staged examples or what stands for them, and a renamed one holds the publish
  transaction, which has seen every deletion (`BuildOK`). What a rotation found up to
  its cursor is under the new key or has a tombstone (`RotationOK`); a batch in order of
  reference is what lets the cursor pass. Splits rest on `UnionFindCorrect`: with an
  explicit height function for the trees, the recursion of `Root` has exactly one
  solution, linking two roots joins their trees, and after the loops all examples of a
  key are in the tree of the last one seen with it. The loops are recursive functions;
  that they have a value is shown by a least counterexample (`Least`), not by the
  library's induction theorems. The same argument shows that the greedy rule of
  `Curated` has a solution (`CuratedIs`), that nothing contaminated stays and that what
  else it drops has something alike that stays (`CuratedCovers`).

Theorems without a run of their own (`DeliveredWasAccepted`, `RetryBudget`,
`ClaimIsExclusive`, `MandatoryNeverDropped`, `NeverEvicted`, `PointersConsistent`,
`BaselinePassed`, `Terminal`, `SummaryLast`, `CancelRespected` and the types) are parts of
the inductive invariants or follow from them; the runs are kept for what is harder.

Only model-checked: liveness (`EventuallySettled`, `Released`, `Settles`,
`BreachRolledBack`), which needs fairness and `ENABLED` and is beyond the prover. The
two findings (section 4) are counterexamples of TLC.

## 6. Limits of the model

One tenant and one gateway process (several processes hold separate
reservations, a listed hazard). Encryption, signatures and artifact contents are
outcomes; texts are numbers with a similarity relation, latencies are classes, and
what depends on scores, qualities or savings is a free choice. Jobs of other architectures and the command lines are left out. Legacy
rows without a submitter are not created. The datasets that train a router are
neither curated nor checked against a golden set (`datasets/builder.py:296`) and are
left out. A transaction commits or it does not, and its caller knows which: a
PostgreSQL commit that took effect and was reported as failed, after which a build
would remove the directory of a registered dataset (`datasets/builder.py:277`), is not
modelled. A lost claim connection is modelled as a
process failure. A restore rewinds tombstones with everything else, as in the
code, which leaves repeating the deletions to the operator. Activation research is
not modelled: a study is written once by one operator and the rest is arithmetic;
its one write to modelled state, the training job that `structured_prune` registers
after it found the id free (`research/service.py:442`), is outside the queue's model.
The order in which the application stops its tasks is not modelled either: a worker
task that died makes the shutdown raise and skip the later stops (`app.py:767`).

## 7. Plan

1. Proofs: one invariant of Routing's store for Canary and Serving, which prove their
   own parts of it now; then what `Delivery` itself promises, so that the outbox has it
   by refinement.
2. Several gateway processes over one PostgreSQL database in `Gateway`.
