------------------------------ MODULE Training ------------------------------
(***************************************************************************)
(* The training queue: the job rows of registry/sqlite.py, the claims of   *)
(* both backends, and the worker of training/service.py, from claim to     *)
(* registration or failure.                                                *)
(*                                                                         *)
(* Every process runs one worker thread beside the threads of its HTTP     *)
(* calls.  A transaction is one step.  On SQLite a file lock admits one    *)
(* worker; on PostgreSQL a worker holds the row lock of the job's          *)
(* submitter for as long as it works, on a connection of its own.  A call  *)
(* that requeues a failed job writes that row, so it may have to wait for  *)
(* the worker, and it waits inside its transaction: with the database lock *)
(* of its process and the advisory lock of the schema.                     *)
(***************************************************************************)
EXTENDS Naturals, Sequences

CONSTANTS
    Jobs,         \* job ids, as naturals in order of creation
    Processes,
    Backends,     \* the storage backends considered
    None,
    MaxRetries,   \* bound on resubmissions of failed jobs
    MaxFailures   \* bound on process failures and shutdowns

ASSUME TrainingAssumption ==
    /\ Jobs \subseteq Nat
    /\ None \notin Nat
    /\ Backends \subseteq {"sqlite", "postgres"}
    /\ MaxRetries \in Nat /\ MaxFailures \in Nat

VARIABLES
    backend,      \* the backend deployed
    job,          \* training_jobs: state per job, "absent" before submission
    cancels,      \* jobs with cancel_requested
    models,       \* jobs whose model version is registered
    directories,  \* jobs whose artifact directory has its final name
    outcomes,     \* training.completed events, per job
    pc,           \* where the worker of each process is
    at,           \* the job it has claimed
    code,         \* how its attempt failed
    waiting,      \* the job a call of each process waits to requeue
    retried,      \* history: jobs requeued and not claimed since
    orphans,      \* history: directories a crash left without a registration
    retries, failures

rows == <<job, cancels, models, outcomes>>
worker == <<pc, at, code>>
vars == <<backend, rows, directories, worker, waiting, retried, orphans, retries, failures>>

Terminal == {"succeeded", "failed", "cancelled"}
States == {"absent", "queued", "running"} \cup Terminal
Steps == {"idle", "claimed", "loaded", "training", "published", "failing", "raised", "overruling", "dead"}
Codes == {"none", "ineligible", "cancelled", "shutdown", "failed"}

TypeOK ==
    /\ backend \in Backends
    /\ job \in [Jobs -> States]
    /\ cancels \subseteq Jobs
    /\ models \subseteq Jobs
    /\ directories \subseteq Jobs
    /\ outcomes \in [Jobs -> Seq(Terminal)]
    /\ pc \in [Processes -> Steps]
    /\ at \in [Processes -> Jobs \cup {None}]
    /\ code \in [Processes -> Codes]
    /\ waiting \in [Processes -> Jobs \cup {None}]
    /\ retried \subseteq Jobs
    /\ orphans \subseteq Jobs
    /\ retries \in Nat /\ failures \in Nat

Init ==
    /\ backend \in Backends
    /\ job = [j \in Jobs |-> "absent"]
    /\ cancels = {} /\ models = {} /\ directories = {}
    /\ outcomes = [j \in Jobs |-> <<>>]
    /\ pc = [p \in Processes |-> "idle"]
    /\ at = [p \in Processes |-> None]
    /\ code = [p \in Processes |-> "none"]
    /\ waiting = [p \in Processes |-> None]
    /\ retried = {} /\ orphans = {}
    /\ retries = 0 /\ failures = 0

\* The database lock of process p is free: registry.job may read.
Free(p) == waiting[p] = None

\* No transaction is open anywhere: another may begin.
Unlocked == \A p \in Processes : waiting[p] = None

\* A worker has claimed job j.
Held(j) == \E p \in Processes : at[p] = j

-----------------------------------------------------------------------------
(* Calls *)

\* enqueue of a job id that is new.
Submit(j) ==
    /\ Unlocked /\ job[j] = "absent"
    /\ job' = [job EXCEPT ![j] = "queued"]
    /\ UNCHANGED <<backend, cancels, models, outcomes, directories, worker, waiting, retried, orphans,
                   retries, failures>>

\* enqueue of a failed job, when its submitter row is not locked: the row
\* becomes queued and keeps everything else, cancel_requested too.
Requeue(j) ==
    /\ Unlocked /\ job[j] = "failed" /\ retries < MaxRetries
    /\ backend = "postgres" => ~Held(j)
    /\ job' = [job EXCEPT ![j] = "queued"]
    /\ retried' = retried \cup {j}
    /\ retries' = retries + 1
    /\ UNCHANGED <<backend, cancels, models, outcomes, directories, worker, waiting, orphans, failures>>

\* The same, when a worker still holds the row: the transaction stays open.
RequeueWaits(p, j) ==
    /\ Unlocked /\ job[j] = "failed" /\ retries < MaxRetries
    /\ backend = "postgres" /\ Held(j)
    /\ waiting' = [waiting EXCEPT ![p] = j]
    /\ retries' = retries + 1
    /\ UNCHANGED <<backend, rows, directories, worker, retried, orphans, failures>>

\* The row lock is granted and the transaction commits.
RequeueGranted(p) ==
    LET j == waiting[p] IN
    /\ j # None /\ ~Held(j)
    /\ job' = [job EXCEPT ![j] = "queued"]
    /\ waiting' = [waiting EXCEPT ![p] = None]
    /\ retried' = retried \cup {j}
    /\ UNCHANGED <<backend, cancels, models, outcomes, directories, worker, orphans, retries, failures>>

\* cancel_job: queued work is cancelled, running work is asked to stop.
Cancel(j) ==
    /\ Unlocked /\ job[j] \in {"queued", "running"}
    /\ cancels' = cancels \cup {j}
    /\ IF job[j] = "queued"
       THEN /\ job' = [job EXCEPT ![j] = "cancelled"]
            /\ outcomes' = [outcomes EXCEPT ![j] = Append(@, "cancelled")]
       ELSE UNCHANGED <<job, outcomes>>
    /\ UNCHANGED <<backend, models, directories, worker, waiting, retried, orphans, retries, failures>>

-----------------------------------------------------------------------------
(* The worker *)

\* Mutant of Saved: a cancelled job may be written again.
SavedOver(j, state) ==
    /\ job' = [job EXCEPT ![j] = state]
    /\ outcomes' = IF state \in Terminal /\ state # job[j]
                   THEN [outcomes EXCEPT ![j] = Append(@, state)] ELSE outcomes

\* _save_job_outcome: cancelled is final; a failure or a cancellation is
\* announced when it is new.
Saved(j, state) ==
    IF job[j] = "cancelled" THEN UNCHANGED <<job, outcomes>>
    ELSE /\ job' = [job EXCEPT ![j] = state]
         /\ outcomes' = IF state \in Terminal /\ state # job[j]
                        THEN [outcomes EXCEPT ![j] = Append(@, state)] ELSE outcomes

Waiting(j) == job[j] \in {"queued", "running"} /\ ~Held(j)

\* worker_claim: the oldest job that is waiting.
Claim(p, j) ==
    /\ pc[p] = "idle" /\ Free(p)
    /\ backend = "sqlite" => \A q \in Processes : pc[q] \in {"idle", "dead"}
    /\ Waiting(j) /\ \A i \in Jobs : Waiting(i) => j <= i
    /\ pc' = [pc EXCEPT ![p] = "claimed"]
    /\ at' = [at EXCEPT ![p] = j]
    /\ retried' = retried \ {j}
    /\ UNCHANGED <<backend, rows, directories, code, waiting, orphans, retries, failures>>

\* The worker moves on within its attempt.
Moves(p, step) == pc' = [pc EXCEPT ![p] = step] /\ UNCHANGED <<at, code>>

\* The attempt fails with a code.
Fails(p, step, c) ==
    /\ pc' = [pc EXCEPT ![p] = step]
    /\ code' = [code EXCEPT ![p] = c]
    /\ UNCHANGED at

\* work_once returns and the claim ends.
Ends(p) ==
    /\ pc' = [pc EXCEPT ![p] = "idle"]
    /\ at' = [at EXCEPT ![p] = None]
    /\ code' = [code EXCEPT ![p] = "none"]

\* run refuses before it touches the job: approval, artifacts or policy.
Ineligible(p) ==
    /\ pc[p] = "claimed"
    /\ Fails(p, "raised", "ineligible")
    /\ UNCHANGED <<backend, rows, directories, waiting, retried, orphans, retries, failures>>

\* _run reads the job; one that is finished is returned as it is.
Load(p) ==
    /\ pc[p] = "claimed" /\ Free(p)
    /\ IF job[at[p]] \in {"succeeded", "cancelled"} THEN Ends(p) ELSE Moves(p, "loaded")
    /\ UNCHANGED <<backend, rows, directories, waiting, retried, orphans, retries, failures>>

\* save_job with state running.
Start(p) ==
    /\ pc[p] = "loaded" /\ Unlocked
    /\ Saved(at[p], "running")
    /\ Moves(p, "training")
    /\ UNCHANGED <<backend, cancels, models, directories, waiting, retried, orphans, retries, failures>>

\* Training fails, at once when the destination exists (model_version_exists).
Fail(p) ==
    /\ pc[p] = "training"
    /\ Fails(p, "failing", "failed")
    /\ UNCHANGED <<backend, rows, directories, waiting, retried, orphans, retries, failures>>

\* check finds the cancellation.
CheckCancelled(p) ==
    /\ pc[p] = "training" /\ at[p] \notin directories /\ Free(p)
    /\ at[p] \in cancels
    /\ Fails(p, "failing", "cancelled")
    /\ UNCHANGED <<backend, rows, directories, waiting, retried, orphans, retries, failures>>

\* check finds the process stopping, after it has read the job: a cancellation
\* may have come since.
CheckStopping(p) ==
    /\ pc[p] = "training" /\ at[p] \notin directories /\ Free(p)
    /\ failures < MaxFailures
    /\ Fails(p, "failing", "shutdown")
    /\ failures' = failures + 1
    /\ UNCHANGED <<backend, rows, directories, waiting, retried, orphans, retries>>

\* Mutant of Publish: an existing directory is taken over.
PublishOver(p) ==
    /\ pc[p] = "training"
    /\ directories' = directories \cup {at[p]}
    /\ Moves(p, "published")
    /\ UNCHANGED <<backend, rows, waiting, retried, orphans, retries, failures>>

\* Training is done and the directory gets its name.  The last check passed
\* before the checkpoints were moved away, so a cancellation may have come since.
Publish(p) ==
    /\ pc[p] = "training" /\ at[p] \notin directories
    /\ directories' = directories \cup {at[p]}
    /\ Moves(p, "published")
    /\ UNCHANGED <<backend, rows, waiting, retried, orphans, retries, failures>>

\* complete: the model version, the job and the event, unless a cancellation
\* was requested meanwhile.
Complete(p) ==
    /\ pc[p] = "published" /\ Unlocked
    /\ at[p] \notin cancels
    /\ models' = models \cup {at[p]}
    /\ job' = [job EXCEPT ![at[p]] = "succeeded"]
    /\ outcomes' = [outcomes EXCEPT ![at[p]] = Append(@, "succeeded")]
    /\ Ends(p)
    /\ UNCHANGED <<backend, cancels, directories, waiting, retried, orphans, retries, failures>>

\* complete raises, for the cancellation or in storage, and the directory gets
\* its working name back.
Unpublish(p) ==
    /\ pc[p] = "published" /\ Unlocked
    /\ directories' = directories \ {at[p]}
    /\ \/ at[p] \in cancels /\ Fails(p, "failing", "cancelled")
       \/ Fails(p, "failing", "failed")
    /\ UNCHANGED <<backend, rows, waiting, retried, orphans, retries, failures>>

\* The handler of _run books the failure; a shutdown requeues the job.
SaveFailure(p) ==
    /\ pc[p] = "failing" /\ Unlocked
    /\ IF code[p] = "shutdown"
       THEN Saved(at[p], "queued") /\ Ends(p)
       ELSE Saved(at[p], code[p]) /\ Moves(p, "raised")
    /\ UNCHANGED <<backend, cancels, models, directories, waiting, retried, orphans, retries, failures>>

\* The handler of work_once reads the job again, whatever was raised ...
Inspect(p) ==
    /\ pc[p] = "raised" /\ Free(p)
    /\ IF job[at[p]] \in {"queued", "running"} THEN Moves(p, "overruling") ELSE Ends(p)
    /\ UNCHANGED <<backend, rows, directories, waiting, retried, orphans, retries, failures>>

\* Mutant of Overrule: the job is left as it is.
OverruleNothing(p) ==
    /\ pc[p] = "overruling" /\ Unlocked
    /\ Ends(p)
    /\ UNCHANGED <<backend, rows, directories, waiting, retried, orphans, retries, failures>>

\* ... and fails a job that is still active, as training_eligibility_failed.
Overrule(p) ==
    /\ pc[p] = "overruling" /\ Unlocked
    /\ Saved(at[p], "failed")
    /\ Ends(p)
    /\ UNCHANGED <<backend, cancels, models, directories, waiting, retried, orphans, retries, failures>>

-----------------------------------------------------------------------------

\* A storage error outside the handler of _run ends the worker's task, and its
\* claim, while the process goes on serving calls.
Dies(p) ==
    /\ failures < MaxFailures /\ pc[p] \notin {"training", "published", "dead"}
    /\ failures' = failures + 1
    /\ pc' = [pc EXCEPT ![p] = "dead"]
    /\ at' = [at EXCEPT ![p] = None]
    /\ code' = [code EXCEPT ![p] = "none"]
    /\ UNCHANGED <<backend, rows, directories, waiting, retried, orphans, retries>>

\* Process p dies and is started again: its claim and its open transaction go.
Crash(p) ==
    /\ failures < MaxFailures /\ (pc[p] # "idle" \/ waiting[p] # None)
    /\ failures' = failures + 1
    /\ Ends(p)
    /\ waiting' = [waiting EXCEPT ![p] = None]
    /\ orphans' = IF pc[p] = "published" THEN orphans \cup {at[p]} ELSE orphans
    /\ UNCHANGED <<backend, rows, directories, retried, retries>>

Work(p) ==
    \/ \E j \in Jobs : Claim(p, j)
    \/ Ineligible(p) \/ Load(p) \/ Start(p)
    \/ Fail(p) \/ CheckCancelled(p) \/ CheckStopping(p) \/ Publish(p)
    \/ Complete(p) \/ Unpublish(p) \/ SaveFailure(p)
    \/ Inspect(p) \/ Overrule(p)

Next ==
    \/ \E j \in Jobs : Submit(j) \/ Requeue(j) \/ Cancel(j)
    \/ \E p \in Processes : (\E j \in Jobs : RequeueWaits(p, j)) \/ RequeueGranted(p)
    \/ \E p \in Processes : Work(p) \/ Dies(p) \/ Crash(p)

Spec == Init /\ [][Next]_vars

\* worker loops for as long as its process lives; training is finite.
FairSpec == Spec /\ \A p \in Processes : WF_vars(Work(p))

-----------------------------------------------------------------------------
(* Properties *)

\* "Cancellation is durable": once cancel_job has answered, the job never
\* succeeds and no model of it is registered, wherever the worker was.
CancelRespected == \A j \in cancels : job[j] # "succeeded" /\ j \notin models

\* "Completed versions are never overwritten" and failed publication leaves
\* nothing: a directory with its final name belongs to a registered model, to
\* a publication under way or to a crash, and a retry never registers the last.
PublishedOnce ==
    /\ models = {j \in Jobs : job[j] = "succeeded"}
    /\ models \cap orphans = {}
    /\ directories = models \cup orphans \cup {j \in Jobs : \E p \in Processes :
                                                  pc[p] = "published" /\ at[p] = j}

\* The outcomes announced are the job's: the last one is its terminal state,
\* and nothing follows a success or a cancellation.
OutcomesFaithful ==
    \A j \in Jobs :
        LET o == outcomes[j] IN
        /\ job[j] \in Terminal => Len(o) > 0 /\ o[Len(o)] = job[j]
        /\ \A k \in 1..Len(o) : k < Len(o) => o[k] = "failed"
        /\ Len(o) > 0 /\ o[Len(o)] # "failed" => job[j] = o[Len(o)]

\* On SQLite every job that is queued or running comes to an end, across
\* crashes, shutdowns, cancellations and ineligible datasets, for as long as
\* one process has a worker left.
Settles ==
    \A j \in Jobs :
        backend = "sqlite" /\ job[j] \in {"queued", "running"}
            ~> job[j] \in Terminal \/ \A p \in Processes : pc[p] = "dead"

\* docs/runbooks/training-and-promotion.md: "retrying a failed job requeues the
\* same version and checkpoints".  So a job that was requeued is not failed
\* before a worker has claimed it anew, and a call that requeues one never
\* waits for a worker that waits for the call.
RetryHonoured ==
    /\ \A j \in retried : job[j] # "failed"
    /\ \A p \in Processes : waiting[p] # None => at[p] # waiting[p]
=============================================================================
