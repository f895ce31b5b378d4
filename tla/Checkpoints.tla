----------------------------- MODULE Checkpoints -----------------------------
(***************************************************************************)
(* What Training leaves as one step: an attempt inside trainer.train       *)
(* (training/lora.py) and the files around it (training/service.py).  An   *)
(* attempt restores the checkpoints an earlier one archived, resumes from  *)
(* the last, trains step by step, saves a checkpoint every few steps and   *)
(* before it gives up, archives them all and only then publishes what is   *)
(* left as the export.  Every rename and every transaction is a step, so a *)
(* crash may fall between any two.                                         *)
(***************************************************************************)
EXTENDS Training, FiniteSets

CONSTANTS
    Workloads,   \* bound: spec.steps of each job, 0 for a job that is never submitted,
                 \* None for one whose attempts keep the grain of Training
    Every        \* checkpoint_every

ASSUME CheckpointsAssumption == Workloads \subseteq [Jobs -> Nat \cup {None}] /\ Every \in Nat \ {0}

VARIABLES
    steps,     \* the workload of this behaviour
    refs,      \* checkpoint_refs of each job row, as step numbers
    working,   \* the checkpoint directories beside the export of each job
    archive,   \* those under .checkpoints
    export,    \* how many steps the exported weights were trained, or None
    task       \* where each worker is in its attempt

disk == <<working, archive, export>>
checkpointing == <<steps, refs, disk, task>>
checkpointVars == <<vars, checkpointing>>

\* A checkpoint directory under its temporary or its final name, and how many
\* steps the weights in it were trained.
Directories == [temporary : BOOLEAN, step : Nat, learned : Nat]
Final(D) == {d \in D : ~d.temporary}
Name(d) == <<d.temporary, d.step>>
Names(D) == {Name(d) : d \in D}
StepsOf(D) == {d.step : d \in Final(D)}

\* The checkpoint to resume from; without one, the base model.
Latest(D) ==
    IF Final(D) = {} THEN [temporary |-> FALSE, step |-> 0, learned |-> 0]
    ELSE CHOOSE d \in Final(D) : \A e \in Final(D) : e.step <= d.step

\* step: steps completed.  learned: steps the weights in memory were trained.
\* reports: steps with a checkpoint.  raising: what is raised once it is saved.
NoTask == [phase |-> "none", step |-> 0, learned |-> 0, reports |-> {}, raising |-> "none"]
Phases == {"none", "starting", "restoring", "resuming", "boundary", "writing", "renaming",
           "recording", "raising", "trained", "archiving"}

Tasks == [phase : Phases, step : Nat, learned : Nat, reports : SUBSET Nat,
          raising : {"none", "cancelled", "shutdown", "failed"}]

CheckpointsTypeOK ==
    /\ steps \in Workloads
    /\ refs \in [Jobs -> SUBSET Nat]
    /\ working \in [Jobs -> SUBSET Directories] /\ archive \in [Jobs -> SUBSET Directories]
    /\ export \in [Jobs -> Nat \cup {None}]
    /\ task \in [Processes -> Tasks]

CheckpointsInit ==
    /\ Init
    /\ steps \in Workloads
    /\ refs = [j \in Jobs |-> {}]
    /\ working = [j \in Jobs |-> {}] /\ archive = [j \in Jobs |-> {}]
    /\ export = [j \in Jobs |-> None]
    /\ task = [p \in Processes |-> NoTask]

In(p, phase) == pc[p] = "training" /\ task[p].phase = phase
Phase(p, phase) == task' = [task EXCEPT ![p].phase = phase]
Leaves(p) == task' = [task EXCEPT ![p] = NoTask]

\* The bound on failures, beside the shutdowns under way in other processes.
Room(p) ==
    failures + Cardinality({q \in Processes \ {p} : task[q].raising = "shutdown"}) < MaxFailures

-----------------------------------------------------------------------------
(* Moving checkpoints *)

\* Mutant of Moved: what a crash left under a temporary name is not moved.
MovedFinal(D) == Final(D)

\* _move_checkpoints takes both names.
Moved(D) == D

\* It refuses when a name is taken, before it moves anything.
Collide(j) == Names(working[j]) \cap Names(archive[j]) # {}

\* sorted: the temporary names come first.
First(D) ==
    CHOOSE d \in D : \A e \in D : \/ d.temporary /\ ~e.temporary
                                  \/ d.temporary = e.temporary /\ d.step <= e.step

\* The worker has just started: an export that exists, or a name that is
\* taken, ends the attempt.
Prepare(p) ==
    /\ In(p, "starting")
    /\ IF at[p] \in directories \/ Collide(at[p])
       THEN Fail(p) /\ Leaves(p)
       ELSE Phase(p, "restoring") /\ UNCHANGED vars
    /\ UNCHANGED <<steps, refs, disk>>

\* Mutant of Restorable: only into a working directory that is empty.
RestorableOnce(j) == IF working[j] = {} \/ Names(archive[j]) = {} THEN Moved(archive[j]) ELSE {}

Restorable(j) == Moved(archive[j])

\* One rename from the archive to the working directory.
Restore(p) ==
    LET j == at[p] IN
    /\ In(p, "restoring")
    /\ IF Restorable(j) = {}
       THEN Phase(p, "resuming") /\ UNCHANGED disk
       ELSE LET d == First(Restorable(j)) IN
            /\ archive' = [archive EXCEPT ![j] = @ \ {d}]
            /\ working' = [working EXCEPT ![j] = @ \cup {d}]
            /\ UNCHANGED <<export, task>>
    /\ UNCHANGED <<vars, steps, refs>>

-----------------------------------------------------------------------------
(* trainer.train *)

\* A recorded checkpoint that is missing is checkpoint_integrity_failed; one
\* that is not recorded yet is recorded; then the last one is loaded.
Resume(p) ==
    LET j == at[p]
        known == StepsOf(working[j])
        last == Latest(working[j])
    IN
    /\ In(p, "resuming")
    /\ \/ /\ ~(refs[j] \subseteq known)
          /\ Fail(p) /\ Leaves(p) /\ UNCHANGED refs
       \/ /\ refs[j] \subseteq known /\ Unlocked
          /\ \E step \in known \ refs[j] : refs' = [refs EXCEPT ![j] = @ \cup {step}]
          /\ UNCHANGED <<vars, task>>
       \/ /\ refs[j] = known
          /\ task' = [task EXCEPT ![p] =
                [phase |-> "boundary", step |-> last.step, learned |-> last.learned,
                 reports |-> known, raising |-> "none"]]
          /\ UNCHANGED <<vars, refs>>
    /\ UNCHANGED <<steps, disk>>

\* boundary finds a cancellation, the shutdown or the time limit, and saves the
\* step before it raises.
Interrupt(p, reason) ==
    /\ In(p, "boundary") /\ Free(p)
    /\ reason = "cancelled" <=> at[p] \in cancels
    /\ reason = "shutdown" => Room(p)
    /\ task' = [task EXCEPT ![p].raising = reason,
                            ![p].phase = IF task[p].step \in task[p].reports
                                         THEN "raising" ELSE "writing"]
    /\ UNCHANGED <<vars, steps, refs, disk>>

\* boundary passes, and the loop takes its next step or ends.
Train(p) ==
    LET t == task[p]
        due == (t.step + 1) % Every = 0 \/ t.step + 1 = steps[at[p]]
    IN
    /\ In(p, "boundary") /\ Free(p) /\ at[p] \notin cancels
    /\ task' = [task EXCEPT ![p] =
          IF t.step = steps[at[p]] THEN [t EXCEPT !.phase = "trained"]
          ELSE [t EXCEPT !.step = @ + 1, !.learned = @ + 1,
                         !.phase = IF due THEN "writing" ELSE "boundary"]]
    /\ export' = IF t.step = steps[at[p]] THEN [export EXCEPT ![at[p]] = t.learned] ELSE export
    /\ UNCHANGED <<vars, steps, refs, working, archive>>

\* save writes under the temporary name, after it has removed what a crash left
\* there, ...
Write(p) ==
    LET j == at[p]
        d == [temporary |-> TRUE, step |-> task[p].step, learned |-> task[p].learned]
    IN
    /\ In(p, "writing")
    /\ working' = [working EXCEPT ![j] = {e \in @ : Name(e) # Name(d)} \cup {d}]
    /\ Phase(p, "renaming")
    /\ UNCHANGED <<vars, steps, refs, archive, export>>

\* ... renames it ...
Rename(p) ==
    LET j == at[p]
        d == [temporary |-> TRUE, step |-> task[p].step, learned |-> task[p].learned]
    IN
    /\ In(p, "renaming")
    /\ working' = [working EXCEPT ![j] = (@ \ {d}) \cup {[d EXCEPT !.temporary = FALSE]}]
    /\ task' = [task EXCEPT ![p].phase = "recording", ![p].reports = @ \cup {task[p].step}]
    /\ UNCHANGED <<vars, steps, refs, archive, export>>

\* ... and records it in the job row, which is running already; a row that was
\* cancelled meanwhile is left as it is (_save_job_outcome).
Record(p) ==
    /\ In(p, "recording") /\ Unlocked
    /\ refs' = [refs EXCEPT ![at[p]] =
          IF job[at[p]] = "cancelled" THEN @ ELSE @ \cup {task[p].step}]
    /\ Phase(p, IF task[p].raising = "none" THEN "boundary" ELSE "raising")
    /\ UNCHANGED <<vars, steps, disk>>

\* boundary raises what it found.
Raise(p) ==
    /\ In(p, "raising")
    /\ \/ task[p].raising = "cancelled" /\ CheckCancelled(p)
       \/ task[p].raising = "shutdown" /\ CheckStopping(p)
       \/ task[p].raising = "failed" /\ Fail(p)
    /\ Leaves(p)
    /\ UNCHANGED <<steps, refs, disk>>

-----------------------------------------------------------------------------
(* Publication *)

\* train has returned; one more check, and the checkpoints leave for the archive.
Checked(p) ==
    /\ In(p, "trained")
    /\ \/ (CheckCancelled(p) \/ (Room(p) /\ CheckStopping(p))) /\ Leaves(p)
       \/ Free(p) /\ at[p] \notin cancels /\ Collide(at[p]) /\ Fail(p) /\ Leaves(p)
       \/ /\ Free(p) /\ at[p] \notin cancels /\ ~Collide(at[p])
          /\ Phase(p, "archiving") /\ UNCHANGED vars
    /\ UNCHANGED <<steps, refs, disk>>

\* One rename from the working directory to the archive.
Archive(p) ==
    LET j == at[p] IN
    /\ In(p, "archiving") /\ Moved(working[j]) # {}
    /\ LET d == First(Moved(working[j])) IN
       /\ working' = [working EXCEPT ![j] = @ \ {d}]
       /\ archive' = [archive EXCEPT ![j] = @ \cup {d}]
    /\ UNCHANGED <<vars, steps, refs, export, task>>

\* The rest of the working directory is hashed, signed and published.
Export(p) ==
    /\ In(p, "archiving") /\ Moved(working[at[p]]) = {}
    /\ Publish(p) /\ Leaves(p)
    /\ UNCHANGED <<steps, refs, disk>>

\* Any other error of the attempt: what is on disk stays.
Break(p) ==
    /\ pc[p] = "training" /\ task[p].phase \notin {"none", "raising"}
    /\ Fail(p) /\ Leaves(p)
    /\ UNCHANGED <<steps, refs, disk>>

-----------------------------------------------------------------------------

Detailed(p) == steps[at[p]] # None

\* The steps of the worker outside train, and an attempt at the grain of Training.
Outside(p) ==
    /\ \/ \E j \in Jobs : Claim(p, j)
       \/ Ineligible(p) \/ Load(p) \/ Complete(p) \/ Unpublish(p) \/ SaveFailure(p)
       \/ Inspect(p) \/ Overrule(p)
       \/ /\ pc[p] \in {"loaded", "training"} /\ ~Detailed(p)
          /\ Start(p) \/ Fail(p) \/ CheckCancelled(p) \/ CheckStopping(p) \/ Publish(p)
    /\ UNCHANGED checkpointing

Attempt(p) ==
    \/ Start(p) /\ Detailed(p) /\ Phase(p, "starting") /\ UNCHANGED <<steps, refs, disk>>
    \/ Prepare(p) \/ Restore(p) \/ Resume(p)
    \/ (\E reason \in {"cancelled", "shutdown", "failed"} : Interrupt(p, reason)) \/ Train(p)
    \/ Write(p) \/ Rename(p) \/ Record(p) \/ Raise(p)
    \/ Checked(p) \/ Archive(p) \/ Export(p) \/ Break(p)

CheckpointsNext ==
    \/ /\ \/ \E j \in Jobs : (steps[j] # 0 /\ Submit(j)) \/ Requeue(j) \/ Cancel(j)
          \/ \E p \in Processes : (\E j \in Jobs : RequeueWaits(p, j)) \/ RequeueGranted(p)
                                    \/ (Room(p) /\ Dies(p))
       /\ UNCHANGED checkpointing
    \/ \E p \in Processes : Outside(p) \/ Attempt(p)
    \/ \E p \in Processes : Room(p) /\ Crash(p) /\ Leaves(p) /\ UNCHANGED <<steps, refs, disk>>

CheckpointsSpec ==
    /\ CheckpointsInit /\ [][CheckpointsNext]_checkpointVars
    /\ \A p \in Processes : WF_checkpointVars(Outside(p) \/ Attempt(p))

-----------------------------------------------------------------------------
(* Properties *)

\* "Publication recovery covers partially restored checkpoint archives":
\* wherever an attempt was cut off, the next one finds each checkpoint that the
\* job has recorded, and no name taken: none ends in checkpoint_integrity_failed.
Recoverable ==
    \A p \in Processes :
        /\ In(p, "resuming") => refs[at[p]] \subseteq StepsOf(working[at[p]])
        /\ pc[p] = "training" => ~Collide(at[p])

\* "Checkpoints live outside the signed export inventory", and an interrupted
\* job "resumes to the same artifact digest": what is published holds no
\* checkpoint, not even half of one, and every step was trained exactly once.
ExportExact ==
    \A j \in directories : steps[j] # None => working[j] = {} /\ export[j] = steps[j]
=============================================================================
