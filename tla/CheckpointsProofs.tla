-------------------------- MODULE CheckpointsProofs --------------------------
(***************************************************************************)
(* Machine-checked proofs about Training and Checkpoints, for any jobs,    *)
(* processes, workloads and number of retries and failures, on either      *)
(* backend.  An attempt in detail is an attempt of Training: whatever      *)
(* Checkpoints does, the rows, models and directories move as Training     *)
(* says, so what is proved of the queue holds with checkpoints, restores   *)
(* and resumptions.                                                        *)
(***************************************************************************)
EXTENDS Checkpoints, TLAPS, WellFoundedInduction

Busy(p) == pc[p] \notin {"idle", "dead"}

\* A worker that is busy has claimed a job, and no two the same.
ClaimsOK ==
    /\ \A p \in Processes : Busy(p) <=> at[p] # None
    /\ \A p, q \in Processes : at[p] = at[q] /\ at[p] # None => p = q

\* What the state of a job may be at each step of the worker that has claimed it.
PhaseOK ==
    \A p \in Processes :
        /\ Busy(p) => job[at[p]] \in {"queued", "running", "cancelled", "failed"}
        /\ pc[p] \in {"claimed", "loaded", "overruling"} =>
               job[at[p]] \in {"queued", "running", "cancelled"}
        /\ pc[p] \in {"training", "published", "failing"} => job[at[p]] \in {"running", "cancelled"}
        /\ pc[p] = "failing" => code[p] \in {"cancelled", "shutdown", "failed"}
        /\ pc[p] = "failing" /\ code[p] = "cancelled" => at[p] \in cancels
        /\ pc[p] = "published" => at[p] \notin orphans

\* cancelled is reached by cancel_job only.
CancelledOK == \A j \in Jobs : job[j] = "cancelled" => j \in cancels

\* At most one call waits for a row, and the job it waits for stays failed.
WaitingOK ==
    /\ \A p \in Processes : waiting[p] # None => job[waiting[p]] = "failed"
    /\ \A p, q \in Processes : waiting[p] # None /\ waiting[q] # None => p = q

\* The inductive invariant, with WaitingOK: what is published and announced depends on claims
\* being exclusive and on where a job's worker stands.
IInv ==
    /\ TypeOK /\ ClaimsOK /\ PhaseOK /\ CancelledOK
    /\ CancelRespected /\ PublishedOnce /\ OutcomesFaithful

-----------------------------------------------------------------------------
(* Outcomes *)

\* OutcomesFaithful for a job in state s with outcomes o.
Told(s, o) ==
    /\ s \in Terminal => Len(o) > 0 /\ o[Len(o)] = s
    /\ \A k \in 1..Len(o) : k < Len(o) => o[k] = "failed"
    /\ Len(o) > 0 /\ o[Len(o)] # "failed" => s = o[Len(o)]

\* OutcomesFaithful says of every job that its outcomes are Told.
LEMMA ToldMeans == OutcomesFaithful <=> \A j \in Jobs : Told(job[j], outcomes[j])
  BY DEF OutcomesFaithful, Told

\* The end of an attempt announced to a job that was active.
LEMMA ToldAppend ==
    ASSUME NEW o \in Seq(Terminal), NEW s \in {"queued", "running"}, NEW t \in Terminal, Told(s, o)
    PROVE  Told(t, Append(o, t)) /\ Append(o, t) \in Seq(Terminal)
<1>1. /\ Append(o, t) \in Seq(Terminal) /\ Len(Append(o, t)) = Len(o) + 1 /\ Len(o) \in Nat
      /\ Append(o, t)[Len(o) + 1] = t
      /\ \A k \in 1..Len(o) : Append(o, t)[k] = o[k]
  OBVIOUS
<1>2. Len(o) > 0 => o[Len(o)] = "failed"
  BY DEF Told, Terminal
<1>3. \A k \in 1..Len(o) : o[k] = "failed"
  BY <1>1, <1>2 DEF Told
<1>4. QED
  BY <1>1, <1>3 DEF Told

\* A job that is retried: what was announced stays.
LEMMA ToldActive ==
    ASSUME NEW o \in Seq(Terminal), NEW s \in {"queued", "running", "failed", "absent"},
           NEW t \in {"queued", "running"}, Told(s, o)
    PROVE  Told(t, o)
<1>1. Len(o) \in Nat
  OBVIOUS
<1>2. Len(o) > 0 => o[Len(o)] \in Terminal
  BY <1>1
<1>3. QED
  BY <1>1, <1>2 DEF Told, Terminal

\* What _save_job_outcome does to a job that is not finished: a cancelled one
\* stays as it is, any other takes the state, and the outcome is told.
LEMMA SavedEffect ==
    ASSUME TypeOK, OutcomesFaithful, NEW j \in Jobs,
           job[j] \in {"queued", "running", "cancelled"},
           NEW s \in {"queued", "running", "failed", "cancelled"}, Saved(j, s)
    PROVE  /\ job' \in [Jobs -> States]
           /\ outcomes' \in [Jobs -> Seq(Terminal)]
           /\ OutcomesFaithful'
           /\ \A i \in Jobs : i # j => job'[i] = job[i]
           /\ job'[j] = IF job[j] = "cancelled" THEN job[j] ELSE s
<1>1. \A i \in Jobs : Told(job[i], outcomes[i])
  BY ToldMeans
<1>2. CASE job[j] = "cancelled"
  BY <1>2 DEF Saved, TypeOK, OutcomesFaithful
<1>3. CASE job[j] # "cancelled"
  <2>1. job' = [job EXCEPT ![j] = s] /\ s \in States
    BY <1>3 DEF Saved, States, Terminal
  <2>2. CASE s \in Terminal
    <3>1. outcomes' = [outcomes EXCEPT ![j] = Append(outcomes[j], s)]
      BY <1>3, <2>2 DEF Saved, Terminal
    <3>2. Told(s, Append(outcomes[j], s)) /\ Append(outcomes[j], s) \in Seq(Terminal)
      <4>1. outcomes[j] \in Seq(Terminal) /\ job[j] \in {"queued", "running"}
        BY <1>3 DEF TypeOK
      <4>2. QED
        BY <4>1, <1>1, <2>2, ToldAppend
    <3>3. \A i \in Jobs : Told(job'[i], outcomes'[i])
      BY <1>1, <2>1, <3>1, <3>2 DEF TypeOK
    <3>4. OutcomesFaithful'
      BY <3>3 DEF OutcomesFaithful, Told
    <3>5. QED
      BY <1>3, <2>1, <3>1, <3>2, <3>4 DEF TypeOK
  <2>3. CASE s \notin Terminal
    <3>1. outcomes' = outcomes
      BY <1>3, <2>3 DEF Saved
    <3>2. Told(s, outcomes[j])
      <4>1. outcomes[j] \in Seq(Terminal) /\ job[j] \in {"queued", "running"} /\ s \in {"queued", "running"}
        BY <1>3, <2>3 DEF TypeOK, Terminal
      <4>2. QED
        BY <4>1, <1>1, ToldActive
    <3>3. \A i \in Jobs : Told(job'[i], outcomes'[i])
      BY <1>1, <2>1, <3>1, <3>2 DEF TypeOK
    <3>4. OutcomesFaithful'
      BY <3>3 DEF OutcomesFaithful, Told
    <3>5. QED
      BY <1>3, <2>1, <3>1, <3>4 DEF TypeOK
  <2>4. QED
    BY <2>2, <2>3
<1>4. QED
  BY <1>2, <1>3

-----------------------------------------------------------------------------
(* Directories *)

Publishing(j) == \E p \in Processes : pc[p] = "published" /\ at[p] = j

\* PublishedOnce, job by job.
Shown ==
    /\ \A j \in Jobs : j \in models <=> job[j] = "succeeded"
    /\ \A j \in Jobs : ~(j \in models /\ j \in orphans)
    /\ \A j \in Jobs : j \in directories <=> j \in models \/ j \in orphans \/ Publishing(j)

\* PublishedOnce is Shown.
LEMMA ShownMeans == ASSUME TypeOK PROVE PublishedOnce <=> Shown
  BY DEF TypeOK, PublishedOnce, Shown, Publishing

\* The same of the state after a step.
LEMMA ShownMeansNext == ASSUME TypeOK' PROVE PublishedOnce' <=> Shown'
  BY DEF TypeOK, PublishedOnce, Shown, Publishing

\* A step that changes neither a row nor a directory, and does not move a
\* worker to or from a publication, leaves what holds of rows and directories.
LEMMA QuietRows ==
    ASSUME IInv, TypeOK', UNCHANGED <<rows, directories, orphans>>,
           \A p \in Processes : (pc'[p] = "published") <=> (pc[p] = "published"),
           \A p \in Processes : pc[p] = "published" => at'[p] = at[p]
    PROVE  CancelledOK' /\ CancelRespected' /\ PublishedOnce' /\ OutcomesFaithful'
<1>1. CancelledOK' /\ CancelRespected' /\ OutcomesFaithful'
  BY DEF IInv, rows, CancelledOK, CancelRespected, OutcomesFaithful
<1>2. Shown'
  <2>1. Shown
    BY ShownMeans DEF IInv
  <2>2. \A j \in Jobs : Publishing(j) <=> Publishing(j)'
    BY DEF Publishing
  <2>3. QED
    BY <2>1, <2>2 DEF Shown, rows
<1>3. QED
  BY <1>1, <1>2, ShownMeansNext

\* A step of the worker of p within its attempt, or to its end, that leaves the
\* rows: Ineligible, Load, Fail, the checks, Inspect and Dies.
LEMMA QuietStep ==
    ASSUME IInv, NEW p \in Processes, NEW step \in Steps, NEW c \in Codes,
           pc[p] \notin {"idle", "dead", "published"} \/ (pc[p] = "idle" /\ step = "dead"),
           step # "published",
           UNCHANGED <<backend, rows, directories, waiting, retried, orphans>>,
           pc' = [pc EXCEPT ![p] = step], code' = [code EXCEPT ![p] = c],
           at' = IF step \in {"idle", "dead"} THEN [at EXCEPT ![p] = None] ELSE at,
           retries' \in Nat, failures' \in Nat,
           step \in {"claimed", "loaded", "overruling"} =>
               job[at[p]] \in {"queued", "running", "cancelled"},
           step \in {"training", "failing"} => job[at[p]] \in {"running", "cancelled"},
           step = "failing" => c \in {"cancelled", "shutdown", "failed"},
           step = "failing" /\ c = "cancelled" => at[p] \in cancels
    PROVE  IInv'
<1>1. TypeOK'
  BY DEF IInv, TypeOK, rows
<1>2. ClaimsOK'
  BY TrainingAssumption DEF IInv, TypeOK, ClaimsOK, Busy
<1>3. PhaseOK'
  <2>1. Busy(p) \/ step = "dead"
    BY DEF Busy
  <2>2. \A q \in Processes : q # p => pc'[q] = pc[q] /\ at'[q] = at[q] /\ code'[q] = code[q]
    BY DEF IInv, TypeOK
  <2>3. pc'[p] = step /\ code'[p] = c /\ (step \notin {"idle", "dead"} => at'[p] = at[p])
    BY DEF IInv, TypeOK
  <2>4. job' = job /\ cancels' = cancels /\ orphans' = orphans
    BY DEF rows
  <2>5. QED
    BY <2>1, <2>2, <2>3, <2>4 DEF IInv, PhaseOK, Busy
<1>4. QED
  <2>1. \A q \in Processes : (pc'[q] = "published") <=> (pc[q] = "published")
    BY DEF IInv, TypeOK
  <2>2. \A q \in Processes : pc[q] = "published" => at'[q] = at[q]
    BY DEF IInv, TypeOK
  <2>3. QED
    BY <1>1, <1>2, <1>3, <2>1, <2>2, QuietRows DEF IInv

\* A step of the worker of p that saves the state s of its job: Start,
\* SaveFailure and Overrule.
LEMMA SavedStep ==
    ASSUME IInv, NEW p \in Processes, NEW step \in {"training", "raised", "idle"}, NEW c \in Codes,
           NEW s \in {"queued", "running", "failed", "cancelled"},
           pc[p] \in {"loaded", "failing", "overruling"}, Saved(at[p], s),
           UNCHANGED <<backend, cancels, models, directories, waiting, retried, orphans, retries,
                       failures>>,
           pc' = [pc EXCEPT ![p] = step], code' = [code EXCEPT ![p] = c],
           at' = IF step = "idle" THEN [at EXCEPT ![p] = None] ELSE at,
           step = "training" => s = "running",
           s = "cancelled" => at[p] \in cancels
    PROVE  IInv'
<1> DEFINE j == at[p]
<1>1. j \in Jobs /\ Busy(p) /\ job[j] \in {"queued", "running", "cancelled"}
  BY TrainingAssumption DEF IInv, TypeOK, ClaimsOK, PhaseOK, Busy
<1>2. /\ job' \in [Jobs -> States]
      /\ outcomes' \in [Jobs -> Seq(Terminal)]
      /\ OutcomesFaithful'
      /\ \A i \in Jobs : i # j => job'[i] = job[i]
      /\ job'[j] = IF job[j] = "cancelled" THEN job[j] ELSE s
  BY <1>1, SavedEffect DEF IInv
<1>3. TypeOK'
  BY <1>2 DEF IInv, TypeOK, Steps
<1>4. ClaimsOK'
  BY <1>1, TrainingAssumption DEF IInv, TypeOK, ClaimsOK, Busy
<1>5. \A q \in Processes : q # p => pc'[q] = pc[q] /\ at'[q] = at[q] /\ code'[q] = code[q]
  BY DEF IInv, TypeOK
<1>6. pc'[p] = step /\ (step # "idle" => at'[p] = j)
  BY DEF IInv, TypeOK
<1>7. PhaseOK'
  <2>1. \A q \in Processes : q # p /\ Busy(q) => at[q] \in Jobs /\ at[q] # j
    BY <1>1, TrainingAssumption DEF IInv, TypeOK, ClaimsOK
  <2>2. \A q \in Processes : q # p /\ Busy(q) => job'[at'[q]] = job[at[q]]
    BY <1>2, <1>5, <2>1
  <2>3. ASSUME NEW q \in Processes, q # p
        PROVE  /\ Busy(q)' => job'[at'[q]] \in {"queued", "running", "cancelled", "failed"}
               /\ pc'[q] \in {"claimed", "loaded", "overruling"} =>
                     job'[at'[q]] \in {"queued", "running", "cancelled"}
               /\ pc'[q] \in {"training", "published", "failing"} =>
                     job'[at'[q]] \in {"running", "cancelled"}
               /\ pc'[q] = "failing" => code'[q] \in {"cancelled", "shutdown", "failed"}
               /\ pc'[q] = "failing" /\ code'[q] = "cancelled" => at'[q] \in cancels'
               /\ pc'[q] = "published" => at'[q] \notin orphans'
    BY <1>5, <2>2, <2>3 DEF IInv, PhaseOK, Busy
  <2>4. /\ Busy(p)' => job'[at'[p]] \in {"queued", "running", "cancelled", "failed"}
        /\ pc'[p] = "training" => job'[at'[p]] \in {"running", "cancelled"}
    BY <1>1, <1>2, <1>6 DEF Busy
  <2>5. QED
    BY <1>6, <2>3, <2>4 DEF PhaseOK
<1>8. CancelledOK' /\ CancelRespected'
  BY <1>1, <1>2 DEF IInv, CancelledOK, CancelRespected, TypeOK
<1>9. Shown'
  <2>1. Shown
    BY ShownMeans DEF IInv
  <2>2. \A i \in Jobs : Publishing(i) <=> Publishing(i)'
    BY <1>5, <1>6 DEF Publishing
  <2>3. \A i \in Jobs : job'[i] = "succeeded" <=> job[i] = "succeeded"
    BY <1>1, <1>2
  <2>4. QED
    BY <2>1, <2>2, <2>3 DEF Shown
<1>10. QED
  BY <1>2, <1>3, <1>4, <1>7, <1>8, <1>9, ShownMeansNext DEF IInv

-----------------------------------------------------------------------------
(* The calls *)

\* Submit and Requeue: a job nobody works on, or one whose worker is about to
\* look at it again, becomes queued.
LEMMA QueuedStep ==
    ASSUME IInv, TypeOK', NEW j \in Jobs, job[j] \in {"absent", "failed"},
           job' = [job EXCEPT ![j] = "queued"],
           UNCHANGED <<cancels, models, outcomes, directories, worker, orphans>>
    PROVE  IInv'
<1>1. \A i \in Jobs : job'[i] = IF i = j THEN "queued" ELSE job[i]
  BY DEF IInv, TypeOK
<1>2. ClaimsOK'
  BY DEF IInv, ClaimsOK, Busy, worker
<1>3. PhaseOK'
  <2>1. \A p \in Processes : Busy(p) => at[p] \in Jobs
    BY DEF IInv, TypeOK, ClaimsOK
  <2>2. \A p \in Processes :
           pc[p] \in {"training", "published", "failing"} => Busy(p) /\ at[p] # j
    BY DEF IInv, PhaseOK, Busy
  <2>3. QED
    BY <1>1, <2>1, <2>2 DEF IInv, PhaseOK, Busy, worker
<1>4. CancelledOK' /\ CancelRespected'
  BY <1>1 DEF IInv, TypeOK, CancelledOK, CancelRespected
<1>5. Shown'
  <2>1. Shown
    BY ShownMeans DEF IInv
  <2>2. \A i \in Jobs : Publishing(i) <=> Publishing(i)'
    BY DEF Publishing, worker
  <2>3. QED
    BY <1>1, <2>1, <2>2 DEF Shown
<1>6. OutcomesFaithful'
  <2>1. \A i \in Jobs : Told(job[i], outcomes[i])
    BY ToldMeans DEF IInv
  <2>2. Told("queued", outcomes[j])
    BY <2>1, ToldActive DEF IInv, TypeOK
  <2>3. \A i \in Jobs : Told(job'[i], outcomes'[i])
    BY <1>1, <2>1, <2>2
  <2>4. QED
    BY <2>3 DEF OutcomesFaithful, Told
<1>7. QED
  BY <1>2, <1>3, <1>4, <1>5, <1>6, ShownMeansNext DEF IInv

\* cancel_job: a queued job is cancelled at once, and told.
LEMMA CancelStep ==
    ASSUME IInv, NEW j \in Jobs, Cancel(j)
    PROVE  IInv'
<1>1. /\ job[j] \in {"queued", "running"}
      /\ cancels' = cancels \cup {j}
      /\ UNCHANGED <<backend, models, directories, worker, waiting, retried, orphans, retries, failures>>
  BY DEF Cancel
<1>2. /\ \A i \in Jobs : i # j => job'[i] = job[i]
      /\ job'[j] \in {"running", "cancelled"}
      /\ job[j] = "running" => job'[j] = "running"
      /\ job' \in [Jobs -> States]
      /\ outcomes' \in [Jobs -> Seq(Terminal)]
      /\ OutcomesFaithful'
  <2>1. CASE job[j] = "running"
    <3>1. job' = job /\ outcomes' = outcomes
      BY <2>1 DEF Cancel
    <3>2. QED
      BY <2>1, <3>1 DEF IInv, TypeOK, OutcomesFaithful
  <2>2. CASE job[j] = "queued"
    <3>1. Saved(j, "cancelled")
      BY <2>2 DEF Cancel, Saved, Terminal
    <3>2. QED
      BY <2>2, <3>1, SavedEffect DEF IInv
  <2>3. QED
    BY <1>1, <2>1, <2>2
<1>3. TypeOK'
  BY <1>1, <1>2 DEF IInv, TypeOK, worker
<1>4. ClaimsOK'
  BY <1>1 DEF IInv, ClaimsOK, Busy, worker
<1>5. PhaseOK'
  <2>1. \A p \in Processes : Busy(p) => at[p] \in Jobs
    BY DEF IInv, TypeOK, ClaimsOK
  <2>2. QED
    BY <1>1, <1>2, <2>1 DEF IInv, PhaseOK, Busy, worker
<1>6. CancelledOK' /\ CancelRespected'
  <2>1. \A i \in Jobs : i \in models <=> job[i] = "succeeded"
    BY ShownMeans DEF IInv, Shown
  <2>2. QED
    BY <1>1, <1>2, <2>1 DEF IInv, TypeOK, CancelledOK, CancelRespected
<1>7. Shown'
  <2>1. Shown
    BY ShownMeans DEF IInv
  <2>2. \A i \in Jobs : Publishing(i) <=> Publishing(i)'
    BY <1>1 DEF Publishing, worker
  <2>3. \A i \in Jobs : job'[i] = "succeeded" <=> job[i] = "succeeded"
    BY <1>1, <1>2
  <2>4. QED
    BY <1>1, <2>1, <2>2, <2>3 DEF Shown
<1>8. QED
  BY <1>2, <1>3, <1>4, <1>5, <1>6, <1>7, ShownMeansNext DEF IInv

-----------------------------------------------------------------------------
(* The claim and the publication *)

\* worker_claim takes a job no worker holds.
LEMMA ClaimStep ==
    ASSUME IInv, NEW p \in Processes, NEW j \in Jobs, Claim(p, j)
    PROVE  IInv'
<1>1. /\ pc[p] = "idle" /\ job[j] \in {"queued", "running"}
      /\ \A q \in Processes : at[q] # j
      /\ pc' = [pc EXCEPT ![p] = "claimed"] /\ at' = [at EXCEPT ![p] = j]
      /\ retried' = retried \ {j}
      /\ UNCHANGED <<backend, rows, directories, code, waiting, orphans, retries, failures>>
  BY DEF Claim, Waiting, Held
<1>2. TypeOK'
  BY <1>1 DEF IInv, TypeOK, rows, Steps
<1>3. ClaimsOK'
  BY <1>1, TrainingAssumption DEF IInv, TypeOK, ClaimsOK, Busy
<1>4. PhaseOK'
  BY <1>1 DEF IInv, TypeOK, PhaseOK, Busy, rows
<1>5. \A q \in Processes : /\ (pc'[q] = "published") <=> (pc[q] = "published")
                           /\ pc[q] = "published" => at'[q] = at[q]
  BY <1>1 DEF IInv, TypeOK
<1>6. QED
  BY <1>1, <1>2, <1>3, <1>4, <1>5, QuietRows DEF IInv

\* The rename takes a name nobody has: that of no model, no other publication
\* and no directory a crash left.
LEMMA PublishStep ==
    ASSUME IInv, NEW p \in Processes, Publish(p)
    PROVE  IInv'
<1> DEFINE j == at[p]
<1>1. /\ pc[p] = "training" /\ j \notin directories
      /\ directories' = directories \cup {j}
      /\ pc' = [pc EXCEPT ![p] = "published"] /\ at' = at /\ code' = code
      /\ UNCHANGED <<backend, job, cancels, models, outcomes, waiting, retried, orphans, retries, failures>>
  BY DEF Publish, Moves, rows
<1>2. j \in Jobs /\ Busy(p)
  BY <1>1 DEF IInv, TypeOK, ClaimsOK, Busy
<1>3. Shown
  BY ShownMeans DEF IInv
<1>4. TypeOK'
  BY <1>1, <1>2 DEF IInv, TypeOK, Steps
<1>5. ClaimsOK'
  BY <1>1 DEF IInv, TypeOK, ClaimsOK, Busy
<1>6. PhaseOK'
  BY <1>1, <1>2, <1>3 DEF IInv, TypeOK, PhaseOK, Busy, Shown
<1>7. CancelledOK' /\ CancelRespected' /\ OutcomesFaithful'
  BY <1>1 DEF IInv, CancelledOK, CancelRespected, OutcomesFaithful
<1>8. Shown'
  <2>1. \A i \in Jobs : Publishing(i)' <=> Publishing(i) \/ i = j
    BY <1>1 DEF IInv, TypeOK, Publishing
  <2>2. QED
    BY <1>1, <1>3, <2>1 DEF Shown
<1>9. QED
  BY <1>4, <1>5, <1>6, <1>7, <1>8, ShownMeansNext DEF IInv

\* Once p leaves its publication, its job is published by nobody else.
LEMMA PublishingElsewhere ==
    ASSUME IInv, NEW p \in Processes, pc[p] = "published", NEW step \in Steps, step # "published",
           pc' = [pc EXCEPT ![p] = step],
           \A q \in Processes : q # p => at'[q] = at[q]
    PROVE  \A i \in Jobs : Publishing(i)' <=> Publishing(i) /\ i # at[p]
<1>1. \A q \in Processes : pc[q] = "published" /\ at[q] = at[p] => q = p
  BY DEF IInv, ClaimsOK, Busy
<1>2. \A q \in Processes : pc'[q] = IF q = p THEN step ELSE pc[q]
  BY DEF IInv, TypeOK
<1>3. QED
  BY <1>1, <1>2 DEF Publishing

\* complete registers the model of a publication that nobody asked to cancel.
LEMMA CompleteStep ==
    ASSUME IInv, NEW p \in Processes, Complete(p)
    PROVE  IInv'
<1> DEFINE j == at[p]
<1>1. /\ pc[p] = "published" /\ j \notin cancels
      /\ models' = models \cup {j}
      /\ job' = [job EXCEPT ![j] = "succeeded"]
      /\ outcomes' = [outcomes EXCEPT ![j] = Append(outcomes[j], "succeeded")]
      /\ pc' = [pc EXCEPT ![p] = "idle"] /\ at' = [at EXCEPT ![p] = None]
      /\ code' = [code EXCEPT ![p] = "none"]
      /\ UNCHANGED <<backend, cancels, directories, waiting, retried, orphans, retries, failures>>
  BY DEF Complete, Ends
<1>2. j \in Jobs /\ Busy(p) /\ j \notin orphans /\ job[j] = "running"
  BY <1>1 DEF IInv, TypeOK, ClaimsOK, PhaseOK, CancelledOK, Busy
<1>3. Told("succeeded", Append(outcomes[j], "succeeded"))
      /\ Append(outcomes[j], "succeeded") \in Seq(Terminal)
  <2>1. outcomes[j] \in Seq(Terminal) /\ Told(job[j], outcomes[j])
    BY <1>2, ToldMeans DEF IInv, TypeOK
  <2>2. QED
    BY <1>2, <2>1, ToldAppend DEF Terminal
<1>4. TypeOK'
  BY <1>1, <1>2, <1>3 DEF IInv, TypeOK, Steps, Codes, States, Terminal
<1>5. ClaimsOK'
  BY <1>1, <1>2, TrainingAssumption DEF IInv, TypeOK, ClaimsOK, Busy
<1>6. PhaseOK'
  <2>1. \A q \in Processes : q # p =>
           pc'[q] = pc[q] /\ at'[q] = at[q] /\ code'[q] = code[q] /\ (Busy(q) => at[q] # j)
    BY <1>1, <1>2, TrainingAssumption DEF IInv, TypeOK, ClaimsOK
  <2>2. \A q \in Processes : q # p /\ Busy(q) => job'[at'[q]] = job[at[q]]
    BY <1>1, <2>1 DEF IInv, TypeOK, ClaimsOK
  <2>3. pc'[p] = "idle"
    BY <1>1 DEF IInv, TypeOK
  <2>4. QED
    BY <1>1, <2>1, <2>2, <2>3 DEF IInv, PhaseOK, Busy
<1>7. CancelledOK' /\ CancelRespected'
  BY <1>1, <1>2 DEF IInv, TypeOK, CancelledOK, CancelRespected
<1>8. Shown'
  <2>1. Shown
    BY ShownMeans DEF IInv
  <2>2. \A i \in Jobs : Publishing(i)' <=> Publishing(i) /\ i # j
    BY <1>1, PublishingElsewhere DEF IInv, TypeOK, Steps
  <2>3. Publishing(j)
    BY <1>1 DEF Publishing
  <2>4. QED
    BY <1>1, <1>2, <2>1, <2>2, <2>3 DEF Shown, IInv, TypeOK
<1>9. OutcomesFaithful'
  <2>1. \A i \in Jobs : Told(job[i], outcomes[i])
    BY ToldMeans DEF IInv
  <2>2. \A i \in Jobs : Told(job'[i], outcomes'[i])
    BY <1>1, <1>3, <2>1 DEF IInv, TypeOK
  <2>3. QED
    BY <2>2 DEF OutcomesFaithful, Told
<1>10. QED
  BY <1>4, <1>5, <1>6, <1>7, <1>8, <1>9, ShownMeansNext DEF IInv

\* When complete raises the directory loses its name with the publication.
LEMMA UnpublishStep ==
    ASSUME IInv, NEW p \in Processes, Unpublish(p)
    PROVE  IInv'
<1> DEFINE j == at[p]
<1>1. /\ pc[p] = "published" /\ directories' = directories \ {j}
      /\ pc' = [pc EXCEPT ![p] = "failing"] /\ at' = at
      /\ UNCHANGED <<backend, job, cancels, models, outcomes, waiting, retried, orphans, retries, failures>>
  BY DEF Unpublish, Fails, rows
<1>2. PICK c \in {"cancelled", "failed"} :
        code' = [code EXCEPT ![p] = c] /\ (c = "cancelled" => j \in cancels)
  BY DEF Unpublish, Fails
<1>3. j \in Jobs /\ Busy(p) /\ j \notin orphans /\ job[j] \in {"running", "cancelled"}
  BY <1>1 DEF IInv, TypeOK, ClaimsOK, PhaseOK, Busy
<1>4. TypeOK'
  BY <1>1, <1>2 DEF IInv, TypeOK, Steps, Codes
<1>5. ClaimsOK'
  BY <1>1 DEF IInv, TypeOK, ClaimsOK, Busy
<1>6. PhaseOK'
  BY <1>1, <1>2, <1>3 DEF IInv, TypeOK, PhaseOK, Busy
<1>7. CancelledOK' /\ CancelRespected' /\ OutcomesFaithful'
  BY <1>1 DEF IInv, CancelledOK, CancelRespected, OutcomesFaithful
<1>8. Shown'
  <2>1. Shown
    BY ShownMeans DEF IInv
  <2>2. \A i \in Jobs : Publishing(i)' <=> Publishing(i) /\ i # j
    BY <1>1, PublishingElsewhere DEF IInv, TypeOK, Steps
  <2>3. QED
    BY <1>1, <1>3, <2>1, <2>2 DEF Shown
<1>9. QED
  BY <1>4, <1>5, <1>6, <1>7, <1>8, ShownMeansNext DEF IInv

\* A crash leaves the directory of a publication under way to nobody.
LEMMA CrashStep ==
    ASSUME IInv, NEW p \in Processes, Crash(p)
    PROVE  IInv'
<1>1. /\ failures' = failures + 1
      /\ pc' = [pc EXCEPT ![p] = "idle"] /\ at' = [at EXCEPT ![p] = None]
      /\ code' = [code EXCEPT ![p] = "none"]
      /\ waiting' = [waiting EXCEPT ![p] = None]
      /\ orphans' = IF pc[p] = "published" THEN orphans \cup {at[p]} ELSE orphans
      /\ UNCHANGED <<backend, job, cancels, models, outcomes, directories, retried, retries>>
  BY DEF Crash, Ends, rows
<1>2. pc[p] = "published" => at[p] \in Jobs /\ job[at[p]] # "succeeded"
  BY DEF IInv, TypeOK, ClaimsOK, PhaseOK, Busy
<1>3. TypeOK'
  BY <1>1, <1>2 DEF IInv, TypeOK, Steps, Codes
<1>4. ClaimsOK'
  BY <1>1, TrainingAssumption DEF IInv, TypeOK, ClaimsOK, Busy
<1>5. PhaseOK'
  <2>1. \A q \in Processes : q # p =>
           pc'[q] = pc[q] /\ at'[q] = at[q] /\ code'[q] = code[q]
    BY <1>1 DEF IInv, TypeOK
  <2>2. \A q \in Processes : q # p /\ pc[q] = "published" => at[q] \notin orphans'
    BY <1>1 DEF IInv, ClaimsOK, PhaseOK, Busy
  <2>3. pc'[p] = "idle"
    BY <1>1 DEF IInv, TypeOK
  <2>4. QED
    BY <1>1, <2>1, <2>2, <2>3 DEF IInv, PhaseOK, Busy
<1>6. CancelledOK' /\ CancelRespected' /\ OutcomesFaithful'
  BY <1>1 DEF IInv, CancelledOK, CancelRespected, OutcomesFaithful
<1>7. Shown'
  <2>1. Shown
    BY ShownMeans DEF IInv
  <2>2. CASE pc[p] = "published"
    <3>1. \A i \in Jobs : Publishing(i)' <=> Publishing(i) /\ i # at[p]
      BY <1>1, <2>2, PublishingElsewhere DEF IInv, TypeOK, Steps
    <3>2. Publishing(at[p])
      BY <2>2 DEF Publishing
    <3>3. QED
      BY <1>1, <1>2, <2>1, <2>2, <3>1, <3>2 DEF Shown
  <2>3. CASE pc[p] # "published"
    <3>1. \A i \in Jobs : Publishing(i)' <=> Publishing(i)
      BY <1>1, <2>3 DEF IInv, TypeOK, Publishing
    <3>2. QED
      BY <1>1, <2>1, <2>3, <3>1 DEF Shown
  <2>4. QED
    BY <2>2, <2>3
<1>8. QED
  BY <1>3, <1>4, <1>5, <1>6, <1>7, ShownMeansNext DEF IInv

-----------------------------------------------------------------------------
(* The invariant *)

\* The empty queue satisfies the invariant.
LEMMA InitHolds == Init => IInv
<1> SUFFICES ASSUME Init PROVE IInv
  OBVIOUS
<1>1. TypeOK
  BY DEF Init, TypeOK, States, Steps, Codes
<1>2. QED
  BY <1>1 DEF Init, IInv, ClaimsOK, PhaseOK, CancelledOK, CancelRespected, PublishedOnce,
              OutcomesFaithful, Busy, Terminal

\* Every step of a worker preserves the invariant.
LEMMA WorkStep ==
    ASSUME IInv, NEW p \in Processes, Work(p)
    PROVE  IInv'
<1>t. /\ pc \in [Processes -> Steps] /\ at \in [Processes -> Jobs \cup {None}]
      /\ code \in [Processes -> Codes] /\ retries \in Nat /\ failures \in Nat
  BY DEF IInv, TypeOK
<1>c. code = [code EXCEPT ![p] = code[p]] /\ code[p] \in Codes
  BY <1>t
<1>p. /\ pc[p] \in {"claimed", "loaded", "overruling"} =>
           job[at[p]] \in {"queued", "running", "cancelled"}
      /\ pc[p] \in {"training", "published", "failing"} => job[at[p]] \in {"running", "cancelled"}
      /\ pc[p] = "failing" => code[p] \in {"cancelled", "shutdown", "failed"}
      /\ pc[p] = "failing" /\ code[p] = "cancelled" => at[p] \in cancels
  BY DEF IInv, PhaseOK
<1>1. CASE \E j \in Jobs : Claim(p, j)
  BY <1>1, ClaimStep
<1>2. CASE Ineligible(p)
  BY <1>2, <1>t, QuietStep DEF Ineligible, Fails, Steps, Codes
<1>3. CASE Load(p)
  <2>1. CASE job[at[p]] \in {"succeeded", "cancelled"}
    BY <1>3, <2>1, <1>t, QuietStep DEF Load, Ends, Steps, Codes
  <2>2. CASE job[at[p]] \notin {"succeeded", "cancelled"}
    BY <1>3, <2>2, <1>t, <1>c, <1>p, QuietStep DEF Load, Moves, Steps
  <2>3. QED
    BY <2>1, <2>2
<1>4. CASE Start(p)
  BY <1>4, <1>c, SavedStep DEF Start, Moves
<1>5. CASE Fail(p)
  BY <1>5, <1>t, <1>p, QuietStep DEF Fail, Fails, Steps, Codes
<1>6. CASE CheckCancelled(p)
  BY <1>6, <1>t, <1>p, QuietStep DEF CheckCancelled, Fails, Steps, Codes
<1>7. CASE CheckStopping(p)
  <2>1. /\ pc[p] = "training" /\ failures' \in Nat /\ retries' \in Nat
        /\ pc' = [pc EXCEPT ![p] = "failing"] /\ at' = at
        /\ code' = [code EXCEPT ![p] = "shutdown"]
        /\ UNCHANGED <<backend, rows, directories, waiting, retried, orphans>>
    BY <1>7, <1>t DEF CheckStopping, Fails
  <2>2. "failing" \in Steps /\ "shutdown" \in Codes
    BY DEF Steps, Codes
  <2>3. QED
    BY <2>1, <2>2, <1>p, QuietStep
<1>8. CASE Publish(p)
  BY <1>8, PublishStep
<1>9. CASE Complete(p)
  BY <1>9, CompleteStep
<1>10. CASE Unpublish(p)
  BY <1>10, UnpublishStep
<1>11. CASE SaveFailure(p)
  <2>1. CASE code[p] = "shutdown"
    BY <1>11, <2>1, SavedStep DEF SaveFailure, Ends, Codes
  <2>2. CASE code[p] # "shutdown"
    <3>1. code[p] \in {"failed", "cancelled"} /\ (code[p] = "cancelled" => at[p] \in cancels)
      BY <1>11, <2>2, <1>p DEF SaveFailure
    <3>2. QED
      BY <1>11, <2>2, <3>1, <1>c, SavedStep DEF SaveFailure, Moves
  <2>3. QED
    BY <2>1, <2>2
<1>12. CASE Inspect(p)
  <2>1. CASE job[at[p]] \in {"queued", "running"}
    BY <1>12, <2>1, <1>t, <1>c, QuietStep DEF Inspect, Moves, Steps
  <2>2. CASE job[at[p]] \notin {"queued", "running"}
    BY <1>12, <2>2, <1>t, QuietStep DEF Inspect, Ends, Steps, Codes
  <2>3. QED
    BY <2>1, <2>2
<1>13. CASE Overrule(p)
  BY <1>13, SavedStep DEF Overrule, Ends, Codes
<1>14. QED
  BY <1>1, <1>2, <1>3, <1>4, <1>5, <1>6, <1>7, <1>8, <1>9, <1>10, <1>11, <1>12, <1>13 DEF Work

\* While a call waits no other transaction runs, so its job stays failed.
LEMMA WaitingStep ==
    ASSUME IInv, WaitingOK, [Next]_vars
    PROVE  WaitingOK'
<1>1. CASE UNCHANGED waiting /\ UNCHANGED job
  BY <1>1 DEF WaitingOK
<1>2. CASE Unlocked /\ UNCHANGED waiting
  BY <1>2 DEF WaitingOK, Unlocked
<1>3. ASSUME NEW p \in Processes, NEW j \in Jobs, RequeueWaits(p, j) PROVE WaitingOK'
  BY <1>3 DEF IInv, TypeOK, WaitingOK, Unlocked, RequeueWaits, rows
<1>4. ASSUME NEW p \in Processes, RequeueGranted(p) PROVE WaitingOK'
  BY <1>4 DEF IInv, TypeOK, WaitingOK, RequeueGranted
<1>5. ASSUME NEW p \in Processes, Crash(p) PROVE WaitingOK'
  BY <1>5 DEF IInv, TypeOK, WaitingOK, Crash, rows
<1>6. ASSUME NEW p \in Processes, Work(p) PROVE WaitingOK'
  BY <1>6, <1>1, <1>2 DEF Work, Claim, Ineligible, Load, Start, Fail, CheckCancelled, CheckStopping,
        Publish, Complete, Unpublish, SaveFailure, Inspect, Overrule, rows
<1>7. QED
  BY <1>1, <1>2, <1>3, <1>4, <1>5, <1>6
     DEF Next, Submit, Requeue, Cancel, Dies, rows, vars

\* Every step preserves the invariant.
LEMMA NextStep == IInv /\ WaitingOK /\ [Next]_vars => IInv'
<1> SUFFICES ASSUME IInv, WaitingOK, [Next]_vars PROVE IInv'
  OBVIOUS
<1>1. ASSUME NEW j \in Jobs, Submit(j) PROVE IInv'
  <2>1. TypeOK'
    BY <1>1 DEF IInv, TypeOK, Submit, worker, States
  <2>2. QED
    BY <1>1, <2>1, QueuedStep DEF Submit
<1>2. ASSUME NEW j \in Jobs, Requeue(j) PROVE IInv'
  <2>1. TypeOK'
    BY <1>2 DEF IInv, TypeOK, Requeue, worker, States
  <2>2. QED
    BY <1>2, <2>1, QueuedStep DEF Requeue
<1>3. ASSUME NEW j \in Jobs, Cancel(j) PROVE IInv'
  BY <1>3, CancelStep
<1>4. ASSUME NEW p \in Processes, NEW j \in Jobs, RequeueWaits(p, j) PROVE IInv'
  <2>1. TypeOK'
    BY <1>4 DEF IInv, TypeOK, RequeueWaits, rows, worker
  <2>2. ClaimsOK' /\ PhaseOK'
    BY <1>4 DEF IInv, ClaimsOK, PhaseOK, Busy, RequeueWaits, rows, worker
  <2>3. QED
    BY <1>4, <2>1, <2>2, QuietRows DEF IInv, RequeueWaits, worker
<1>5. ASSUME NEW p \in Processes, RequeueGranted(p) PROVE IInv'
  <2>1. waiting[p] \in Jobs
    BY <1>5 DEF IInv, TypeOK, RequeueGranted
  <2>2. TypeOK'
    BY <1>5, <2>1 DEF IInv, TypeOK, RequeueGranted, worker, States
  <2>3. job[waiting[p]] = "failed"
    BY <1>5 DEF WaitingOK, RequeueGranted
  <2>4. QED
    BY <1>5, <2>1, <2>2, <2>3, QueuedStep DEF RequeueGranted
<1>6. ASSUME NEW p \in Processes, Work(p) PROVE IInv'
  BY <1>6, WorkStep
<1>7. ASSUME NEW p \in Processes, Dies(p) PROVE IInv'
  <2>1. /\ pc[p] \in Steps \ {"training", "published", "dead"}
        /\ failures' \in Nat /\ retries' \in Nat
        /\ pc' = [pc EXCEPT ![p] = "dead"] /\ at' = [at EXCEPT ![p] = None]
        /\ code' = [code EXCEPT ![p] = "none"]
        /\ UNCHANGED <<backend, rows, directories, waiting, retried, orphans>>
    BY <1>7 DEF Dies, IInv, TypeOK
  <2>2. "dead" \in Steps /\ "none" \in Codes
    BY DEF Steps, Codes
  <2>3. QED
    BY <2>1, <2>2, QuietStep
<1>8. ASSUME NEW p \in Processes, Crash(p) PROVE IInv'
  BY <1>8, CrashStep
<1>9. ASSUME UNCHANGED vars PROVE IInv'
  BY <1>9 DEF vars, rows, worker, IInv, TypeOK, ClaimsOK, PhaseOK, CancelledOK, CancelRespected,
              PublishedOnce, OutcomesFaithful, Busy
<1>10. QED
  BY <1>1, <1>2, <1>3, <1>4, <1>5, <1>6, <1>7, <1>8, <1>9 DEF Next

\* The invariant holds of every behaviour.
LEMMA Invariance == Spec => [](IInv /\ WaitingOK)
<1>1. Init => IInv /\ WaitingOK
  BY InitHolds DEF Init, WaitingOK
<1>2. IInv /\ WaitingOK /\ [Next]_vars => IInv' /\ WaitingOK'
  BY NextStep, WaitingStep
<1>3. QED
  BY <1>1, <1>2, PTL DEF Spec

\* The queue keeps its types.
THEOREM TypeCorrect == Spec => []TypeOK
<1>1. IInv => TypeOK
  BY DEF IInv
<1>2. QED
  BY <1>1, Invariance, PTL

\* Once cancel_job has answered the job never succeeds, wherever its worker is
\* and however many processes, retries and failures there are.
THEOREM CancelCorrect == Spec => []CancelRespected
<1>1. IInv => CancelRespected
  BY DEF IInv
<1>2. QED
  BY <1>1, Invariance, PTL

\* Artifact directories and registered models match, but for publications under
\* way and the directories of crashes, which no retry registers.
THEOREM PublishedCorrect == Spec => []PublishedOnce
<1>1. IInv => PublishedOnce
  BY DEF IInv
<1>2. QED
  BY <1>1, Invariance, PTL

\* training.completed events tell the job's terminal state, and nothing follows
\* a success or a cancellation.
THEOREM OutcomesCorrect == Spec => []OutcomesFaithful
<1>1. IInv => OutcomesFaithful
  BY DEF IInv
<1>2. QED
  BY <1>1, Invariance, PTL

-----------------------------------------------------------------------------
(* The attempts of Checkpoints *)

\* Every step of an attempt is a step of Training's worker or leaves its state alone.
LEMMA AttemptStep ==
    ASSUME NEW p \in Processes, Attempt(p)
    PROVE  Work(p) \/ UNCHANGED vars
<1>1. CASE Start(p) /\ Phase(p, "starting")
  BY <1>1 DEF Work
<1>2. CASE Prepare(p)
  BY <1>2 DEF Prepare, Work
<1>3. CASE Restore(p) \/ (\E reason \in {"cancelled", "shutdown", "failed"} : Interrupt(p, reason))
           \/ Train(p) \/ Write(p) \/ Rename(p) \/ Record(p) \/ Archive(p)
  BY <1>3 DEF Restore, Interrupt, Train, Write, Rename, Record, Archive
<1>4. CASE Resume(p)
  BY <1>4 DEF Resume, Work
<1>5. CASE Raise(p)
  BY <1>5 DEF Raise, Work
<1>6. CASE Checked(p)
  BY <1>6 DEF Checked, Work
<1>7. CASE Export(p)
  BY <1>7 DEF Export, Work
<1>8. CASE Break(p)
  BY <1>8 DEF Break, Work
<1>9. QED
  BY <1>1, <1>2, <1>3, <1>4, <1>5, <1>6, <1>7, <1>8 DEF Attempt

\* So is every step of the module.
LEMMA DetailedStep == [CheckpointsNext]_checkpointVars => [Next]_vars
<1> SUFFICES ASSUME [CheckpointsNext]_checkpointVars PROVE [Next]_vars
  OBVIOUS
<1>1. CASE UNCHANGED checkpointVars
  BY <1>1 DEF checkpointVars
<1>2. ASSUME NEW j \in Jobs, Submit(j) \/ Requeue(j) \/ Cancel(j) PROVE Next
  BY <1>2 DEF Next
<1>3. ASSUME NEW p \in Processes,
             (\E j \in Jobs : RequeueWaits(p, j)) \/ RequeueGranted(p) \/ Dies(p) \/ Crash(p)
      PROVE  Next
  BY <1>3 DEF Next
<1>4. ASSUME NEW p \in Processes, Outside(p) PROVE Next
  <2>1. Work(p)
    BY <1>4 DEF Outside, Work
  <2>2. QED
    BY <2>1 DEF Next
<1>5. ASSUME NEW p \in Processes, Attempt(p) PROVE [Next]_vars
  BY <1>5, AttemptStep DEF Next
<1>6. QED
  BY <1>1, <1>2, <1>3, <1>4, <1>5 DEF CheckpointsNext

\* The detailed attempts implement Training.
THEOREM ImplementsTraining == CheckpointsSpec => Spec
<1>1. CheckpointsInit => Init
  BY DEF CheckpointsInit
<1>2. QED
  BY <1>1, DetailedStep, PTL DEF CheckpointsSpec, Spec

\* Directories, models and orphans stay apart across every checkpoint, crash
\* and retry.
THEOREM DetailedPublishedOnce == CheckpointsSpec => []PublishedOnce
  BY ImplementsTraining, PublishedCorrect, PTL

-----------------------------------------------------------------------------
(* Checkpoints *)

\* The directories W beside the export and A in the archive of a job of n steps
\* with R recorded: every one was trained as far as its name says, none is in
\* both places, and what is recorded is in one of them.
Files(W, A, R, n) ==
    /\ W \subseteq Directories /\ A \subseteq Directories
    /\ \A d \in W \cup A : d.learned = d.step /\ n \in Nat /\ d.step <= n
    /\ W \cap A = {}
    /\ R \subseteq StepsOf(W \cup A)

\* An attempt t at a job of n steps, with the exported weights X: the archive is
\* empty from the restore to the end of training, and once a destination is
\* published no attempt passes its start.
Attempting(t, W, A, X, n, published) ==
    /\ t \in Tasks /\ t.phase # "none" /\ t.learned = t.step
    /\ n \in Nat /\ t.step <= n
    /\ t.phase # "starting" => ~published
    /\ t.phase \notin {"starting", "restoring", "archiving"} => A = {}
    /\ t.phase = "recording" => t.step \in StepsOf(W)
    /\ t.phase \in {"trained", "archiving"} => X = n

FilesOK == \A j \in Jobs : Files(working[j], archive[j], refs[j], steps[j])

InAttempt(p) == pc[p] = "training" /\ steps[at[p]] # None

AttemptsOK ==
    \A p \in Processes :
        IF InAttempt(p)
        THEN LET j == at[p] IN
             Attempting(task[p], working[j], archive[j], export[j], steps[j], j \in directories)
        ELSE task[p] = NoTask

\* The inductive invariant of the detailed attempts, beside Training's own.
CInv == CheckpointsTypeOK /\ FilesOK /\ AttemptsOK /\ ExportExact

\* A non-empty set of naturals has a least element.
LEMMA Least ==
    ASSUME NEW S, S \subseteq Nat, S # {}
    PROVE  \E m \in S : \A n \in S : m <= n
<1>1. PICK m \in S : \A n \in S : ~(<<n, m>> \in OpToRel(<, Nat))
  BY NatLessThanWellFounded, WFMin, Zenon
<1>2. ASSUME NEW n \in S PROVE m <= n
  <2>1. m \in Nat /\ n \in Nat
    OBVIOUS
  <2>2. ~(n < m)
    BY <1>1, <2>1 DEF OpToRel
  <2> QED
    BY <2>1, <2>2
<1> QED
  BY <1>2

\* Recorded steps are numbers.
LEMMA StepsType == \A W, A, R, n : Files(W, A, R, n) => R \subseteq Nat
<1>1. \A D : D \subseteq Directories => StepsOf(D) \subseteq Nat
  BY DEF StepsOf, Final, Directories
<1> QED
  BY <1>1 DEF Files

\* The first directory to be moved is one of them.
LEMMA FirstIn ==
    ASSUME NEW D, D \subseteq Directories, D # {}
    PROVE  First(D) \in D
<1> DEFINE Before(d, e) == \/ d.temporary /\ ~e.temporary
                           \/ d.temporary = e.temporary /\ d.step <= e.step
<1>1. ASSUME NEW E, E \subseteq D, E # {}
      PROVE  \E d \in E : \A e \in E : d.step <= e.step
  <2> DEFINE S == {e.step : e \in E}
  <2>1. S \subseteq Nat /\ S # {}
    BY <1>1 DEF Directories
  <2>2. PICK m \in S : \A n \in S : m <= n
    BY <2>1, Least
  <2> QED
    BY <2>2
<1>2. \A d \in D : d.temporary \in BOOLEAN
  BY DEF Directories
<1>3. \E d \in D : \A e \in D : Before(d, e)
  <2>1. CASE \E d \in D : d.temporary
    <3> DEFINE E == {d \in D : d.temporary}
    <3>1. PICK d \in E : \A e \in E : d.step <= e.step
      BY <1>1, <2>1
    <3>2. ASSUME NEW e \in D PROVE Before(d, e)
      <4>1. CASE e.temporary
        BY <1>2, <3>1, <4>1
      <4>2. CASE ~e.temporary
        BY <3>1, <4>2
      <4> QED
        BY <4>1, <4>2
    <3> QED
      BY <3>1, <3>2
  <2>2. CASE ~ \E d \in D : d.temporary
    <3>1. PICK d \in D : \A e \in D : d.step <= e.step
      BY <1>1
    <3>2. \A e \in D : d.temporary = e.temporary
      BY <1>2, <2>2
    <3> QED
      BY <3>1, <3>2
  <2> QED
    BY <2>1, <2>2
<1> QED
  BY <1>3 DEF First

\* The checkpoint resumed from is trained as far as its name says.
LEMMA LatestIn ==
    ASSUME NEW D, D \subseteq Directories, NEW n \in Nat,
           \A d \in D : d.learned = d.step /\ d.step <= n
    PROVE  Latest(D).learned = Latest(D).step /\ Latest(D).step \in Nat /\ Latest(D).step <= n
<1>1. CASE Final(D) = {}
  BY <1>1 DEF Latest
<1>2. CASE Final(D) # {}
  <2> DEFINE S == {n - e.step : e \in Final(D)}
  <2>0. Final(D) \subseteq D
    BY DEF Final
  <2>1. S \subseteq Nat /\ S # {}
    BY <1>2, <2>0 DEF Directories
  <2>2. PICK m \in S : \A k \in S : m <= k
    BY <2>1, Least
  <2>3. PICK d \in Final(D) : m = n - d.step
    BY <2>2
  <2>4. ASSUME NEW e \in Final(D) PROVE e.step <= d.step
    <3>1. e.step \in Nat /\ d.step \in Nat
      BY <2>0 DEF Directories
    <3>2. n - d.step <= n - e.step
      BY <2>2, <2>3
    <3> QED
      BY <3>1, <3>2
  <2>5. Latest(D) \in Final(D)
    BY <1>2, <2>4 DEF Latest
  <2> QED
    BY <2>0, <2>5 DEF Directories
<1> QED
  BY <1>1, <1>2

\* Names are never taken: two directories of one name were trained alike.
LEMMA NamesApart ==
    ASSUME CInv, NEW j \in Jobs
    PROVE  ~Collide(j)
<1> SUFFICES ASSUME NEW d \in working[j], NEW e \in archive[j], Name(d) = Name(e) PROVE FALSE
  BY DEF Collide, Names
<1>1. Files(working[j], archive[j], refs[j], steps[j])
  BY DEF CInv, FilesOK
<1>2. d \in Directories /\ e \in Directories /\ d.learned = d.step /\ e.learned = e.step
  BY <1>1 DEF Files
<1>3. d.temporary = e.temporary /\ d.step = e.step
  BY DEF Name
<1>4. d = e
  BY <1>2, <1>3 DEF Directories
<1> QED
  BY <1>1, <1>4 DEF Files

-----------------------------------------------------------------------------
(* What keeps the invariant of the attempts *)

\* The job of a worker in an attempt is its own.
LEMMA OwnJob ==
    ASSUME IInv, CInv, NEW p \in Processes, InAttempt(p)
    PROVE  /\ at[p] \in Jobs /\ steps[at[p]] \in Nat
           /\ \A q \in Processes : q # p /\ at[q] = at[p] => FALSE
<1>1. at[p] \in Jobs /\ at[p] # None
  BY DEF IInv, TypeOK, ClaimsOK, Busy, InAttempt
<1>2. steps[at[p]] \in Nat
  BY <1>1, CheckpointsAssumption DEF CInv, CheckpointsTypeOK, InAttempt
<1> QED
  BY <1>1, <1>2 DEF IInv, ClaimsOK

\* A worker goes on with its attempt, which touches the files of its job only.
LEMMA AttemptKept ==
    ASSUME IInv, CInv, NEW p \in Processes, InAttempt(p), UNCHANGED <<vars, steps>>,
           NEW W, NEW A, NEW R, NEW X, NEW t,
           working' = [working EXCEPT ![at[p]] = W], archive' = [archive EXCEPT ![at[p]] = A],
           refs' = [refs EXCEPT ![at[p]] = R], export' = [export EXCEPT ![at[p]] = X],
           task' = [task EXCEPT ![p] = t],
           Files(W, A, R, steps[at[p]]),
           Attempting(t, W, A, X, steps[at[p]], at[p] \in directories),
           X \in Nat \cup {None},
           at[p] \in directories => W = {} /\ X = steps[at[p]]
    PROVE  CInv'
<1> DEFINE j == at[p]
<1>1. j \in Jobs /\ \A q \in Processes : q # p => at[q] # j
  BY OwnJob
<1>2. UNCHANGED <<pc, at, directories, steps>>
  BY DEF vars, worker
<1>3. CheckpointsTypeOK'
  <2>1. W \subseteq Directories /\ A \subseteq Directories /\ R \subseteq Nat /\ t \in Tasks
    BY StepsType DEF Files, Attempting
  <2> QED
    BY <1>2, <2>1 DEF CInv, CheckpointsTypeOK
<1>4. /\ working'[j] = W /\ archive'[j] = A /\ refs'[j] = R /\ export'[j] = X
      /\ \A i \in Jobs : i # j => /\ working'[i] = working[i] /\ archive'[i] = archive[i]
                                  /\ refs'[i] = refs[i] /\ export'[i] = export[i]
  BY <1>1 DEF CInv, CheckpointsTypeOK
<1>5. task'[p] = t /\ \A q \in Processes : q # p => task'[q] = task[q]
  BY DEF CInv, CheckpointsTypeOK
<1>6. FilesOK'
  <2>1. ASSUME NEW i \in Jobs PROVE Files(working'[i], archive'[i], refs'[i], steps[i])
    BY <1>4 DEF CInv, FilesOK
  <2> QED
    BY <1>2, <2>1 DEF FilesOK
<1>7. AttemptsOK'
  <2>1. ASSUME NEW q \in Processes
        PROVE  IF InAttempt(q)
               THEN Attempting(task'[q], working'[at[q]], archive'[at[q]], export'[at[q]],
                               steps[at[q]], at[q] \in directories)
               ELSE task'[q] = NoTask
    <3>1. CASE q = p
      BY <1>4, <1>5, <3>1
    <3>2. CASE q # p /\ InAttempt(q)
      <4>1. at[q] \in Jobs /\ at[q] # j
        BY <1>1, <3>2, OwnJob
      <4> QED
        BY <1>4, <1>5, <3>2, <4>1 DEF CInv, AttemptsOK
    <3>3. CASE q # p /\ ~InAttempt(q)
      BY <1>5, <3>3 DEF CInv, AttemptsOK
    <3> QED
      BY <3>1, <3>2, <3>3
  <2> QED
    BY <1>2, <2>1 DEF AttemptsOK, InAttempt
<1>8. ExportExact'
  <2>1. ASSUME NEW i \in directories, steps[i] # None
        PROVE  working'[i] = {} /\ export'[i] = steps[i]
    <3>1. i \in Jobs
      BY DEF IInv, TypeOK
    <3> QED
      BY <1>4, <2>1, <3>1 DEF CInv, ExportExact
  <2> QED
    BY <1>2, <2>1 DEF ExportExact
<1> QED
  BY <1>3, <1>6, <1>7, <1>8 DEF CInv

\* A worker leaves its attempt, by raising, crashing or publishing.
LEMMA LeavesKept ==
    ASSUME IInv, CInv, NEW p \in Processes, UNCHANGED <<steps, refs, disk>>, Leaves(p),
           pc'[p] # "training",
           \A q \in Processes : q # p => pc'[q] = pc[q] /\ at'[q] = at[q],
           \A j \in directories' : j \in directories \/ (InAttempt(p) /\ j = at[p]
                                     /\ working[j] = {} /\ export[j] = steps[j])
    PROVE  CInv'
<1>1. task'[p] = NoTask /\ \A q \in Processes : q # p => task'[q] = task[q]
  BY DEF Leaves, CInv, CheckpointsTypeOK
<1>2. UNCHANGED <<steps, refs, working, archive, export>>
  BY DEF disk
<1>3. CheckpointsTypeOK' /\ FilesOK'
  <2>1. NoTask \in Tasks
    BY DEF NoTask, Tasks, Phases
  <2> QED
    BY <1>2, <2>1 DEF CInv, CheckpointsTypeOK, FilesOK, Leaves
<1>4. ExportExact'
  BY <1>2 DEF CInv, ExportExact
<1>5. AttemptsOK'
  <2>1. ASSUME NEW q \in Processes
        PROVE  IF pc'[q] = "training" /\ steps[at'[q]] # None
               THEN Attempting(task'[q], working[at'[q]], archive[at'[q]], export[at'[q]],
                               steps[at'[q]], at'[q] \in directories')
               ELSE task'[q] = NoTask
    <3>1. CASE q = p
      BY <1>1, <3>1
    <3>2. CASE q # p /\ ~InAttempt(q)
      BY <1>1, <3>2 DEF CInv, AttemptsOK, InAttempt
    <3>3. CASE q # p /\ InAttempt(q)
      <4>1. at[q] \in directories' => at[q] \in directories
        BY <3>3, OwnJob
      <4>2. Attempting(task[q], working[at[q]], archive[at[q]], export[at[q]], steps[at[q]],
                       at[q] \in directories)
        BY <3>3 DEF CInv, AttemptsOK
      <4>3. Attempting(task[q], working[at[q]], archive[at[q]], export[at[q]], steps[at[q]],
                       at[q] \in directories')
        BY <4>1, <4>2 DEF Attempting
      <4> QED
        BY <1>1, <3>3, <4>3 DEF InAttempt
    <3> QED
      BY <3>1, <3>2, <3>3
  <2> QED
    BY <1>2, <2>1 DEF AttemptsOK, InAttempt
<1> QED
  BY <1>3, <1>4, <1>5 DEF CInv

\* Steps outside the attempts touch no file.
LEMMA OutsideKept ==
    ASSUME IInv, CInv, UNCHANGED checkpointing,
           \A q \in Processes : /\ InAttempt(q)' <=> InAttempt(q)
                                /\ InAttempt(q) => at'[q] = at[q],
           \A j \in directories' : j \in directories \/ steps[j] = None
    PROVE  CInv'
<1>1. UNCHANGED <<steps, refs, working, archive, export, task>>
  BY DEF checkpointing, disk
<1>2. CheckpointsTypeOK' /\ FilesOK'
  BY <1>1 DEF CInv, CheckpointsTypeOK, FilesOK
<1>3. ExportExact'
  BY <1>1 DEF CInv, ExportExact
<1>4. AttemptsOK'
  <2>1. ASSUME NEW q \in Processes
        PROVE  IF InAttempt(q)'
               THEN Attempting(task[q], working[at'[q]], archive[at'[q]], export[at'[q]],
                               steps[at'[q]], at'[q] \in directories')
               ELSE task[q] = NoTask
    <3>1. CASE ~InAttempt(q)
      BY <3>1 DEF CInv, AttemptsOK
    <3>2. CASE InAttempt(q)
      <4>1. at[q] \in directories' => at[q] \in directories
        BY <3>2 DEF InAttempt
      <4>2. Attempting(task[q], working[at[q]], archive[at[q]], export[at[q]], steps[at[q]],
                       at[q] \in directories)
        BY <3>2 DEF CInv, AttemptsOK
      <4>3. Attempting(task[q], working[at[q]], archive[at[q]], export[at[q]], steps[at[q]],
                       at[q] \in directories')
        BY <4>1, <4>2 DEF Attempting
      <4> QED
        BY <3>2, <4>3
    <3> QED
      BY <3>1, <3>2
  <2> QED
    BY <1>1, <2>1 DEF AttemptsOK
<1> QED
  BY <1>2, <1>3, <1>4 DEF CInv

-----------------------------------------------------------------------------
(* The steps of an attempt *)

\* What the invariant says of the attempt p is in.
LEMMA AttemptFacts ==
    ASSUME IInv, CInv, NEW p \in Processes, pc[p] = "training", task[p].phase # "none"
    PROVE  /\ InAttempt(p)
           /\ Files(working[at[p]], archive[at[p]], refs[at[p]], steps[at[p]])
           /\ Attempting(task[p], working[at[p]], archive[at[p]], export[at[p]], steps[at[p]],
                         at[p] \in directories)
           /\ at[p] \in directories => working[at[p]] = {} /\ export[at[p]] = steps[at[p]]
           /\ working = [working EXCEPT ![at[p]] = working[at[p]]]
           /\ archive = [archive EXCEPT ![at[p]] = archive[at[p]]]
           /\ refs = [refs EXCEPT ![at[p]] = refs[at[p]]]
           /\ export = [export EXCEPT ![at[p]] = export[at[p]]]
           /\ export[at[p]] \in Nat \cup {None}
<1>1. InAttempt(p)
  BY DEF CInv, AttemptsOK, NoTask
<1>2. at[p] \in Jobs
  BY <1>1, OwnJob
<1>3. /\ working = [working EXCEPT ![at[p]] = working[at[p]]]
      /\ archive = [archive EXCEPT ![at[p]] = archive[at[p]]]
      /\ refs = [refs EXCEPT ![at[p]] = refs[at[p]]]
      /\ export = [export EXCEPT ![at[p]] = export[at[p]]]
      /\ export[at[p]] \in Nat \cup {None}
  BY <1>2 DEF CInv, CheckpointsTypeOK
<1>4. at[p] \in directories => working[at[p]] = {} /\ export[at[p]] = steps[at[p]]
  BY <1>1 DEF CInv, ExportExact, InAttempt
<1>5. Attempting(task[p], working[at[p]], archive[at[p]], export[at[p]], steps[at[p]],
                 at[p] \in directories)
  BY <1>1 DEF CInv, AttemptsOK
<1>6. Files(working[at[p]], archive[at[p]], refs[at[p]], steps[at[p]])
  BY <1>2 DEF CInv, FilesOK
<1> QED
  BY <1>1, <1>3, <1>4, <1>5, <1>6

\* The attempt begins.
LEMMA StartKept ==
    ASSUME IInv, CInv, NEW p \in Processes, Start(p), Detailed(p), Phase(p, "starting"),
           UNCHANGED <<steps, refs, disk>>
    PROVE  CInv'
<1>1. /\ pc[p] = "loaded" /\ pc' = [pc EXCEPT ![p] = "training"] /\ at' = at
      /\ directories' = directories
  BY DEF Start, Moves
<1>2. at[p] \in Jobs /\ steps[at[p]] \in Nat
  <2>1. at[p] \in Jobs
    BY <1>1 DEF IInv, TypeOK, ClaimsOK, Busy
  <2> QED
    BY <2>1, CheckpointsAssumption DEF CInv, CheckpointsTypeOK, Detailed
<1>3. task[p] = NoTask
  BY <1>1 DEF CInv, AttemptsOK, InAttempt
<1>4. /\ task'[p].phase = "starting" /\ task'[p].step = 0 /\ task'[p].learned = 0
      /\ task'[p] \in Tasks
      /\ \A q \in Processes : q # p => task'[q] = task[q]
  BY <1>3 DEF Phase, NoTask, CInv, CheckpointsTypeOK, Tasks, Phases
<1>5. UNCHANGED <<steps, refs, working, archive, export>>
  BY DEF disk
<1>6. CheckpointsTypeOK' /\ FilesOK' /\ ExportExact'
  BY <1>1, <1>4, <1>5 DEF CInv, CheckpointsTypeOK, FilesOK, ExportExact, Phase
<1>7. AttemptsOK'
  <2>1. ASSUME NEW q \in Processes
        PROVE  IF pc'[q] = "training" /\ steps[at[q]] # None
               THEN Attempting(task'[q], working[at[q]], archive[at[q]], export[at[q]],
                               steps[at[q]], at[q] \in directories)
               ELSE task'[q] = NoTask
    <3>1. CASE q = p
      <4>1. Attempting(task'[p], working[at[p]], archive[at[p]], export[at[p]], steps[at[p]],
                       at[p] \in directories)
        BY <1>2, <1>4 DEF Attempting, Phases
      <4>2. pc'[p] = "training" /\ steps[at[p]] # None
        BY <1>1 DEF IInv, TypeOK, Detailed
      <4> QED
        BY <3>1, <4>1, <4>2
    <3>2. CASE q # p
      BY <1>1, <1>4, <3>2 DEF CInv, AttemptsOK, InAttempt, IInv, TypeOK
    <3> QED
      BY <3>1, <3>2
  <2> QED
    BY <1>1, <1>5, <2>1 DEF AttemptsOK, InAttempt
<1> QED
  BY <1>6, <1>7 DEF CInv

\* An attempt that fails or is stopped leaves the files as they are.
LEMMA FailKept ==
    ASSUME IInv, CInv, NEW p \in Processes, Fail(p) \/ CheckCancelled(p) \/ CheckStopping(p),
           Leaves(p), UNCHANGED <<steps, refs, disk>>
    PROVE  CInv'
<1>1. pc' = [pc EXCEPT ![p] = "failing"] /\ at' = at /\ directories' = directories
  BY DEF Fail, CheckCancelled, CheckStopping, Fails
<1>2. pc'[p] # "training" /\ \A q \in Processes : q # p => pc'[q] = pc[q] /\ at'[q] = at[q]
  BY <1>1 DEF IInv, TypeOK
<1> QED
  BY <1>1, <1>2, LeavesKept

\* A worker goes on and changes no file.
LEMMA TaskKept ==
    ASSUME IInv, CInv, NEW p \in Processes, pc[p] = "training", task[p].phase # "none",
           UNCHANGED <<vars, steps>>, UNCHANGED disk, NEW R, NEW t,
           refs' = [refs EXCEPT ![at[p]] = R], task' = [task EXCEPT ![p] = t],
           Files(working[at[p]], archive[at[p]], R, steps[at[p]]),
           Attempting(t, working[at[p]], archive[at[p]], export[at[p]], steps[at[p]],
                      at[p] \in directories)
    PROVE  CInv'
<1> DEFINE W == working[at[p]]
           A == archive[at[p]]
           X == export[at[p]]
<1>1. /\ InAttempt(p)
      /\ at[p] \in directories => W = {} /\ X = steps[at[p]]
      /\ working' = [working EXCEPT ![at[p]] = W]
      /\ archive' = [archive EXCEPT ![at[p]] = A]
      /\ export' = [export EXCEPT ![at[p]] = X]
      /\ X \in Nat \cup {None}
  BY AttemptFacts DEF disk
<1>2. Files(W, A, R, steps[at[p]]) /\ Attempting(t, W, A, X, steps[at[p]], at[p] \in directories)
  OBVIOUS
<1> HIDE DEF W, A, X
<1> QED
  BY <1>1, <1>2, AttemptKept

\* An attempt in another phase.
LEMMA InPhase ==
    ASSUME NEW t \in Tasks, NEW phase \in Phases
    PROVE  LET u == [t EXCEPT !.phase = phase] IN
           /\ u \in Tasks /\ u.phase = phase /\ u.step = t.step /\ u.learned = t.learned
           /\ u.reports = t.reports /\ u.raising = t.raising
  BY DEF Tasks

\* An attempt one step on.
LEMMA Trained ==
    ASSUME NEW t \in Tasks, NEW phase \in Phases
    PROVE  LET u == [t EXCEPT !.step = @ + 1, !.learned = @ + 1, !.phase = phase] IN
           u \in Tasks /\ u.phase = phase /\ u.step = t.step + 1 /\ u.learned = t.learned + 1
<1>1. ASSUME NEW a \in Nat, NEW b \in Nat
      PROVE  LET u == [t EXCEPT !.step = a, !.learned = b, !.phase = phase] IN
             u \in Tasks /\ u.phase = phase /\ u.step = a /\ u.learned = b
  BY DEF Tasks
<1>2. t.step + 1 \in Nat /\ t.learned + 1 \in Nat
  BY DEF Tasks
<1> QED
  BY <1>1, <1>2

\* Only the phase of the attempt and what is recorded change.
LEMMA PhaseKept ==
    ASSUME IInv, CInv, NEW p \in Processes, pc[p] = "training", task[p].phase # "none",
           UNCHANGED <<vars, steps>>, UNCHANGED disk, NEW R, NEW phase \in Phases \ {"none"},
           refs' = [refs EXCEPT ![at[p]] = R], Phase(p, phase),
           Files(working[at[p]], archive[at[p]], R, steps[at[p]]),
           phase # "starting" => at[p] \notin directories,
           phase \notin {"starting", "restoring", "archiving"} => archive[at[p]] = {},
           phase = "recording" => task[p].step \in StepsOf(working[at[p]]),
           phase \in {"trained", "archiving"} => export[at[p]] = steps[at[p]]
    PROVE  CInv'
<1> DEFINE t == [task[p] EXCEPT !.phase = phase]
<1>1. task' = [task EXCEPT ![p] = t]
  BY DEF Phase
<1>2. Attempting(task[p], working[at[p]], archive[at[p]], export[at[p]], steps[at[p]],
                 at[p] \in directories)
  BY AttemptFacts
<1>3. t \in Tasks /\ t.phase = phase /\ t.step = task[p].step /\ t.learned = task[p].learned
  BY <1>2, InPhase DEF Attempting
<1> HIDE DEF t
<1>4. Attempting(t, working[at[p]], archive[at[p]], export[at[p]], steps[at[p]],
                 at[p] \in directories)
  BY <1>2, <1>3 DEF Attempting
<1> QED
  BY <1>1, <1>4, TaskKept

\* The start: the destination and the names are free, or the attempt ends.
LEMMA PrepareKept ==
    ASSUME IInv, CInv, NEW p \in Processes, Prepare(p)
    PROVE  CInv'
<1>1. pc[p] = "training" /\ task[p].phase = "starting"
  BY DEF Prepare, In
<1>2. CASE at[p] \in directories \/ Collide(at[p])
  BY <1>2, FailKept DEF Prepare
<1>3. CASE ~(at[p] \in directories \/ Collide(at[p]))
  <2>1. Phase(p, "restoring") /\ UNCHANGED <<vars, steps>> /\ UNCHANGED disk /\ refs' = refs
    BY <1>3 DEF Prepare
  <2>2. "restoring" \in Phases \ {"none"}
    BY DEF Phases
  <2>3. /\ refs = [refs EXCEPT ![at[p]] = refs[at[p]]]
        /\ Files(working[at[p]], archive[at[p]], refs[at[p]], steps[at[p]])
    BY <1>1, AttemptFacts
  <2> QED
    BY <1>1, <1>3, <2>1, <2>2, <2>3, PhaseKept
<1> QED
  BY <1>2, <1>3

\* A directory moves between the archive and the working directory.
LEMMA MoveKept ==
    ASSUME NEW W, NEW A, NEW R, NEW n, Files(W, A, R, n), NEW d \in W \cup A
    PROVE  Files(W \cup {d}, A \ {d}, R, n) /\ Files(W \ {d}, A \cup {d}, R, n)
<1>1. StepsOf((W \cup {d}) \cup (A \ {d})) = StepsOf(W \cup A)
      /\ StepsOf((W \ {d}) \cup (A \cup {d})) = StepsOf(W \cup A)
  <2>1. (W \cup {d}) \cup (A \ {d}) = W \cup A /\ (W \ {d}) \cup (A \cup {d}) = W \cup A
    OBVIOUS
  <2> QED
    BY <2>1
<1> QED
  BY <1>1 DEF Files

\* One rename from the archive, and the end of the restore.
LEMMA RestoreKept ==
    ASSUME IInv, CInv, NEW p \in Processes, Restore(p)
    PROVE  CInv'
<1> DEFINE j == at[p]
<1>1. pc[p] = "training" /\ task[p].phase = "restoring" /\ UNCHANGED <<vars, steps, refs>>
  BY DEF Restore, In
<1>2. /\ InAttempt(p) /\ Files(working[j], archive[j], refs[j], steps[j])
      /\ Attempting(task[p], working[j], archive[j], export[j], steps[j], j \in directories)
      /\ refs = [refs EXCEPT ![j] = refs[j]] /\ export = [export EXCEPT ![j] = export[j]]
      /\ export[j] \in Nat \cup {None}
  BY <1>1, AttemptFacts
<1>3. j \notin directories
  BY <1>1, <1>2 DEF Attempting
<1>4. CASE archive[j] = {}
  <2>1. Phase(p, "resuming") /\ UNCHANGED disk /\ "resuming" \in Phases \ {"none"}
    BY <1>4 DEF Restore, Restorable, Moved, Phases
  <2> QED
    BY <1>1, <1>2, <1>3, <1>4, <2>1, PhaseKept
<1>5. CASE archive[j] # {}
  <2> DEFINE d == First(archive[j])
             W == working[j] \cup {d}
             A == archive[j] \ {d}
             R == refs[j]
             X == export[j]
             t == task[p]
  <2>1. /\ archive' = [archive EXCEPT ![j] = A] /\ working' = [working EXCEPT ![j] = W]
        /\ UNCHANGED <<export, task>>
    BY <1>5 DEF Restore, Restorable, Moved
  <2>2. d \in archive[j]
    BY <1>2, <1>5, FirstIn DEF Files
  <2>3. Files(W, A, R, steps[j])
    BY <1>2, <2>2, MoveKept
  <2>4. Attempting(t, W, A, X, steps[j], j \in directories)
    BY <1>1, <1>2 DEF Attempting
  <2>5. /\ task' = [task EXCEPT ![p] = t] /\ refs' = [refs EXCEPT ![j] = R]
        /\ export' = [export EXCEPT ![j] = X] /\ X \in Nat \cup {None}
    BY <1>1, <1>2, <2>1 DEF CInv, CheckpointsTypeOK
  <2> HIDE DEF W, A, R, X, t
  <2> QED
    BY <1>1, <1>2, <1>3, <2>1, <2>3, <2>4, <2>5, AttemptKept
<1> QED
  BY <1>4, <1>5

\* One rename to the archive.
LEMMA ArchiveKept ==
    ASSUME IInv, CInv, NEW p \in Processes, Archive(p)
    PROVE  CInv'
<1> DEFINE j == at[p]
           d == First(working[j])
           W == working[j] \ {d}
           A == archive[j] \cup {d}
           R == refs[j]
           X == export[j]
           t == task[p]
<1>1. /\ pc[p] = "training" /\ task[p].phase = "archiving" /\ UNCHANGED <<vars, steps>>
      /\ working[j] # {} /\ UNCHANGED <<refs, export, task>>
      /\ archive' = [archive EXCEPT ![j] = A] /\ working' = [working EXCEPT ![j] = W]
  BY DEF Archive, In, Moved
<1>2. /\ InAttempt(p) /\ Files(working[j], archive[j], refs[j], steps[j])
      /\ Attempting(task[p], working[j], archive[j], export[j], steps[j], j \in directories)
      /\ refs = [refs EXCEPT ![j] = refs[j]] /\ export = [export EXCEPT ![j] = export[j]]
      /\ export[j] \in Nat \cup {None}
  BY <1>1, AttemptFacts
<1>3. j \notin directories
  BY <1>1, <1>2 DEF Attempting
<1>4. d \in working[j]
  BY <1>1, <1>2, FirstIn DEF Files
<1>5. Files(W, A, R, steps[j])
  BY <1>2, <1>4, MoveKept
<1>6. Attempting(t, W, A, X, steps[j], j \in directories)
  BY <1>1, <1>2 DEF Attempting
<1>7. /\ task' = [task EXCEPT ![p] = t] /\ refs' = [refs EXCEPT ![j] = R]
      /\ export' = [export EXCEPT ![j] = X] /\ X \in Nat \cup {None}
  BY <1>1, <1>2 DEF CInv, CheckpointsTypeOK
<1>8. /\ InAttempt(p) /\ UNCHANGED <<vars, steps>> /\ (j \in directories => W = {} /\ X = steps[j])
      /\ archive' = [archive EXCEPT ![j] = A] /\ working' = [working EXCEPT ![j] = W]
  BY <1>1, <1>2, <1>3
<1> HIDE DEF W, A, R, X, t
<1> QED
  BY <1>5, <1>6, <1>7, <1>8, AttemptKept

\* The recorded checkpoints are there, and the last one is loaded.
LEMMA ResumeKept ==
    ASSUME IInv, CInv, NEW p \in Processes, Resume(p)
    PROVE  CInv'
<1> DEFINE j == at[p]
           known == StepsOf(working[j])
           last == Latest(working[j])
<1>1. pc[p] = "training" /\ task[p].phase = "resuming" /\ UNCHANGED <<steps, disk>>
  BY DEF Resume, In
<1>2. /\ InAttempt(p) /\ Files(working[j], archive[j], refs[j], steps[j])
      /\ Attempting(task[p], working[j], archive[j], export[j], steps[j], j \in directories)
      /\ refs = [refs EXCEPT ![j] = refs[j]] /\ j \in Jobs
  BY <1>1, AttemptFacts, OwnJob
<1>3. j \notin directories /\ archive[j] = {} /\ steps[j] \in Nat
  BY <1>1, <1>2 DEF Attempting
<1>4. CASE Fail(p) /\ Leaves(p) /\ UNCHANGED refs
  BY <1>1, <1>4, FailKept
<1>5. ASSUME NEW step \in known, refs' = [refs EXCEPT ![j] = @ \cup {step}],
             UNCHANGED <<vars, task>>
      PROVE  CInv'
  <2> DEFINE R == refs[j] \cup {step}
             t == task[p]
  <2>1. Files(working[j], archive[j], R, steps[j])
    BY <1>2, <1>3 DEF Files
  <2>2. task' = [task EXCEPT ![p] = t] /\ refs' = [refs EXCEPT ![j] = R]
    BY <1>5 DEF CInv, CheckpointsTypeOK
  <2> HIDE DEF R, t
  <2>3. Attempting(t, working[j], archive[j], export[j], steps[j], j \in directories)
    BY <1>2 DEF t
  <2> QED
    BY <1>1, <1>5, <2>1, <2>2, <2>3, TaskKept
<1>6. ASSUME task' = [task EXCEPT ![p] =
                [phase |-> "boundary", step |-> last.step, learned |-> last.learned,
                 reports |-> known, raising |-> "none"]],
             UNCHANGED <<vars, refs>>
      PROVE  CInv'
  <2> DEFINE t == [phase |-> "boundary", step |-> last.step, learned |-> last.learned,
                   reports |-> known, raising |-> "none"]
  <2>1. last.learned = last.step /\ last.step \in Nat /\ last.step <= steps[j]
    BY <1>2, <1>3, LatestIn DEF Files
  <2>2. known \subseteq Nat
    <3>1. working[j] \subseteq Directories
      BY <1>2 DEF Files
    <3> QED
      BY <3>1 DEF StepsOf, Final, Directories
  <2> HIDE DEF known, last
  <2>3. t \in Tasks /\ t.phase = "boundary" /\ t.step = last.step /\ t.learned = last.learned
    BY <2>1, <2>2 DEF Tasks, Phases
  <2> HIDE DEF t
  <2>4. Attempting(t, working[j], archive[j], export[j], steps[j], j \in directories)
    BY <1>3, <2>1, <2>3 DEF Attempting
  <2>5. task' = [task EXCEPT ![p] = t]
    BY <1>6 DEF t, last, known
  <2> QED
    BY <1>1, <1>2, <1>6, <2>4, <2>5, TaskKept
<1> QED
  BY <1>4, <1>5, <1>6 DEF Resume

\* boundary finds a reason to stop.
LEMMA InterruptKept ==
    ASSUME IInv, CInv, NEW p \in Processes, NEW reason \in {"cancelled", "shutdown", "failed"},
           Interrupt(p, reason)
    PROVE  CInv'
<1> DEFINE j == at[p]
           u == task[p]
           phase == IF u.step \in u.reports THEN "raising" ELSE "writing"
           t == [u EXCEPT !.raising = reason, !.phase = phase]
<1>1. /\ pc[p] = "training" /\ u.phase = "boundary" /\ UNCHANGED <<vars, steps, refs, disk>>
      /\ task' = [task EXCEPT ![p].raising = reason, ![p].phase = phase]
  BY DEF Interrupt, In
<1>2. /\ Files(working[j], archive[j], refs[j], steps[j])
      /\ Attempting(u, working[j], archive[j], export[j], steps[j], j \in directories)
      /\ refs = [refs EXCEPT ![j] = refs[j]]
  BY <1>1, AttemptFacts
<1>3. task' = [task EXCEPT ![p] = t]
  BY <1>1 DEF CInv, CheckpointsTypeOK
<1>4. u \in Tasks /\ phase \in Phases /\ phase \in {"raising", "writing"}
  BY <1>2 DEF Attempting, Phases
<1> HIDE DEF phase, u
<1>5. t \in Tasks /\ t.phase = phase /\ t.step = u.step /\ t.learned = u.learned
  BY <1>4 DEF Tasks
<1> HIDE DEF t
<1>6. Attempting(t, working[j], archive[j], export[j], steps[j], j \in directories)
  BY <1>1, <1>2, <1>4, <1>5 DEF Attempting
<1> QED
  BY <1>1, <1>2, <1>3, <1>6, TaskKept DEF u

\* One step of training, or the end of it.
LEMMA TrainKept ==
    ASSUME IInv, CInv, NEW p \in Processes, Train(p)
    PROVE  CInv'
<1> DEFINE j == at[p]
           u == task[p]
           n == steps[j]
           W == working[j]
           A == archive[j]
           R == refs[j]
<1>1. pc[p] = "training" /\ u.phase = "boundary" /\ UNCHANGED <<vars, steps, refs, working, archive>>
  BY DEF Train, In
<1>2. /\ InAttempt(p) /\ Files(W, A, R, n) /\ Attempting(u, W, A, export[j], n, j \in directories)
      /\ refs = [refs EXCEPT ![j] = R] /\ working = [working EXCEPT ![j] = W]
      /\ archive = [archive EXCEPT ![j] = A] /\ export = [export EXCEPT ![j] = export[j]]
      /\ export[j] \in Nat \cup {None}
  BY <1>1, AttemptFacts
<1>3. u \in Tasks /\ j \notin directories /\ A = {} /\ n \in Nat /\ u.step \in Nat
      /\ u.learned = u.step /\ u.step <= n
  BY <1>1, <1>2 DEF Attempting, Tasks
<1>4. CASE u.step = n
  <2> DEFINE t == [u EXCEPT !.phase = "trained"]
             X == n
  <2>1. task' = [task EXCEPT ![p] = t] /\ export' = [export EXCEPT ![j] = X]
    BY <1>3, <1>4 DEF Train
  <2>2. t \in Tasks /\ t.phase = "trained" /\ t.step = u.step /\ t.learned = u.learned
    BY <1>3, InPhase DEF Phases
  <2> HIDE DEF t
  <2>3. Attempting(t, W, A, X, n, j \in directories)
    BY <1>3, <2>2 DEF Attempting
  <2>4. /\ working' = [working EXCEPT ![j] = W] /\ archive' = [archive EXCEPT ![j] = A]
        /\ refs' = [refs EXCEPT ![j] = R] /\ UNCHANGED <<vars, steps>> /\ X \in Nat \cup {None}
    BY <1>1, <1>2, <1>3
  <2> HIDE DEF X, W, A, R
  <2> QED
    BY <1>2, <1>3, <2>1, <2>3, <2>4, AttemptKept
<1>5. CASE u.step # n
  <2> DEFINE due == (u.step + 1) % Every = 0 \/ u.step + 1 = n
             phase == IF due THEN "writing" ELSE "boundary"
             t == [u EXCEPT !.step = @ + 1, !.learned = @ + 1, !.phase = phase]
  <2>1. task' = [task EXCEPT ![p] = t] /\ export' = export
    BY <1>5 DEF Train
  <2>2. phase \in {"writing", "boundary"} /\ phase \in Phases
    BY DEF Phases
  <2> HIDE DEF phase
  <2>3. t \in Tasks /\ t.phase = phase /\ t.step = u.step + 1 /\ t.learned = u.learned + 1
    BY <1>3, <2>2, Trained
  <2> HIDE DEF t
  <2>4. Attempting(t, W, A, export[j], n, j \in directories)
    BY <1>3, <1>5, <2>2, <2>3 DEF Attempting
  <2>5. /\ UNCHANGED <<vars, steps>> /\ UNCHANGED disk /\ refs' = [refs EXCEPT ![j] = R]
    BY <1>1, <1>2, <2>1 DEF disk
  <2> QED
    BY <1>1, <1>2, <2>1, <2>4, <2>5, TaskKept
<1> QED
  BY <1>4, <1>5

\* The directory of step s while it is written and once it is complete, and the
\* directories W with it.
Partial(s) == [temporary |-> TRUE, step |-> s, learned |-> s]
Whole(s) == [temporary |-> FALSE, step |-> s, learned |-> s]
WithPartial(W, s) == {e \in W : Name(e) # Name(Partial(s))} \cup {Partial(s)}
WithWhole(W, s) == (W \ {Partial(s)}) \cup {Whole(s)}

\* rename changes the name only.
LEMMA RenameIs == ASSUME NEW s \in Nat PROVE [Partial(s) EXCEPT !.temporary = FALSE] = Whole(s)
<1> DEFINE w == [Partial(s) EXCEPT !.temporary = FALSE]
<1>1. Partial(s) \in Directories
  BY DEF Partial, Directories
<1>2. w \in Directories /\ w.temporary = FALSE /\ w.step = Partial(s).step
      /\ w.learned = Partial(s).learned
  BY <1>1 DEF Directories
<1>3. /\ Whole(s) \in Directories /\ Whole(s).temporary = FALSE /\ Whole(s).step = s
      /\ Whole(s).learned = s /\ Partial(s).step = s /\ Partial(s).learned = s
  BY DEF Whole, Partial, Directories
<1> HIDE DEF w
<1>4. w = Whole(s)
  BY <1>2, <1>3 DEF Directories
<1> QED
  BY <1>4 DEF w

\* Writing and renaming a temporary directory leaves the final ones alone.
LEMMA Written ==
    ASSUME NEW W, NEW R, NEW n \in Nat, Files(W, {}, R, n), NEW s \in Nat, s <= n
    PROVE  /\ Files(WithPartial(W, s), {}, R, n)
           /\ Files(WithWhole(W, s), {}, R, n)
           /\ s \in StepsOf(WithWhole(W, s))
<1> DEFINE d == Partial(s)
           f == Whole(s)
           D == {e \in W : Name(e) # Name(d)} \cup {d}
           F == (W \ {d}) \cup {f}
<1>1. /\ d \in Directories /\ d.learned = d.step /\ d.step = s /\ d.temporary = TRUE
      /\ f \in Directories /\ f.learned = f.step /\ f.step = s /\ f.temporary = FALSE
  BY DEF Directories, Partial, Whole
<1> HIDE DEF d, f
<1>2. ASSUME NEW e \in W, ~e.temporary PROVE e \in D /\ e \in F
  BY <1>1, <1>2 DEF Name
<1>3. D \subseteq Directories /\ F \subseteq Directories /\ D \subseteq W \cup {d} /\ F \subseteq W \cup {f}
  BY <1>1 DEF Files
<1>4. StepsOf(W) \subseteq StepsOf(D) /\ StepsOf(W) \subseteq StepsOf(F)
  BY <1>2 DEF StepsOf, Final
<1>5. s \in StepsOf(F)
  BY <1>1 DEF StepsOf, Final
<1>6. R \subseteq StepsOf(W)
  <2>1. W \cup {} = W
    OBVIOUS
  <2> QED
    BY <2>1 DEF Files
<1>7. \A e \in D \cup F : e.learned = e.step /\ n \in Nat /\ e.step <= n
  BY <1>1, <1>3 DEF Files
<1> HIDE DEF D, F
<1>8. Files(D, {}, R, n) /\ Files(F, {}, R, n)
  <2>1. D \cup {} = D /\ F \cup {} = F
    OBVIOUS
  <2> QED
    BY <1>3, <1>4, <1>6, <1>7, <2>1 DEF Files
<1> QED
  BY <1>5, <1>8 DEF D, F, d, f, WithPartial, WithWhole

\* save writes a directory under its temporary name.
LEMMA WriteKept ==
    ASSUME IInv, CInv, NEW p \in Processes, Write(p)
    PROVE  CInv'
<1> DEFINE j == at[p]
           u == task[p]
           W == WithPartial(working[j], u.step)
           A == archive[j]
           R == refs[j]
           X == export[j]
           t == [u EXCEPT !.phase = "renaming"]
<1>1. pc[p] = "training" /\ u.phase = "writing" /\ UNCHANGED <<vars, steps, refs, archive, export>>
      /\ task' = [task EXCEPT ![p] = t]
  BY DEF Write, In, Phase
<1>2. /\ InAttempt(p) /\ Files(working[j], A, R, steps[j])
      /\ Attempting(u, working[j], A, X, steps[j], j \in directories)
      /\ refs = [refs EXCEPT ![j] = R] /\ archive = [archive EXCEPT ![j] = A]
      /\ export = [export EXCEPT ![j] = X] /\ X \in Nat \cup {None}
  BY <1>1, AttemptFacts
<1>3. u \in Tasks /\ j \notin directories /\ A = {} /\ steps[j] \in Nat /\ u.step \in Nat
      /\ u.learned = u.step /\ u.step <= steps[j]
  BY <1>1, <1>2 DEF Attempting, Tasks
<1>4. working' = [working EXCEPT ![j] = W]
  BY <1>3 DEF Write, WithPartial, Partial
<1>5. t \in Tasks /\ t.phase = "renaming" /\ t.step = u.step /\ t.learned = u.learned
  BY <1>3, InPhase DEF Phases
<1>6. Files(W, A, R, steps[j])
  BY <1>2, <1>3, Written
<1> HIDE DEF t, W
<1>7. Attempting(t, W, A, X, steps[j], j \in directories)
  BY <1>3, <1>5 DEF Attempting
<1>8. /\ UNCHANGED <<vars, steps>> /\ (j \in directories => W = {} /\ X = steps[j])
      /\ archive' = [archive EXCEPT ![j] = A] /\ refs' = [refs EXCEPT ![j] = R]
      /\ export' = [export EXCEPT ![j] = X] /\ X \in Nat \cup {None} /\ InAttempt(p)
  BY <1>1, <1>2, <1>3
<1> HIDE DEF A, R, X
<1> QED
  BY <1>1, <1>4, <1>6, <1>7, <1>8, AttemptKept

\* ... and renames it.
LEMMA RenameKept ==
    ASSUME IInv, CInv, NEW p \in Processes, Rename(p)
    PROVE  CInv'
<1> DEFINE j == at[p]
           u == task[p]
           W == WithWhole(working[j], u.step)
           A == archive[j]
           R == refs[j]
           X == export[j]
           t == [u EXCEPT !.phase = "recording", !.reports = @ \cup {u.step}]
<1>1. pc[p] = "training" /\ u.phase = "renaming" /\ UNCHANGED <<vars, steps, refs, archive, export>>
  BY DEF Rename, In
<1>2. /\ InAttempt(p) /\ Files(working[j], A, R, steps[j])
      /\ Attempting(u, working[j], A, X, steps[j], j \in directories)
      /\ refs = [refs EXCEPT ![j] = R] /\ archive = [archive EXCEPT ![j] = A]
      /\ export = [export EXCEPT ![j] = X] /\ X \in Nat \cup {None}
  BY <1>1, AttemptFacts
<1>3. u \in Tasks /\ j \notin directories /\ A = {} /\ steps[j] \in Nat /\ u.step \in Nat
      /\ u.learned = u.step /\ u.step <= steps[j]
  BY <1>1, <1>2 DEF Attempting, Tasks
<1>4. working' = [working EXCEPT ![j] = W]
  <2>1. [Partial(u.step) EXCEPT !.temporary = FALSE] = Whole(u.step)
    BY <1>3, RenameIs
  <2>2. working' = [working EXCEPT ![j] = (working[j] \ {Partial(u.step)})
                                           \cup {[Partial(u.step) EXCEPT !.temporary = FALSE]}]
    <3>1. Partial(u.step) = [temporary |-> TRUE, step |-> u.step, learned |-> u.learned]
      BY <1>3 DEF Partial
    <3> HIDE DEF u
    <3> QED
      BY <3>1 DEF Rename, u
  <2> QED
    BY <2>1, <2>2 DEF WithWhole
<1>5. task' = [task EXCEPT ![p] = t]
  BY DEF Rename, CInv, CheckpointsTypeOK
<1>6. t \in Tasks /\ t.phase = "recording" /\ t.step = u.step /\ t.learned = u.learned
  <2>1. ASSUME NEW v \in Tasks, NEW S \in SUBSET Nat
        PROVE  LET w == [v EXCEPT !.phase = "recording", !.reports = S] IN
               w \in Tasks /\ w.phase = "recording" /\ w.step = v.step /\ w.learned = v.learned
    BY DEF Tasks, Phases
  <2>2. u.reports \cup {u.step} \in SUBSET Nat
    BY <1>3 DEF Tasks
  <2> QED
    BY <1>3, <2>1, <2>2
<1>7. Files(W, A, R, steps[j]) /\ u.step \in StepsOf(W)
  BY <1>2, <1>3, Written
<1> HIDE DEF t, W
<1>8. Attempting(t, W, A, X, steps[j], j \in directories)
  BY <1>3, <1>6, <1>7 DEF Attempting
<1>9. /\ UNCHANGED <<vars, steps>> /\ (j \in directories => W = {} /\ X = steps[j])
      /\ archive' = [archive EXCEPT ![j] = A] /\ refs' = [refs EXCEPT ![j] = R]
      /\ export' = [export EXCEPT ![j] = X] /\ X \in Nat \cup {None} /\ InAttempt(p)
  BY <1>1, <1>2, <1>3
<1> HIDE DEF A, R, X
<1> QED
  BY <1>4, <1>5, <1>7, <1>8, <1>9, AttemptKept

\* The checkpoint that was renamed is recorded.
LEMMA RecordKept ==
    ASSUME IInv, CInv, NEW p \in Processes, Record(p)
    PROVE  CInv'
<1> DEFINE j == at[p]
           phase == IF task[p].raising = "none" THEN "boundary" ELSE "raising"
           R == IF job[j] = "cancelled" THEN refs[j] ELSE refs[j] \cup {task[p].step}
<1>1. /\ pc[p] = "training" /\ task[p].phase = "recording" /\ UNCHANGED <<vars, steps>>
      /\ UNCHANGED disk /\ Phase(p, phase) /\ refs' = [refs EXCEPT ![j] = R]
  BY DEF Record, In
<1>2. /\ Files(working[j], archive[j], refs[j], steps[j])
      /\ Attempting(task[p], working[j], archive[j], export[j], steps[j], j \in directories)
  BY <1>1, AttemptFacts
<1>3. archive[j] = {} /\ j \notin directories /\ task[p].step \in StepsOf(working[j])
  BY <1>1, <1>2 DEF Attempting
<1>4. Files(working[j], archive[j], R, steps[j])
  <2>1. working[j] \cup archive[j] = working[j]
    BY <1>3
  <2> QED
    BY <1>2, <1>3, <2>1 DEF Files
<1>5. phase \in Phases \ {"none"} /\ phase \in {"boundary", "raising"}
  BY DEF Phases
<1> HIDE DEF phase, R
<1> QED
  BY <1>1, <1>3, <1>4, <1>5, PhaseKept

\* The last check passes, or the attempt ends.
LEMMA CheckedKept ==
    ASSUME IInv, CInv, NEW p \in Processes, Checked(p)
    PROVE  CInv'
<1> DEFINE j == at[p]
<1>1. pc[p] = "training" /\ task[p].phase = "trained" /\ UNCHANGED <<steps, refs, disk>>
  BY DEF Checked, In
<1>2. CASE (Fail(p) \/ CheckCancelled(p) \/ CheckStopping(p)) /\ Leaves(p)
  BY <1>1, <1>2, FailKept
<1>3. CASE Phase(p, "archiving") /\ UNCHANGED vars
  <2>1. /\ Files(working[j], archive[j], refs[j], steps[j])
        /\ Attempting(task[p], working[j], archive[j], export[j], steps[j], j \in directories)
        /\ refs = [refs EXCEPT ![j] = refs[j]]
    BY <1>1, AttemptFacts
  <2>2. export[j] = steps[j] /\ j \notin directories /\ "archiving" \in Phases \ {"none"}
    BY <1>1, <2>1 DEF Attempting, Phases
  <2> QED
    BY <1>1, <1>3, <2>1, <2>2, PhaseKept
<1> QED
  BY <1>2, <1>3 DEF Checked

\* What is left is published: no checkpoint is, and the weights are trained.
LEMMA ExportKept ==
    ASSUME IInv, CInv, NEW p \in Processes, Export(p)
    PROVE  CInv'
<1> DEFINE j == at[p]
<1>1. /\ pc[p] = "training" /\ task[p].phase = "archiving" /\ UNCHANGED <<steps, refs, disk>>
      /\ Leaves(p) /\ working[j] = {} /\ directories' = directories \cup {j}
      /\ pc' = [pc EXCEPT ![p] = "published"] /\ at' = at
  BY DEF Export, In, Moved, Publish, Moves
<1>2. InAttempt(p) /\ export[j] = steps[j]
  BY <1>1, AttemptFacts DEF Attempting
<1>3. pc'[p] # "training" /\ \A q \in Processes : q # p => pc'[q] = pc[q] /\ at'[q] = at[q]
  BY <1>1 DEF IInv, TypeOK
<1> QED
  BY <1>1, <1>2, <1>3, LeavesKept

-----------------------------------------------------------------------------
(* All steps *)

\* A step of the queue that leaves every attempt where it is.
LEMMA QueueKept ==
    ASSUME IInv, CInv, UNCHANGED checkpointing, UNCHANGED <<pc, at, directories>>
    PROVE  CInv'
<1>1. UNCHANGED steps
  BY DEF checkpointing
<1> QED
  BY <1>1, OutsideKept DEF InAttempt

\* The worker outside its attempt, or in one that is not modelled in detail.
LEMMA WorkerKept ==
    ASSUME IInv, CInv, UNCHANGED checkpointing, NEW p \in Processes,
           NEW step \in Steps, NEW job1 \in Jobs \cup {None},
           ~InAttempt(p), step = "training" => steps[job1] = None,
           pc' = [pc EXCEPT ![p] = step], at' = [at EXCEPT ![p] = job1],
           \A j \in directories' : j \in directories \/ steps[j] = None
    PROVE  CInv'
<1>1. UNCHANGED steps
  BY DEF checkpointing
<1>2. pc'[p] = step /\ at'[p] = job1 /\ \A q \in Processes : q # p => pc'[q] = pc[q] /\ at'[q] = at[q]
  BY DEF IInv, TypeOK
<1>3. ~InAttempt(p)'
  BY <1>1, <1>2 DEF InAttempt
<1>4. \A q \in Processes : q # p => (InAttempt(q)' <=> InAttempt(q)) /\ at'[q] = at[q]
  BY <1>1, <1>2 DEF InAttempt
<1> QED
  BY <1>3, <1>4, OutsideKept

LEMMA OutsideStep ==
    ASSUME IInv, CInv, NEW p \in Processes, Outside(p)
    PROVE  CInv'
<1>t. /\ pc \in [Processes -> Steps] /\ at \in [Processes -> Jobs \cup {None}]
      /\ at = [at EXCEPT ![p] = at[p]]
  BY DEF IInv, TypeOK
<1>c. UNCHANGED checkpointing
  BY DEF Outside
<1>1. ASSUME NEW step \in Steps \ {"training"}, NEW job1 \in Jobs \cup {None}, pc[p] # "training",
             pc' = [pc EXCEPT ![p] = step], at' = [at EXCEPT ![p] = job1],
             directories' \subseteq directories
      PROVE  CInv'
  BY <1>1, <1>c, WorkerKept DEF InAttempt
<1>2. ASSUME NEW j \in Jobs, Claim(p, j) PROVE CInv'
  <2>1. /\ pc[p] # "training" /\ pc' = [pc EXCEPT ![p] = "claimed"] /\ at' = [at EXCEPT ![p] = j]
        /\ directories' = directories /\ "claimed" \in Steps \ {"training"}
    BY <1>2 DEF Claim, Steps
  <2> QED
    BY <1>1, <2>1
<1>3. CASE Ineligible(p) \/ Load(p) \/ Complete(p) \/ Unpublish(p) \/ SaveFailure(p)
           \/ Inspect(p) \/ Overrule(p)
  <2>1. pc[p] # "training" /\ directories' \subseteq directories
    BY <1>3 DEF Ineligible, Load, Complete, Unpublish, SaveFailure, Inspect, Overrule
  <2>2. \E step \in Steps \ {"training"}, job1 \in Jobs \cup {None} :
            pc' = [pc EXCEPT ![p] = step] /\ at' = [at EXCEPT ![p] = job1]
    <3>1. \/ at' = at /\ \E step \in {"loaded", "failing", "raised", "overruling"} :
                            pc' = [pc EXCEPT ![p] = step]
          \/ at' = [at EXCEPT ![p] = None] /\ pc' = [pc EXCEPT ![p] = "idle"]
      BY <1>3 DEF Ineligible, Load, Complete, Unpublish, SaveFailure, Inspect, Overrule, Moves,
                  Fails, Ends
    <3>2. {"loaded", "failing", "raised", "overruling", "idle"} \subseteq Steps \ {"training"}
      BY DEF Steps
    <3>3. at[p] \in Jobs \cup {None}
      BY <1>t
    <3> QED
      BY <1>t, <3>1, <3>2, <3>3
  <2> QED
    BY <1>1, <2>1, <2>2
<1>4. CASE ~Detailed(p) /\ (Start(p) \/ Fail(p) \/ CheckCancelled(p) \/ CheckStopping(p) \/ Publish(p))
  <2>1. \E step \in {"training", "failing", "published"} : pc' = [pc EXCEPT ![p] = step]
    BY <1>4 DEF Start, Fail, CheckCancelled, CheckStopping, Publish, Moves, Fails
  <2>2. /\ at' = [at EXCEPT ![p] = at[p]]
        /\ \A j \in directories' : j \in directories \/ steps[j] = None
    BY <1>t, <1>4 DEF Start, Fail, CheckCancelled, CheckStopping, Publish, Moves, Fails, Detailed
  <2>3. /\ steps[at[p]] = None /\ ~InAttempt(p) /\ at[p] \in Jobs \cup {None}
        /\ {"training", "failing", "published"} \subseteq Steps
    BY <1>t, <1>4 DEF Detailed, InAttempt, Steps
  <2> QED
    BY <1>c, <2>1, <2>2, <2>3, WorkerKept
<1> QED
  BY <1>2, <1>3, <1>4 DEF Outside

\* Every step of the module preserves the invariant.
LEMMA NextKept == IInv /\ CInv /\ [CheckpointsNext]_checkpointVars => CInv'
<1> SUFFICES ASSUME IInv, CInv, [CheckpointsNext]_checkpointVars PROVE CInv'
  OBVIOUS
<1>1. CASE UNCHANGED checkpointVars
  BY <1>1, QueueKept DEF checkpointVars, vars, worker
<1>2. ASSUME UNCHANGED checkpointing, NEW j \in Jobs, Submit(j) \/ Requeue(j) \/ Cancel(j)
      PROVE  CInv'
  BY <1>2, QueueKept DEF Submit, Requeue, Cancel, worker
<1>3. ASSUME UNCHANGED checkpointing, NEW p \in Processes,
             (\E j \in Jobs : RequeueWaits(p, j)) \/ RequeueGranted(p)
      PROVE  CInv'
  BY <1>3, QueueKept DEF RequeueWaits, RequeueGranted, worker
<1>4. ASSUME UNCHANGED checkpointing, NEW p \in Processes, Dies(p) PROVE CInv'
  <2>1. /\ ~InAttempt(p) /\ pc' = [pc EXCEPT ![p] = "dead"] /\ at' = [at EXCEPT ![p] = None]
        /\ directories' = directories /\ "dead" \in Steps /\ None \in Jobs \cup {None}
    BY <1>4 DEF Dies, InAttempt, Steps
  <2> QED
    BY <1>4, <2>1, WorkerKept
<1>5. ASSUME NEW p \in Processes, Outside(p) PROVE CInv'
  BY <1>5, OutsideStep
<1>6. ASSUME NEW p \in Processes, Attempt(p) PROVE CInv'
  <2>1. CASE Start(p) /\ Detailed(p) /\ Phase(p, "starting") /\ UNCHANGED <<steps, refs, disk>>
    BY <2>1, StartKept
  <2>2. CASE Raise(p) \/ Break(p)
    BY <2>2, FailKept DEF Raise, Break
  <2> QED
    BY <1>6, <2>1, <2>2, PrepareKept, RestoreKept, ResumeKept, InterruptKept, TrainKept, WriteKept,
       RenameKept, RecordKept, CheckedKept, ArchiveKept, ExportKept DEF Attempt
<1>7. ASSUME NEW p \in Processes, Crash(p), Leaves(p), UNCHANGED <<steps, refs, disk>> PROVE CInv'
  <2>1. pc' = [pc EXCEPT ![p] = "idle"] /\ at' = [at EXCEPT ![p] = None] /\ directories' = directories
    BY <1>7 DEF Crash, Ends
  <2>2. pc'[p] # "training" /\ \A q \in Processes : q # p => pc'[q] = pc[q] /\ at'[q] = at[q]
    BY <2>1 DEF IInv, TypeOK
  <2> QED
    BY <1>7, <2>1, <2>2, LeavesKept
<1> QED
  BY <1>1, <1>2, <1>3, <1>4, <1>5, <1>6, <1>7 DEF CheckpointsNext

\* Nothing is on disk and nobody is in an attempt.
LEMMA InitKept == CheckpointsInit => CInv
<1> SUFFICES ASSUME CheckpointsInit PROVE CInv
  OBVIOUS
<1>1. CheckpointsTypeOK
  BY DEF CheckpointsInit, CheckpointsTypeOK, NoTask, Tasks, Phases
<1>2. FilesOK
  BY DEF CheckpointsInit, FilesOK, Files
<1>3. AttemptsOK /\ ExportExact
  BY DEF CheckpointsInit, Init, AttemptsOK, InAttempt, ExportExact
<1> QED
  BY <1>1, <1>2, <1>3 DEF CInv

\* The invariant of the attempts holds of every behaviour, beside Training's.
LEMMA CheckpointsInvariance == CheckpointsSpec => [](IInv /\ CInv)
<1>1. CheckpointsSpec => []IInv
  BY ImplementsTraining, Invariance, PTL
<1>2. CheckpointsSpec => [][CheckpointsNext]_checkpointVars /\ CheckpointsInit
  BY PTL DEF CheckpointsSpec
<1> QED
  BY <1>1, <1>2, InitKept, NextKept, PTL

\* Wherever an attempt is cut off, the next one finds every checkpoint its job
\* has recorded and no name taken.
THEOREM RecoverableCorrect == CheckpointsSpec => []Recoverable
<1>1. IInv /\ CInv => Recoverable
  <2> SUFFICES ASSUME IInv, CInv, NEW p \in Processes
               PROVE  /\ In(p, "resuming") => refs[at[p]] \subseteq StepsOf(working[at[p]])
                      /\ pc[p] = "training" => ~Collide(at[p])
    BY DEF Recoverable
  <2>1. ASSUME pc[p] = "training" PROVE at[p] \in Jobs
    BY <2>1 DEF IInv, TypeOK, ClaimsOK, Busy
  <2>2. ASSUME In(p, "resuming") PROVE refs[at[p]] \subseteq StepsOf(working[at[p]])
    <3>1. /\ Files(working[at[p]], archive[at[p]], refs[at[p]], steps[at[p]])
          /\ archive[at[p]] = {}
      BY <2>2, AttemptFacts DEF In, Attempting
    <3>2. working[at[p]] \cup archive[at[p]] = working[at[p]]
      BY <3>1
    <3> QED
      BY <3>1, <3>2 DEF Files
  <2> QED
    BY <2>1, <2>2, NamesApart
<1> QED
  BY <1>1, CheckpointsInvariance, PTL

\* What is published holds no checkpoint, and every step was trained exactly
\* once, however often the job was interrupted and resumed.
THEOREM ExportCorrect == CheckpointsSpec => []ExportExact
<1>1. CInv => ExportExact
  BY DEF CInv
<1> QED
  BY <1>1, CheckpointsInvariance, PTL
==============================================================================
