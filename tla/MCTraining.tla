----------------------------- MODULE MCTraining -----------------------------
(* Two jobs in a queue that two processes work on, or one job of more steps. *)
EXTENDS Checkpoints

WorkloadsDef == {<<None, None>>, <<3, 0>>}
RetryWorkloads == {<<None>>}
=============================================================================
