------------------------------ MODULE MCOutbox ------------------------------
(* A small instance of Outbox: one interaction with an optional event whose *)
(* envelope is corrupt at the head of its queue, and two mandatory events,  *)
(* the last one enqueued again by a repeated deletion.                      *)
EXTENDS Outbox

CONSTANTS started, completed, deleted, i1, none

MCEvents == {started, completed, deleted}
MCKey == [e \in MCEvents |-> i1]
MCBatches == {<<started, completed>>, <<deleted>>}
MCRepeatable == {<<deleted>>}
MCOptional == {started}
MCInvalid == {started}
=============================================================================
