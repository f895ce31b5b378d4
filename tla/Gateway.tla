------------------------------ MODULE Gateway ------------------------------
(***************************************************************************)
(* An inference request in gateway/service.py, over the stores of          *)
(* Persistence: the in-flight reservation of its request id, the lookup    *)
(* of a durable replay, the execution, the save in a worker thread and     *)
(* the release of the reservation, under cancellation and restart.         *)
(*                                                                         *)
(* A call and the interaction it may create share their identity.  Code of *)
(* the event loop between two awaits is one step; the worker threads of    *)
(* the lookup and the save interleave with everything.  A request that     *)
(* infer rejects (409, 429) changes nothing and is not a step.             *)
(***************************************************************************)
EXTENDS Persistence

CONSTANT
    Recancelled   \* calls that may be cancelled again while they wait for the save

ASSUME GatewayAssumption == Recancelled \subseteq Interactions

VARIABLES
    pc,        \* where each call is
    request,   \* its (application_id, request_id) and fingerprint, once reserved
    inflight,  \* _replays: the call that reserved each key
    reserved,  \* reserved_at
    entry,     \* the replay record the lookup has read
    answered,  \* calls whose chain produced a response
    answer     \* the interaction whose response was returned

gatewayVars == <<pc, request, inflight, reserved, entry, answered, answer>>
vars == <<storageVars, gatewayVars>>

Requests == [key : Keys, print : Prints]
KeyOf(i) == request[i].key
PrintOf(i) == request[i].print

ASSUME RequestAssumption == None \notin Requests

InFlight == {"looking", "found", "running", "saving", "cancelled"}

GatewayTypeOK ==
    /\ TypeOK
    /\ pc \in [Interactions -> InFlight \cup {"idle", "done", "abandoned"}]
    /\ request \in [Interactions -> Requests \cup {None}]
    /\ inflight \in [Keys -> Interactions \cup {None}]
    /\ reserved \in [Interactions -> Nat]
    /\ entry \in [Interactions -> Replays \cup {None}]
    /\ answered \subseteq Interactions
    /\ answer \in [Interactions -> Interactions \cup {None}]

Init ==
    /\ StorageInit
    /\ pc = [i \in Interactions |-> "idle"]
    /\ request = [i \in Interactions |-> None]
    /\ inflight = [k \in Keys |-> None]
    /\ reserved = [i \in Interactions |-> 0]
    /\ entry = [i \in Interactions |-> None]
    /\ answered = {}
    /\ answer = [i \in Interactions |-> None]

-----------------------------------------------------------------------------
(* The request *)

\* infer reserves the key, unless it is reserved or the table is full.
Reserve(i, k, print) ==
    /\ pc[i] = "idle"
    /\ inflight[k] = None
    /\ Cardinality({j \in Keys : inflight[j] # None}) < ReplayCapacity
    /\ request' = [request EXCEPT ![i] = [key |-> k, print |-> print]]
    /\ inflight' = [inflight EXCEPT ![k] = i]
    /\ reserved' = [reserved EXCEPT ![i] = clock]
    /\ pc' = [pc EXCEPT ![i] = "looking"]
    /\ UNCHANGED <<storageVars, entry, answered, answer>>

\* Mutant of Release: a failed call forgets its reservation.
ReleaseNothing(i) ==
    /\ pc' = [pc EXCEPT ![i] = "done"]
    /\ UNCHANGED inflight

\* The finally of infer.
Release(i) ==
    /\ pc' = [pc EXCEPT ![i] = "done"]
    /\ inflight' = [inflight EXCEPT ![KeyOf(i)] = None]

\* Mutant of FindEntry: the fingerprint of the entry is not compared.
FindEntryAny(i) ==
    LET e == replays[KeyOf(i)] IN
    /\ pc[i] = "looking"
    /\ IF e = None \/ e.expires <= clock
       THEN pc' = [pc EXCEPT ![i] = "running"] /\ UNCHANGED <<inflight, entry>>
       ELSE /\ pc' = [pc EXCEPT ![i] = "found"]
            /\ entry' = [entry EXCEPT ![i] = e]
            /\ UNCHANGED inflight
    /\ UNCHANGED <<storageVars, request, reserved, answered, answer>>

\* _find_replay: get_replay, and a conflict if the body differs.
FindEntry(i) ==
    LET e == replays[KeyOf(i)] IN
    /\ pc[i] = "looking"
    /\ IF e = None \/ e.expires <= clock
       THEN pc' = [pc EXCEPT ![i] = "running"] /\ UNCHANGED <<inflight, entry>>
       ELSE IF e.print # PrintOf(i)
       THEN Release(i) /\ UNCHANGED entry
       ELSE /\ pc' = [pc EXCEPT ![i] = "found"]
            /\ entry' = [entry EXCEPT ![i] = e]
            /\ UNCHANGED inflight
    /\ UNCHANGED <<storageVars, request, reserved, answered, answer>>

\* Mutant of Readable: what the entry points at is not looked up again.
ReadableEntry(e) == TRUE

\* Mutant of Readable: the payload is taken to expire a tick early.
ReadableEarly(e) ==
    \E p \in payloads : p.field = "replay" /\ p.interaction = e.interaction
                          /\ p.expires > clock + 1

\* payloads.get: the entry's payload is there and has not expired.
Readable(e) ==
    \E p \in payloads : p.field = "replay" /\ p.interaction = e.interaction /\ p.expires > clock

\* persistence.replay: the stored response, or None and the request runs.
FindPayload(i) ==
    /\ pc[i] = "found"
    /\ IF Readable(entry[i])
       THEN Release(i) /\ answer' = [answer EXCEPT ![i] = entry[i].interaction]
       ELSE pc' = [pc EXCEPT ![i] = "running"] /\ UNCHANGED <<inflight, answer>>
    /\ entry' = [entry EXCEPT ![i] = None]
    /\ UNCHANGED <<storageVars, request, reserved, answered>>

\* _execute is refused by policy before it has anything to save.
Refuse(i) ==
    /\ pc[i] = "running"
    /\ Release(i)
    /\ UNCHANGED <<storageVars, request, reserved, entry, answered, answer>>

\* The chain ends, with a response or without, and the save is handed to a
\* worker.  Redaction failure, content policy and failure decide what it keeps.
Finish(i, ok, fields) ==
    /\ pc[i] = "running"
    /\ fields \in IF ok THEN {{}, {"replay"}, {"content", "replay"}} ELSE {{}, {"content"}}
    /\ SavePrepare(i, KeyOf(i), PrintOf(i), reserved[i], clock, fields)
    /\ answered' = IF ok THEN answered \cup {i} ELSE answered
    /\ pc' = [pc EXCEPT ![i] = "saving"]
    /\ UNCHANGED <<request, inflight, reserved, entry, answer>>

\* The await on the save returns: the response goes out, a shadow attempt may
\* be scheduled, the reservation is released.
SaveReturn(i, shadowed) ==
    /\ pc[i] \in {"saving", "cancelled"} /\ saving[i] = None
    /\ Release(i)
    /\ LET ok == pc[i] = "saving" /\ i \in answered IN
       /\ answer' = IF ok THEN [answer EXCEPT ![i] = i] ELSE answer
       /\ IF shadowed THEN ok /\ ShadowQueue(i) ELSE UNCHANGED storageVars
    /\ UNCHANGED <<request, reserved, entry, answered>>

-----------------------------------------------------------------------------
(* Cancellation, restart and the worker threads *)

\* The call is cancelled while it looks for a replay.
CancelLookup(i) ==
    /\ pc[i] \in {"looking", "found"}
    /\ Release(i)
    /\ entry' = [entry EXCEPT ![i] = None]
    /\ UNCHANGED <<storageVars, request, reserved, answered, answer>>

\* Mutant of CancelSave: the cancelled call returns at once.
CancelSaveNow(i) ==
    /\ pc[i] = "saving" /\ saving[i] # None
    /\ Release(i)
    /\ UNCHANGED <<storageVars, request, reserved, entry, answered, answer>>

\* A cancelled execution is saved as a failure, by Finish; a call cancelled
\* while it is saving goes on waiting for the worker.
CancelSave(i) ==
    /\ pc[i] = "saving" /\ saving[i] # None
    /\ pc' = [pc EXCEPT ![i] = "cancelled"]
    /\ UNCHANGED <<storageVars, request, inflight, reserved, entry, answered, answer>>

\* The second await is not shielded: a second cancellation leaves the worker
\* alone with its transaction.
CancelAgain(i) ==
    /\ i \in Recancelled
    /\ pc[i] = "cancelled" /\ saving[i] # None
    /\ pc' = [pc EXCEPT ![i] = "abandoned"]
    /\ inflight' = [inflight EXCEPT ![KeyOf(i)] = None]
    /\ UNCHANGED <<storageVars, request, reserved, entry, answered, answer>>

\* The process dies with its reservations, its workers and its shadow queue.
Restart ==
    /\ \E i \in Interactions : pc[i] \in InFlight \/ saving[i] # None
    /\ pc' = [i \in Interactions |-> IF pc[i] \in InFlight THEN "done" ELSE pc[i]]
    /\ inflight' = [k \in Keys |-> None]
    /\ entry' = [i \in Interactions |-> None]
    /\ saving' = [i \in Interactions |-> None]
    /\ shadow' = [i \in Interactions |-> IF shadow[i] = "none" THEN "none" ELSE "done"]
    /\ deadline' = [i \in Interactions |-> 0]
    /\ sweeping' = None
    /\ UNCHANGED <<clock, stored, completed, request, reserved, answered, answer>>

Call(i) ==
    \/ FindEntry(i) \/ FindPayload(i) \/ Refuse(i)
    \/ \E ok \in BOOLEAN, fields \in SUBSET {"content", "replay"} : Finish(i, ok, fields)
    \/ \E shadowed \in BOOLEAN : SaveReturn(i, shadowed)

Worker(i) == LateWrite(i) /\ UNCHANGED gatewayVars

Next ==
    \/ \E i \in Interactions, k \in Keys, print \in Prints : Reserve(i, k, print)
    \/ \E i \in Interactions :
         Call(i) \/ Worker(i) \/ CancelLookup(i) \/ CancelSave(i) \/ CancelAgain(i)
    \/ Restart
    \/ (Erase \/ Tick) /\ UNCHANGED gatewayVars

Spec == Init /\ [][Next]_vars

\* Lookups, chains (which have a deadline) and saves end.
Fairness ==
    \A i \in Interactions :
        WF_vars(Call(i)) /\ WF_vars((SaveCommit(i) \/ SaveFail(i)) /\ UNCHANGED gatewayVars)

FairSpec == Spec /\ Fairness

-----------------------------------------------------------------------------
(* Properties *)

Executing(i) == pc[i] \in {"running", "saving", "cancelled"} \/ saving[i] # None

\* docs/spec 9.1: a request that is still in flight is "never executed twice",
\* and the comment in _execute: "Keep the reservation until it finishes so a
\* retry cannot race the still-running transaction".
NeverExecutedTwice ==
    \A i, j \in Interactions :
        i # j /\ Executing(i) /\ Executing(j) => KeyOf(i) # KeyOf(j)

\* The same for calls that are not cancelled a second time while they wait for
\* their save: whatever else is cancelled, retried, erased or restarted, one
\* key has one execution and one worker at a time.
ExecutedOnce ==
    \A i, j \in Interactions :
        i # j /\ Executing(i) /\ Executing(j) /\ KeyOf(i) = KeyOf(j) =>
            "abandoned" \in {pc[i], pc[j]}

\* What is returned is the response of an execution of this very request: the
\* call's own or one with the same key and body, that produced a response.
AnswersItsRequest ==
    \A i \in Interactions : answer[i] # None =>
        /\ answer[i] \in answered
        /\ KeyOf(answer[i]) = KeyOf(i) /\ PrintOf(answer[i]) = PrintOf(i)

\* A replay entry that has not expired is never replaced by the outcome of
\* another execution, so retries within the window see one response; only an
\* abandoned worker and the retry it races may replace each other's.
LiveReplayKept ==
    [][\A k \in Keys : replays[k] # None /\ replays[k].expires > clock /\ replays'[k] # None =>
          \/ replays'[k].interaction = replays[k].interaction
          \/ "abandoned" \in {pc[replays[k].interaction], pc[replays'[k].interaction]}]_vars

\* A deletion that committed before the payload is read wins over the replay,
\* also when the entry was read before it.
ErasedIsNotReplayed ==
    [][\A i \in Interactions : answer'[i] # answer[i] /\ answer'[i] # i =>
          /\ answer'[i] \notin tombstones
          /\ SubjectOf[answer'[i]] \notin subjectTombstones]_vars

\* Every reservation is released: no call wedges its request id.
Released == \A k \in Keys : inflight[k] # None ~> inflight[k] = None
=============================================================================
