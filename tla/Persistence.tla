---------------------------- MODULE Persistence ----------------------------
(***************************************************************************)
(* What the platform keeps of an interaction and how it is erased:         *)
(* storage/persistence.py over the SQLite stores of storage/sqlite.py,     *)
(* storage/retention.py and the feedback transaction of                    *)
(* gateway/feedback.py, for one tenant.                                    *)
(*                                                                         *)
(* A transaction is one step (BEGIN IMMEDIATE under one lock).  What a     *)
(* caller computes before it takes the lock is a step of its own: the      *)
(* retention deadlines of _save and save_shadow, and the time of a sweep.  *)
(* Deletions, sweeps, feedback and other saves fall in between.            *)
(*                                                                         *)
(* Payloads of one interaction that are written and erased together are    *)
(* one element: "content" stands for the messages, query, response format  *)
(* and output of the graph.  References are modelled where a record holds  *)
(* one.  Reads filter on expires_at and change nothing.                    *)
(***************************************************************************)
EXTENDS Naturals, FiniteSets

CONSTANTS
    Interactions,      \* interaction ids
    Subjects,          \* subject pseudonyms
    SubjectOf,         \* SubjectOf[i]: subject_id_pseudonymous, or None
    Keys,              \* (application_id, request_id) pairs, ordered, as naturals
    Prints,            \* request fingerprints
    None,
    Retention,         \* retention_seconds of the interactions
    ShadowRetentions,  \* retention_seconds the current policy may have for a shadow
    ReplayTTL,         \* replay_ttl_seconds
    ReplayCapacity,    \* replay_capacity
    MaxTime            \* bound on the clock

ASSUME PersistenceAssumption ==
    /\ SubjectOf \in [Interactions -> Subjects \cup {None}]
    /\ None \notin Interactions \cup Subjects \cup Nat
    /\ Interactions \cap Subjects = {}
    /\ Keys \subseteq Nat
    /\ Retention \in Nat /\ ReplayTTL \in Nat
    /\ ShadowRetentions \subseteq Nat
    /\ ReplayCapacity \in Nat \ {0}
    /\ MaxTime \in Nat

VARIABLES
    clock,
    row,                \* interactions: state and expires_at
    completed,          \* completed_at of the Interaction handed to save
    payloads,           \* the payloads table
    refs,               \* <<interaction, field>>: *_ref fields that are not null
    replays,            \* replay_entries
    tombstones,         \* deletion_tombstones
    subjectTombstones,  \* subject_tombstones
    events,             \* outbox order of the deletion events, 0 before they exist
    tail,               \* the last outbox position given out
    saving,             \* what _save has prepared, waiting for its transaction
    shadow,             \* where the shadow attempt of each interaction is
    deadline,           \* the deadline save_shadow has computed for it
    sweeping            \* the time a running sweep read

stored == <<row, payloads, refs, replays, tombstones, subjectTombstones, events, tail>>
callers == <<completed, saving, shadow, deadline, sweeping>>
storageVars == <<clock, stored, callers>>

Fields == {"content", "replay", "shadow", "feedback"}
Rows == [state : {"active", "expired", "deleted"}, expires : Nat]
Payloads == [interaction : Interactions, field : Fields, expires : Nat]
Replays == [interaction : Interactions, print : Prints, reserved : Nat, expires : Nat]
Saves == [key : Keys, print : Prints, reserved : Nat, expires : Nat, replayExpires : Nat,
          fields : SUBSET {"content", "replay"}]

ASSUME AbsentAssumption == None \notin Rows \cup Replays \cup Saves

TypeOK ==
    /\ clock \in Nat
    /\ row \in [Interactions -> Rows \cup {None}]
    /\ completed \in [Interactions -> Nat \cup {None}]
    /\ payloads \subseteq Payloads
    /\ refs \subseteq Interactions \X Fields
    /\ replays \in [Keys -> Replays \cup {None}]
    /\ tombstones \subseteq Interactions
    /\ subjectTombstones \subseteq Subjects
    /\ events \in [Interactions \cup Subjects -> Nat]
    /\ tail \in Nat
    /\ saving \in [Interactions -> Saves \cup {None}]
    /\ shadow \in [Interactions -> {"none", "queued", "prepared", "done"}]
    /\ deadline \in [Interactions -> Nat]
    /\ sweeping \in Nat \cup {None}

StorageInit ==
    /\ clock = 0
    /\ row = [i \in Interactions |-> None]
    /\ completed = [i \in Interactions |-> None]
    /\ payloads = {} /\ refs = {}
    /\ replays = [k \in Keys |-> None]
    /\ tombstones = {} /\ subjectTombstones = {}
    /\ events = [x \in Interactions \cup Subjects |-> 0]
    /\ tail = 0
    /\ saving = [i \in Interactions |-> None]
    /\ shadow = [i \in Interactions |-> "none"]
    /\ deadline = [i \in Interactions |-> 0]
    /\ sweeping = None

-----------------------------------------------------------------------------
(* Saving an interaction *)

Lesser(a, b) == IF a < b THEN a ELSE b

\* _save up to its transaction: the deadlines, and which payloads the content
\* policy, the redactor and the response allow.
SavePrepare(i, k, print, reserved, done, fields) ==
    /\ completed[i] = None
    /\ completed' = [completed EXCEPT ![i] = done]
    /\ saving' = [saving EXCEPT ![i] =
                    [key |-> k, print |-> print, reserved |-> reserved,
                     expires |-> clock + Retention,
                     replayExpires |-> Lesser(clock + Retention, clock + ReplayTTL),
                     fields |-> fields]]
    /\ UNCHANGED <<clock, stored, shadow, deadline, sweeping>>

\* writable: neither tombstoned nor expired or deleted.
Writable(i) == i \notin tombstones /\ (row[i] # None => row[i].state = "active")

\* Replay entries in reservation order, request ids breaking ties.
Newer(rs, j, k) ==
    /\ rs[j] # None
    /\ \/ rs[j].reserved > rs[k].reserved
       \/ rs[j].reserved = rs[k].reserved /\ j > k

\* put_replay keeps the ReplayCapacity newest reservations of the tenant.
Evicted(rs) ==
    {k \in Keys : rs[k] # None /\ Cardinality({j \in Keys : Newer(rs, j, k)}) >= ReplayCapacity}

\* Mutant of Without: the evicted entry's payload stays behind.
WithoutEntry(rs, ks, ps) ==
    /\ replays' = [k \in Keys |-> IF k \in ks THEN None ELSE rs[k]]
    /\ payloads' = ps

\* Replay entries rs without those of ks, and payloads ps without theirs.
Without(rs, ks, ps) ==
    /\ replays' = [k \in Keys |-> IF k \in ks THEN None ELSE rs[k]]
    /\ payloads' = {p \in ps : ~ \E k \in ks : rs[k] # None /\ p.field = "replay"
                                                /\ p.interaction = rs[k].interaction}

\* The transaction of _save: the graph and its payloads, then the replay entry
\* in the place of an earlier one under the same key, then eviction.
SaveCommit(i) ==
    LET s == saving[i]
        added == {[interaction |-> i, field |-> f,
                   expires |-> IF f = "replay" THEN s.replayExpires ELSE s.expires] :
                     f \in s.fields}
        entry == [interaction |-> i, print |-> s.print, reserved |-> s.reserved,
                  expires |-> s.replayExpires]
        entries == [replays EXCEPT ![s.key] = entry]
        old == {p \in payloads : replays[s.key] # None /\ p.field = "replay"
                                   /\ p.interaction = replays[s.key].interaction}
    IN
    /\ s # None
    /\ Writable(i) /\ row[i] = None
    /\ SubjectOf[i] \notin subjectTombstones
    /\ row' = [row EXCEPT ![i] = [state |-> "active", expires |-> s.expires]]
    /\ refs' = refs \cup ({i} \X (s.fields \ {"replay"}))
    /\ IF "replay" \in s.fields
       THEN Without(entries, Evicted(entries), (payloads \ old) \cup added)
       ELSE replays' = replays /\ payloads' = payloads \cup added
    /\ saving' = [saving EXCEPT ![i] = None]
    /\ UNCHANGED <<clock, completed, tombstones, subjectTombstones, events, tail, shadow, deadline,
                   sweeping>>

\* The transaction is refused or fails and is rolled back; save counts the
\* failure, emits degraded events and returns.
SaveFail(i) ==
    /\ saving[i] # None
    /\ saving' = [saving EXCEPT ![i] = None]
    /\ UNCHANGED <<clock, stored, completed, shadow, deadline, sweeping>>

-----------------------------------------------------------------------------
(* Shadow attempts and feedback *)

\* The shadow worker is handed the interaction save returned, stored or not.
ShadowQueue(i) ==
    /\ completed[i] # None /\ saving[i] = None /\ shadow[i] = "none"
    /\ shadow' = [shadow EXCEPT ![i] = "queued"]
    /\ UNCHANGED <<clock, stored, completed, saving, deadline, sweeping>>

\* Mutant of ShadowDeadline: the retention of the interaction is forgotten.
ShadowDeadlineFresh(i, retention) == clock + retention

\* The earlier of the interaction's retention and the current policy's.
ShadowDeadline(i, retention) == Lesser(completed[i] + Retention, clock + retention)

\* save_shadow up to its transaction; past the deadline it returns False.
ShadowPrepare(i, retention) ==
    /\ shadow[i] = "queued"
    /\ IF ShadowDeadline(i, retention) <= clock
       THEN shadow' = [shadow EXCEPT ![i] = "done"] /\ UNCHANGED deadline
       ELSE /\ shadow' = [shadow EXCEPT ![i] = "prepared"]
            /\ deadline' = [deadline EXCEPT ![i] = ShadowDeadline(i, retention)]
    /\ UNCHANGED <<clock, stored, completed, saving, sweeping>>

\* save_shadow returns.
ShadowEnd(i) ==
    /\ shadow' = [shadow EXCEPT ![i] = "done"]
    /\ deadline' = [deadline EXCEPT ![i] = 0]

\* Mutant of ShadowCommit: the state read before the provider call is trusted.
ShadowCommitUnchecked(i) ==
    /\ shadow[i] = "prepared"
    /\ row[i] # None
    /\ payloads' = payloads \cup {[interaction |-> i, field |-> "shadow", expires |-> deadline[i]]}
    /\ refs' = refs \cup {<<i, "shadow">>}
    /\ ShadowEnd(i)
    /\ UNCHANGED <<clock, row, completed, replays, tombstones, subjectTombstones, events, tail,
                   saving, sweeping>>

\* The transaction of save_shadow, for an output that may be logged.
ShadowCommit(i) ==
    /\ shadow[i] = "prepared"
    /\ row[i] # None /\ row[i].state = "active" /\ Writable(i)
    /\ payloads' = payloads \cup {[interaction |-> i, field |-> "shadow", expires |-> deadline[i]]}
    /\ refs' = refs \cup {<<i, "shadow">>}
    /\ ShadowEnd(i)
    /\ UNCHANGED <<clock, row, completed, replays, tombstones, subjectTombstones, events, tail,
                   saving, sweeping>>

\* The interaction is not active, the transaction fails, or there is no output
\* to keep.
ShadowDrop(i) ==
    /\ shadow[i] = "prepared"
    /\ ShadowEnd(i)
    /\ UNCHANGED <<clock, stored, completed, saving, sweeping>>

\* record: a comment or correction whose content may be logged.
Feedback(i) ==
    /\ row[i] # None /\ row[i].state = "active"
    /\ i \notin tombstones /\ SubjectOf[i] \notin subjectTombstones
    /\ row[i].expires > clock
    /\ payloads' = payloads \cup
                     {[interaction |-> i, field |-> "feedback", expires |-> row[i].expires]}
    /\ refs' = refs \cup {<<i, "feedback">>}
    /\ UNCHANGED <<clock, row, completed, replays, tombstones, subjectTombstones, events, tail,
                   saving, shadow, deadline, sweeping>>

-----------------------------------------------------------------------------
(* Erasure *)

\* clear_refs and delete_interaction for every interaction of I.
Cleared(I, state, rs, ps) ==
    /\ row' = [i \in Interactions |-> IF i \in I THEN [row[i] EXCEPT !.state = state] ELSE row[i]]
    /\ refs' = {r \in refs : r[1] \notin I}
    /\ replays' = [k \in Keys |-> IF rs[k] # None /\ rs[k].interaction \in I THEN None ELSE rs[k]]
    /\ payloads' = {p \in ps : p.interaction \notin I}

\* enqueue skips an event id the outbox has: a repeated deletion reuses its
\* deletion_request_id.  Events of X come before those of Y.
Announced(X, Y) ==
    LET X1 == {x \in X : events[x] = 0}
        Y1 == {y \in Y : events[y] = 0}
    IN
    /\ events' = [x \in Interactions \cup Subjects |->
                    IF x \in X1 THEN tail + 1 ELSE IF x \in Y1 THEN tail + 2 ELSE events[x]]
    /\ tail' = IF X1 \cup Y1 = {} THEN tail ELSE tail + 2

\* delete: a stored interaction, whatever its state.
Delete(i) ==
    /\ row[i] # None
    /\ tombstones' = tombstones \cup {i}
    /\ Cleared({i}, "deleted", replays, payloads)
    /\ Announced({i}, {})
    /\ UNCHANGED <<clock, completed, subjectTombstones, saving, shadow, deadline, sweeping>>

\* for_subject: the subject's stored interactions that are not deleted.
ForSubject(s) ==
    {i \in Interactions : SubjectOf[i] = s /\ row[i] # None /\ row[i].state # "deleted"}

\* delete_subject: the subject tombstone and every interaction of the subject.
DeleteSubject(s) ==
    /\ subjectTombstones' = subjectTombstones \cup {s}
    /\ tombstones' = tombstones \cup ForSubject(s)
    /\ Cleared(ForSubject(s), "deleted", replays, payloads)
    /\ Announced(ForSubject(s), {s})
    /\ UNCHANGED <<clock, completed, saving, shadow, deadline, sweeping>>

\* sweep reads its clock before it takes the transaction.
SweepStart ==
    /\ sweeping = None
    /\ sweeping' = clock
    /\ UNCHANGED <<clock, stored, completed, saving, shadow, deadline>>

Expired(at) == {i \in Interactions : row[i] # None /\ row[i].expires <= at
                                       /\ row[i].state = "active"}

\* The transaction of sweep: expired interactions, then expired replays.
SweepRun ==
    LET I == Expired(sweeping)
        gone == {k \in Keys : replays[k] # None /\ replays[k].expires <= sweeping
                                /\ replays[k].interaction \notin I}
        owners == {replays[k].interaction : k \in gone}
    IN
    /\ sweeping # None
    /\ Cleared(I, "expired",
               [k \in Keys |-> IF k \in gone THEN None ELSE replays[k]],
               {p \in payloads : ~ (p.field = "replay" /\ p.interaction \in owners)})
    /\ sweeping' = None
    /\ UNCHANGED <<clock, completed, tombstones, subjectTombstones, events, tail, saving, shadow,
                   deadline>>

Tick ==
    /\ clock < MaxTime
    /\ clock' = clock + 1
    /\ UNCHANGED <<stored, completed, saving, shadow, deadline, sweeping>>

-----------------------------------------------------------------------------
(* The stores under arbitrary callers *)

Erase ==
    \/ \E i \in Interactions : Delete(i)
    \/ \E s \in Subjects : DeleteSubject(s)
    \/ SweepStart \/ SweepRun

LateWrite(i) ==
    \/ SaveCommit(i) \/ SaveFail(i)
    \/ \E retention \in ShadowRetentions : ShadowPrepare(i, retention)
    \/ ShadowCommit(i) \/ ShadowDrop(i)
    \/ Feedback(i)

StorageNext ==
    \/ \E i \in Interactions, k \in Keys, print \in Prints, reserved, done \in 0..clock,
          fields \in SUBSET {"content", "replay"} :
         reserved <= done /\ SavePrepare(i, k, print, reserved, done, fields)
    \/ \E i \in Interactions : LateWrite(i) \/ ShadowQueue(i)
    \/ Erase
    \/ Tick

StorageSpec == StorageInit /\ [][StorageNext]_storageVars

-----------------------------------------------------------------------------
(* Properties *)

\* Deletion and expiry are final for content: no save, shadow attempt or
\* feedback that was under way leaves a payload, a reference or a replay of an
\* interaction that is tombstoned, expired or deleted, or whose subject is.
Erased ==
    \A i \in Interactions :
        \/ i \in tombstones
        \/ row[i] # None /\ row[i].state # "active"
        \/ SubjectOf[i] \in subjectTombstones
        => /\ \A p \in payloads : p.interaction # i
           /\ \A r \in refs : r[1] # i
           /\ \A k \in Keys : replays[k] # None => replays[k].interaction # i

\* References and payloads match: a reference resolves, a payload is reachable
\* from a record or from exactly the replay entry that owns it, and neither
\* eviction, replacement, expiry nor deletion leaves one without the other.
RefsResolve ==
    /\ \A p \in payloads : IF p.field # "replay" THEN <<p.interaction, p.field>> \in refs
         ELSE \E k \in Keys : /\ replays[k] # None
                              /\ replays[k].interaction = p.interaction
                              /\ replays[k].expires = p.expires
    /\ \A i \in Interactions, f \in Fields : <<i, f>> \in refs =>
         f # "replay" /\ \E p \in payloads : p.interaction = i /\ p.field = f
    /\ \A k \in Keys : replays[k] # None =>
         [interaction |-> replays[k].interaction, field |-> "replay",
          expires |-> replays[k].expires] \in payloads

\* Nothing outlives its interaction: every payload belongs to an active row and
\* expires no later, so the sweep that expires the row removes it in time.
NothingOutlives ==
    \A p \in payloads : /\ row[p.interaction] # None
                        /\ row[p.interaction].state = "active"
                        /\ p.expires <= row[p.interaction].expires

\* "Keep the subject summary after its interaction events in due-time order":
\* once a subject's deletion is announced, every stored interaction of the
\* subject, expired ones and earlier deletions too, was announced before it.
SummaryLast ==
    \A s \in Subjects : events[s] # 0 =>
        \A i \in Interactions : SubjectOf[i] = s /\ row[i] # None =>
            events[i] # 0 /\ events[i] < events[s]

=============================================================================
