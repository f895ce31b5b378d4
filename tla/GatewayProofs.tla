---------------------------- MODULE GatewayProofs ----------------------------
(***************************************************************************)
(* Machine-checked proofs about Persistence, for any interactions,         *)
(* subjects, keys, retention periods and capacity, and about Gateway, for  *)
(* any calls over those stores.                                            *)
(***************************************************************************)
EXTENDS Gateway, TLAPS

\* A tombstone and a deleted row come together, also for a deleted subject.
TombstonesHold ==
    \A i \in Interactions :
        /\ i \in tombstones <=> row[i] # None /\ row[i].state = "deleted"
        /\ SubjectOf[i] \in subjectTombstones /\ row[i] # None => row[i].state = "deleted"

\* The deadlines callers carry from before their transaction stay within the
\* retention of the interaction.
DeadlinesOrdered ==
    \A i \in Interactions :
        /\ shadow[i] # "none" \/ saving[i] # None \/ row[i] # None => completed[i] # None
        /\ saving[i] # None => /\ completed[i] + Retention <= saving[i].expires
                               /\ saving[i].replayExpires <= saving[i].expires
        /\ row[i] # None => completed[i] + Retention <= row[i].expires
        /\ shadow[i] = "prepared" => deadline[i] <= completed[i] + Retention

\* An interaction owns at most one replay entry.
OneReplay ==
    \A j, k \in Keys :
        replays[j] # None /\ replays[k] # None /\ replays[j].interaction = replays[k].interaction
        => j = k

\* Exactly the deletions that are recorded are announced, in outbox order.
AnnouncedOnce ==
    /\ \A i \in Interactions : events[i] # 0 <=> i \in tombstones
    /\ \A s \in Subjects : events[s] # 0 <=> s \in subjectTombstones
    /\ \A x \in Interactions \cup Subjects : events[x] <= tail

\* What the stores keep, and what callers and the outbox say of it.
IInv ==
    /\ TypeOK
    /\ TombstonesHold /\ DeadlinesOrdered /\ OneReplay /\ AnnouncedOnce
    /\ RefsResolve /\ NothingOutlives /\ SummaryLast

-----------------------------------------------------------------------------
(* The stores as values: what one change to them preserves *)

\* Rows rw, references rf, replay entries rs and payloads ps fit together.
Fit(rw, rf, rs, ps) ==
    /\ rw \in [Interactions -> Rows \cup {None}]
    /\ rf \subseteq Interactions \X Fields
    /\ rs \in [Keys -> Replays \cup {None}]
    /\ ps \subseteq Payloads
    /\ \A p \in ps : /\ rw[p.interaction] # None
                     /\ rw[p.interaction].state = "active"
                     /\ p.expires <= rw[p.interaction].expires
    /\ \A p \in ps : IF p.field # "replay" THEN <<p.interaction, p.field>> \in rf
         ELSE \E k \in Keys : /\ rs[k] # None
                              /\ rs[k].interaction = p.interaction
                              /\ rs[k].expires = p.expires
    /\ \A i \in Interactions, f \in Fields : <<i, f>> \in rf =>
         f # "replay" /\ \E p \in ps : p.interaction = i /\ p.field = f
    /\ \A k \in Keys : rs[k] # None =>
         [interaction |-> rs[k].interaction, field |-> "replay", expires |-> rs[k].expires] \in ps
    /\ \A j, k \in Keys :
         rs[j] # None /\ rs[k] # None /\ rs[j].interaction = rs[k].interaction => j = k

\* The invariant of the stores is Fit of their contents.
LEMMA FitMeans ==
    TypeOK => (Fit(row, refs, replays, payloads) <=> OneReplay /\ RefsResolve /\ NothingOutlives)
  BY DEF TypeOK, Fit, OneReplay, RefsResolve, NothingOutlives

\* The same of the next state.
LEMMA FitMeansNext ==
    ASSUME TypeOK', Fit(row', refs', replays', payloads')
    PROVE  OneReplay' /\ RefsResolve' /\ NothingOutlives'
  BY DEF TypeOK, Fit, OneReplay, RefsResolve, NothingOutlives

\* Replay entries leave together with their payloads (delete_replay, eviction
\* and expire_replays).
LEMMA FitDrop ==
    ASSUME NEW rw, NEW rf, NEW rs, NEW ps, Fit(rw, rf, rs, ps), NEW ks \in SUBSET Keys
    PROVE  Fit(rw, rf, [k \in Keys |-> IF k \in ks THEN None ELSE rs[k]],
               {p \in ps : ~ \E k \in ks : rs[k] # None /\ p.field = "replay"
                                           /\ p.interaction = rs[k].interaction})
<1> DEFINE rs1 == [k \in Keys |-> IF k \in ks THEN None ELSE rs[k]]
           ps1 == {p \in ps : ~ \E k \in ks : rs[k] # None /\ p.field = "replay"
                                              /\ p.interaction = rs[k].interaction}
<1>1. /\ \A k \in Keys : k \in ks => rs1[k] = None
      /\ \A k \in Keys : k \notin ks => rs1[k] = rs[k]
      /\ rs1 \in [Keys -> Replays \cup {None}]
  BY DEF Fit
<1>2. /\ ps1 \subseteq ps
      /\ \A p \in ps : p.field # "replay" => p \in ps1
      /\ \A p \in ps1, k \in ks : p.field = "replay" /\ rs[k] # None =>
           p.interaction # rs[k].interaction
  OBVIOUS
<1>3. \A k \in Keys : k \notin ks /\ rs[k] # None =>
        [interaction |-> rs[k].interaction, field |-> "replay", expires |-> rs[k].expires] \in ps1
  BY DEF Fit
<1> HIDE DEF rs1, ps1
<1>4. /\ ps1 \subseteq Payloads
      /\ \A p \in ps1 : /\ rw[p.interaction] # None
                        /\ rw[p.interaction].state = "active"
                        /\ p.expires <= rw[p.interaction].expires
  BY <1>2 DEF Fit
<1>5. \A p \in ps1 : p.field # "replay" => <<p.interaction, p.field>> \in rf
  BY <1>2 DEF Fit
<1>6. ASSUME NEW p \in ps1, p.field = "replay"
      PROVE  \E k \in Keys : /\ rs1[k] # None
                             /\ rs1[k].interaction = p.interaction
                             /\ rs1[k].expires = p.expires
  <2>1. PICK k \in Keys : /\ rs[k] # None
                          /\ rs[k].interaction = p.interaction
                          /\ rs[k].expires = p.expires
    BY <1>2, <1>6 DEF Fit
  <2>2. k \notin ks
    BY <1>2, <1>6, <2>1
  <2> QED
    BY <1>1, <2>1, <2>2
<1>7. \A i \in Interactions, f \in Fields : <<i, f>> \in rf =>
        f # "replay" /\ \E p \in ps1 : p.interaction = i /\ p.field = f
  BY <1>2 DEF Fit
<1>8. \A k \in Keys : rs1[k] # None =>
        [interaction |-> rs1[k].interaction, field |-> "replay", expires |-> rs1[k].expires] \in ps1
  BY <1>1, <1>3
<1>9. \A j, k \in Keys :
        rs1[j] # None /\ rs1[k] # None /\ rs1[j].interaction = rs1[k].interaction => j = k
  BY <1>1 DEF Fit
<1>10. rw \in [Interactions -> Rows \cup {None}] /\ rf \subseteq Interactions \X Fields
  BY DEF Fit
<1>11. Fit(rw, rf, rs1, ps1)
  BY <1>1, <1>4, <1>5, <1>6, <1>7, <1>8, <1>9, <1>10 DEF Fit
<1> QED
  BY <1>11 DEF rs1, ps1

\* Everything of the interactions in I leaves together (clear_refs and
\* delete_interaction), as their rows change state.
LEMMA FitClear ==
    ASSUME NEW rw, NEW rf, NEW rs, NEW ps, Fit(rw, rf, rs, ps), NEW I \in SUBSET Interactions,
           NEW rw1 \in [Interactions -> Rows \cup {None}],
           \A i \in Interactions : i \notin I => rw1[i] = rw[i],
           NEW rf1 \in SUBSET (Interactions \X Fields),
           \A i \in Interactions, f \in Fields : <<i, f>> \in rf1 <=> <<i, f>> \in rf /\ i \notin I,
           NEW rs1 \in [Keys -> Replays \cup {None}],
           \A k \in Keys : rs1[k] # None => rs1[k] = rs[k] /\ rs[k].interaction \notin I,
           \A k \in Keys : rs[k] # None /\ rs[k].interaction \notin I => rs1[k] = rs[k],
           NEW ps1 \in SUBSET Payloads,
           \A p : p \in ps1 <=> p \in ps /\ p.interaction \notin I
    PROVE  Fit(rw1, rf1, rs1, ps1)
<1>1. \A p \in ps1 : p \in ps /\ p.interaction \in Interactions /\ p.field \in Fields
  BY DEF Payloads
<1>2. \A p \in ps1 : /\ rw1[p.interaction] # None
                     /\ rw1[p.interaction].state = "active"
                     /\ p.expires <= rw1[p.interaction].expires
  BY <1>1 DEF Fit
<1>3. \A p \in ps1 : p.field # "replay" => <<p.interaction, p.field>> \in rf1
  BY <1>1 DEF Fit
<1>4. ASSUME NEW p \in ps1, p.field = "replay"
      PROVE  \E k \in Keys : /\ rs1[k] # None
                             /\ rs1[k].interaction = p.interaction
                             /\ rs1[k].expires = p.expires
  <2>1. PICK k \in Keys : /\ rs[k] # None
                          /\ rs[k].interaction = p.interaction
                          /\ rs[k].expires = p.expires
    BY <1>4 DEF Fit
  <2> QED
    BY <2>1
<1>5. \A i \in Interactions, f \in Fields : <<i, f>> \in rf1 =>
        f # "replay" /\ \E p \in ps1 : p.interaction = i /\ p.field = f
  BY DEF Fit
<1>6. \A k \in Keys : rs1[k] # None =>
        [interaction |-> rs1[k].interaction, field |-> "replay", expires |-> rs1[k].expires] \in ps1
  BY DEF Fit
<1>7. \A j, k \in Keys :
        rs1[j] # None /\ rs1[k] # None /\ rs1[j].interaction = rs1[k].interaction => j = k
  BY DEF Fit
<1> QED
  BY <1>2, <1>3, <1>4, <1>5, <1>6, <1>7 DEF Fit

\* A payload is written with the reference to it.
LEMMA FitAdd ==
    ASSUME NEW rw, NEW rf, NEW rs, NEW ps, Fit(rw, rf, rs, ps), NEW i \in Interactions,
           NEW f \in Fields \ {"replay"}, NEW e \in Nat,
           rw[i] # None, rw[i].state = "active", e <= rw[i].expires
    PROVE  Fit(rw, rf \cup {<<i, f>>}, rs,
               ps \cup {[interaction |-> i, field |-> f, expires |-> e]})
<1> DEFINE b == [interaction |-> i, field |-> f, expires |-> e]
<1>1. b \in Payloads /\ b.interaction = i /\ b.field = f /\ b.expires = e
  BY DEF Payloads
<1> HIDE DEF b
<1>2. \A p \in ps \cup {b} : /\ rw[p.interaction] # None
                             /\ rw[p.interaction].state = "active"
                             /\ p.expires <= rw[p.interaction].expires
  BY <1>1 DEF Fit
<1>3. \A p \in ps \cup {b} : IF p.field # "replay" THEN <<p.interaction, p.field>> \in rf \cup {<<i, f>>}
         ELSE \E k \in Keys : /\ rs[k] # None
                              /\ rs[k].interaction = p.interaction
                              /\ rs[k].expires = p.expires
  BY <1>1 DEF Fit
<1>4. \A j \in Interactions, g \in Fields : <<j, g>> \in rf \cup {<<i, f>>} =>
         g # "replay" /\ \E p \in ps \cup {b} : p.interaction = j /\ p.field = g
  BY <1>1 DEF Fit
<1>5. Fit(rw, rf \cup {<<i, f>>}, rs, ps \cup {b})
  BY <1>1, <1>2, <1>3, <1>4 DEF Fit
<1> QED
  BY <1>5 DEF b

\* A replay entry is written with its payload, for an interaction without one
\* and under a key that is free.
LEMMA FitReplay ==
    ASSUME NEW rw, NEW rf, NEW rs, NEW ps, Fit(rw, rf, rs, ps), NEW k \in Keys, NEW e \in Replays,
           rs[k] = None, \A j \in Keys : rs[j] # None => rs[j].interaction # e.interaction,
           rw[e.interaction] # None, rw[e.interaction].state = "active",
           e.expires <= rw[e.interaction].expires
    PROVE  Fit(rw, rf, [rs EXCEPT ![k] = e],
               ps \cup {[interaction |-> e.interaction, field |-> "replay", expires |-> e.expires]})
<1> DEFINE b == [interaction |-> e.interaction, field |-> "replay", expires |-> e.expires]
           rs1 == [rs EXCEPT ![k] = e]
<1>1. /\ b \in Payloads /\ b.interaction = e.interaction /\ b.field = "replay"
      /\ b.expires = e.expires
  BY DEF Payloads, Replays, Fields
<1>2. /\ rs1 \in [Keys -> Replays \cup {None}] /\ rs1[k] = e /\ e # None
      /\ \A j \in Keys : j # k => rs1[j] = rs[j]
  BY AbsentAssumption DEF Fit
<1>3. \A j \in Keys : rs1[j] # None =>
        [interaction |-> rs1[j].interaction, field |-> "replay", expires |-> rs1[j].expires]
          \in ps \cup {b}
  BY <1>2 DEF Fit
<1> HIDE DEF b, rs1
<1>4. \A p \in ps \cup {b} : /\ rw[p.interaction] # None
                             /\ rw[p.interaction].state = "active"
                             /\ p.expires <= rw[p.interaction].expires
  BY <1>1 DEF Fit
<1>5. ASSUME NEW p \in ps \cup {b}, p.field = "replay"
      PROVE  \E j \in Keys : /\ rs1[j] # None
                             /\ rs1[j].interaction = p.interaction
                             /\ rs1[j].expires = p.expires
  <2>1. CASE p = b
    BY <1>1, <1>2, <2>1
  <2>2. CASE p \in ps
    <3>1. PICK j \in Keys : /\ rs[j] # None
                            /\ rs[j].interaction = p.interaction
                            /\ rs[j].expires = p.expires
      BY <1>5, <2>2 DEF Fit
    <3> QED
      BY <1>2, <3>1
  <2> QED
    BY <2>1, <2>2
<1>6. \A p \in ps \cup {b} : p.field # "replay" => <<p.interaction, p.field>> \in rf
  BY <1>1 DEF Fit
<1>7. \A i \in Interactions, f \in Fields : <<i, f>> \in rf =>
        f # "replay" /\ \E p \in ps \cup {b} : p.interaction = i /\ p.field = f
  BY DEF Fit
<1>8. \A j, m \in Keys :
        rs1[j] # None /\ rs1[m] # None /\ rs1[j].interaction = rs1[m].interaction => j = m
  BY <1>2 DEF Fit
<1>9. Fit(rw, rf, rs1, ps \cup {b})
  BY <1>1, <1>2, <1>3, <1>4, <1>5, <1>6, <1>7, <1>8 DEF Fit
<1> QED
  BY <1>9 DEF b, rs1

\* A row that is new touches nothing, and nothing is kept of it yet.
LEMMA FitRow ==
    ASSUME NEW rw, NEW rf, NEW rs, NEW ps, Fit(rw, rf, rs, ps), NEW i \in Interactions,
           NEW e \in Nat, rw[i] = None
    PROVE  /\ Fit([rw EXCEPT ![i] = [state |-> "active", expires |-> e]], rf, rs, ps)
           /\ \A p \in ps : p.interaction # i
           /\ \A k \in Keys : rs[k] # None => rs[k].interaction # i
<1> DEFINE rw1 == [rw EXCEPT ![i] = [state |-> "active", expires |-> e]]
<1>1. /\ \A p \in ps : p.interaction # i /\ p.interaction \in Interactions
      /\ \A k \in Keys : rs[k] # None => rs[k].interaction # i
  <2>1. ASSUME NEW p \in ps
        PROVE  p.interaction # i /\ p.interaction \in Interactions
    BY DEF Fit, Payloads
  <2>2. ASSUME NEW k \in Keys, rs[k] # None
        PROVE  rs[k].interaction # i
    <3>1. [interaction |-> rs[k].interaction, field |-> "replay", expires |-> rs[k].expires] \in ps
      BY <2>2 DEF Fit
    <3> QED
      BY <2>1, <3>1
  <2> QED
    BY <2>1, <2>2
<1>2. /\ rw1 \in [Interactions -> Rows \cup {None}]
      /\ \A j \in Interactions : j # i => rw1[j] = rw[j]
  BY DEF Fit, Rows
<1> HIDE DEF rw1
<1>3. Fit(rw1, rf, rs, ps)
  BY <1>1, <1>2 DEF Fit
<1> QED
  BY <1>1, <1>3 DEF rw1

-----------------------------------------------------------------------------
(* Steps outside a transaction *)

\* A step that leaves the stores alone has only types and deadlines to keep.
LEMMA QuietStep ==
    ASSUME IInv, UNCHANGED stored, TypeOK', DeadlinesOrdered'
    PROVE  IInv'
  BY DEF IInv, stored, TombstonesHold, OneReplay, AnnouncedOnce, RefsResolve, NothingOutlives,
         SummaryLast

\* _save fixes deadlines no earlier than those of the completed interaction.
LEMMA PrepareStep ==
    ASSUME IInv, NEW i \in Interactions, NEW k \in Keys, NEW print \in Prints,
           NEW since \in Nat, NEW done \in Nat, NEW fields \in SUBSET {"content", "replay"},
           done <= clock, SavePrepare(i, k, print, since, done, fields)
    PROVE  IInv'
<1> DEFINE s == [key |-> k, print |-> print, reserved |-> since,
                 expires |-> clock + Retention,
                 replayExpires |-> Lesser(clock + Retention, clock + ReplayTTL),
                 fields |-> fields]
<1>1. TypeOK /\ DeadlinesOrdered
  BY DEF IInv
<1>2. /\ completed[i] = None
      /\ completed' = [completed EXCEPT ![i] = done]
      /\ saving' = [saving EXCEPT ![i] = s]
      /\ UNCHANGED <<clock, stored, shadow, deadline, sweeping>>
  BY DEF SavePrepare
<1>3. /\ clock + Retention \in Nat /\ Lesser(clock + Retention, clock + ReplayTTL) \in Nat
      /\ Lesser(clock + Retention, clock + ReplayTTL) <= clock + Retention
      /\ done + Retention <= clock + Retention
  BY <1>1, PersistenceAssumption DEF TypeOK, Lesser
<1>4. /\ s \in Saves /\ s.expires = clock + Retention
      /\ s.replayExpires = Lesser(clock + Retention, clock + ReplayTTL)
  BY <1>3 DEF Saves
<1> HIDE DEF s
<1>5. TypeOK'
  BY <1>1, <1>2, <1>4 DEF TypeOK, stored
<1>6. DeadlinesOrdered'
  <2> SUFFICES ASSUME NEW j \in Interactions
               PROVE  /\ shadow'[j] # "none" \/ saving'[j] # None \/ row'[j] # None
                             => completed'[j] # None
                      /\ saving'[j] # None => /\ completed'[j] + Retention <= saving'[j].expires
                                              /\ saving'[j].replayExpires <= saving'[j].expires
                      /\ row'[j] # None => completed'[j] + Retention <= row'[j].expires
                      /\ shadow'[j] = "prepared" => deadline'[j] <= completed'[j] + Retention
    BY DEF DeadlinesOrdered
  <2>1. CASE j = i
    <3>1. shadow[j] = "none" /\ row[j] = None
      BY <1>1, <1>2, <2>1 DEF DeadlinesOrdered
    <3> QED
      BY <1>1, <1>2, <1>3, <1>4, <2>1, <3>1, PersistenceAssumption DEF TypeOK, stored
  <2>2. CASE j # i
    BY <1>1, <1>2, <2>2 DEF DeadlinesOrdered, TypeOK, stored
  <2> QED
    BY <2>1, <2>2
<1> QED
  BY <1>2, <1>5, <1>6, QuietStep

\* The other steps that only callers see.
LEMMA CallerStep ==
    ASSUME IInv,
           \/ \E i \in Interactions : \/ SaveFail(i) \/ ShadowQueue(i) \/ ShadowDrop(i)
                                      \/ \E d \in ShadowRetentions : ShadowPrepare(i, d)
           \/ SweepStart \/ Tick
    PROVE  IInv'
<1>1. TypeOK /\ DeadlinesOrdered
  BY DEF IInv
<1>2. ASSUME NEW i \in Interactions, SaveFail(i) PROVE IInv'
  <2>1. TypeOK' /\ DeadlinesOrdered'
    BY <1>1, <1>2 DEF SaveFail, TypeOK, DeadlinesOrdered, stored
  <2> QED
    BY <1>2, <2>1, QuietStep DEF SaveFail
<1>3. ASSUME NEW i \in Interactions, ShadowQueue(i) PROVE IInv'
  <2>1. TypeOK' /\ DeadlinesOrdered'
    BY <1>1, <1>3 DEF ShadowQueue, TypeOK, DeadlinesOrdered, stored
  <2> QED
    BY <1>3, <2>1, QuietStep DEF ShadowQueue
<1>4. ASSUME NEW i \in Interactions, ShadowDrop(i) PROVE IInv'
  <2>1. TypeOK' /\ DeadlinesOrdered'
    BY <1>1, <1>4 DEF ShadowDrop, ShadowEnd, TypeOK, DeadlinesOrdered, stored
  <2> QED
    BY <1>4, <2>1, QuietStep DEF ShadowDrop
<1>5. ASSUME NEW i \in Interactions, NEW d \in ShadowRetentions, ShadowPrepare(i, d) PROVE IInv'
  <2>1. completed[i] \in Nat
    BY <1>1, <1>5 DEF ShadowPrepare, DeadlinesOrdered, TypeOK
  <2>2. ShadowDeadline(i, d) \in Nat /\ ShadowDeadline(i, d) <= completed[i] + Retention
    BY <1>1, <2>1, PersistenceAssumption DEF ShadowDeadline, Lesser, TypeOK
  <2>3. TypeOK'
    BY <1>1, <1>5, <2>2 DEF ShadowPrepare, TypeOK, stored
  <2>4. DeadlinesOrdered'
    BY <1>1, <1>5, <2>1, <2>2 DEF ShadowPrepare, TypeOK, DeadlinesOrdered, stored
  <2> QED
    BY <1>5, <2>3, <2>4, QuietStep DEF ShadowPrepare
<1>6. ASSUME SweepStart \/ Tick PROVE IInv'
  <2>1. TypeOK' /\ DeadlinesOrdered'
    BY <1>1, <1>6 DEF SweepStart, Tick, TypeOK, DeadlinesOrdered, stored
  <2> QED
    BY <1>6, <2>1, QuietStep DEF SweepStart, Tick
<1> QED
  BY <1>2, <1>3, <1>4, <1>5, <1>6

-----------------------------------------------------------------------------
(* Writing transactions *)

\* save_shadow and record write one payload of an active interaction.
LEMMA WriteStep ==
    ASSUME IInv, NEW i \in Interactions, ShadowCommit(i) \/ Feedback(i)
    PROVE  IInv'
<1> USE DEF IInv
<1>1. /\ row[i] # None /\ row[i].state = "active"
      /\ UNCHANGED <<clock, row, completed, replays, tombstones, subjectTombstones, events, tail,
                     saving, sweeping>>
  BY DEF ShadowCommit, Feedback
<1>2. Fit(row, refs, replays, payloads)
  BY FitMeans
<1>3. row[i] \in Rows /\ row[i].expires \in Nat /\ row[i].expires <= row[i].expires
  BY <1>1 DEF TypeOK, Rows
<1>4. CASE ShadowCommit(i)
  <2>1. deadline[i] \in Nat /\ deadline[i] <= row[i].expires
    <3>1. completed[i] \in Nat /\ deadline[i] \in Nat
      BY <1>1 DEF DeadlinesOrdered, TypeOK
    <3>2. deadline[i] <= completed[i] + Retention /\ completed[i] + Retention <= row[i].expires
      BY <1>1, <1>4 DEF ShadowCommit, DeadlinesOrdered
    <3> QED
      BY <1>3, <3>1, <3>2, PersistenceAssumption
  <2>2. Fit(row', refs', replays', payloads')
    <3>1. Fit(row, refs \cup {<<i, "shadow">>}, replays,
              payloads \cup {[interaction |-> i, field |-> "shadow", expires |-> deadline[i]]})
      BY <1>1, <1>2, <2>1, FitAdd DEF Fields
    <3> QED
      BY <1>1, <1>4, <3>1 DEF ShadowCommit
  <2>3. TypeOK' /\ DeadlinesOrdered'
    <3>1. /\ shadow' \in [Interactions -> {"none", "queued", "prepared", "done"}]
          /\ deadline' \in [Interactions -> Nat]
          /\ payloads' \subseteq Payloads /\ refs' \subseteq Interactions \X Fields
      BY <1>4, <2>2 DEF ShadowCommit, ShadowEnd, TypeOK, Fit
    <3>2. TypeOK'
      BY <1>1, <3>1 DEF TypeOK
    <3>3. /\ \A j \in Interactions : shadow'[j] # "none" => shadow[j] # "none"
          /\ \A j \in Interactions : shadow'[j] = "prepared" =>
               shadow[j] = "prepared" /\ deadline'[j] = deadline[j]
      BY <1>4 DEF ShadowCommit, ShadowEnd, TypeOK
    <3> QED
      BY <1>1, <3>2, <3>3 DEF DeadlinesOrdered
  <2> QED
    BY <1>1, <2>2, <2>3, FitMeansNext DEF TombstonesHold, AnnouncedOnce, SummaryLast
<1>5. CASE Feedback(i)
  <2>1. Fit(row', refs', replays', payloads')
    <3>1. Fit(row, refs \cup {<<i, "feedback">>}, replays,
              payloads \cup {[interaction |-> i, field |-> "feedback", expires |-> row[i].expires]})
      BY <1>1, <1>2, <1>3, FitAdd DEF Fields
    <3> QED
      BY <1>1, <1>5, <3>1 DEF Feedback
  <2>2. TypeOK' /\ DeadlinesOrdered'
    BY <1>1, <1>5, <2>1 DEF Feedback, TypeOK, DeadlinesOrdered, Fit
  <2> QED
    BY <1>1, <2>1, <2>2, FitMeansNext DEF TombstonesHold, AnnouncedOnce, SummaryLast
<1> QED
  BY <1>4, <1>5

\* What the transaction of _save does to the stores.
LEMMA SaveFit ==
    ASSUME IInv, NEW i \in Interactions, SaveCommit(i)
    PROVE  Fit(row', refs', replays', payloads')
<1> DEFINE s == saving[i]
           row1 == [row EXCEPT ![i] = [state |-> "active", expires |-> s.expires]]
           b(f) == [interaction |-> i, field |-> f,
                    expires |-> IF f = "replay" THEN s.replayExpires ELSE s.expires]
           added == {b(f) : f \in s.fields}
           item == [interaction |-> i, print |-> s.print, reserved |-> s.reserved,
                     expires |-> s.replayExpires]
           entries == [replays EXCEPT ![s.key] = item]
           old == {p \in payloads : replays[s.key] # None /\ p.field = "replay"
                                      /\ p.interaction = replays[s.key].interaction}
           rf == refs \cup ({i} \X (s.fields \ {"replay"}))
<1>1. /\ s # None /\ row[i] = None /\ row' = row1 /\ refs' = rf
      /\ IF "replay" \in s.fields
         THEN Without(entries, Evicted(entries), (payloads \ old) \cup added)
         ELSE replays' = replays /\ payloads' = payloads \cup added
  BY DEF SaveCommit
<1>2. /\ s \in Saves /\ s.key \in Keys /\ s.print \in Prints /\ s.reserved \in Nat
      /\ s.expires \in Nat /\ s.replayExpires \in Nat /\ s.fields \subseteq {"content", "replay"}
  <2>1. s \in Saves
    BY <1>1 DEF IInv, TypeOK
  <2> QED
    BY <2>1 DEF Saves
<1>3. s.replayExpires <= s.expires /\ s.expires <= s.expires
  BY <1>1, <1>2 DEF IInv, DeadlinesOrdered
<1>4. Fit(row, refs, replays, payloads)
  BY FitMeans DEF IInv
<1>5. /\ row1[i] # None /\ row1[i].state = "active" /\ row1[i].expires = s.expires
  <2>1. row1[i] = [state |-> "active", expires |-> s.expires]
    BY DEF IInv, TypeOK
  <2>2. row1[i] \in Rows
    BY <1>2, <2>1 DEF Rows
  <2> QED
    BY <2>1, <2>2, AbsentAssumption
<1> HIDE DEF s
<1>6. /\ Fit(row1, refs, replays, payloads)
      /\ \A k \in Keys : replays[k] # None => replays[k].interaction # i
  <2>1. ASSUME NEW e \in Nat
        PROVE  /\ Fit([row EXCEPT ![i] = [state |-> "active", expires |-> e]], refs, replays, payloads)
               /\ \A k \in Keys : replays[k] # None => replays[k].interaction # i
    <3>1. row[i] = None
      BY <1>1
    <3> QED
      BY <1>4, <3>1, FitRow, Zenon
  <2> QED
    BY <1>2, <2>1, Zenon
<1>7. ASSUME NEW rs, NEW ps, Fit(row1, refs, rs, ps)
      PROVE  Fit(row1, rf, rs, ps \cup {b(f) : f \in s.fields \ {"replay"}})
  <2>1. CASE "content" \in s.fields
    <3>1. Fit(row1, refs \cup {<<i, "content">>}, rs,
              ps \cup {[interaction |-> i, field |-> "content", expires |-> s.expires]})
      <4>1. "content" \in Fields \ {"replay"}
        BY DEF Fields
      <4> HIDE DEF row1
      <4> QED
        BY <1>2, <1>3, <1>5, <1>7, <4>1, FitAdd
    <3>2. s.fields \ {"replay"} = {"content"}
      BY <1>2, <2>1
    <3>3. rf = refs \cup {<<i, "content">>}
      BY <3>2
    <3>4. {b(f) : f \in s.fields \ {"replay"}}
            = {[interaction |-> i, field |-> "content", expires |-> s.expires]}
      BY <3>2
    <3> QED
      BY <3>1, <3>3, <3>4
  <2>2. CASE "content" \notin s.fields
    <3>1. s.fields \ {"replay"} = {}
      BY <1>2, <2>2
    <3>2. rf = refs /\ {b(f) : f \in s.fields \ {"replay"}} = {}
      BY <3>1
    <3> QED
      BY <1>7, <3>2
  <2> QED
    BY <2>1, <2>2
<1>8. CASE "replay" \notin s.fields
  <2>1. s.fields \ {"replay"} = s.fields
    BY <1>8
  <2>2. Fit(row1, rf, replays, payloads \cup added)
    BY <1>6, <1>7, <2>1
  <2> QED
    BY <1>1, <1>8, <2>2
<1>9. CASE "replay" \in s.fields
  <2> DEFINE K == {s.key}
             free == [k \in Keys |-> IF k \in K THEN None ELSE replays[k]]
             kept == {p \in payloads : ~ \E k \in K : replays[k] # None /\ p.field = "replay"
                                                             /\ p.interaction = replays[k].interaction}
             kept1 == kept \cup {b(f) : f \in s.fields \ {"replay"}}
  <2>1. Fit(row1, refs, free, kept)
    <3>1. K \in SUBSET Keys
      BY <1>2
    <3> HIDE DEF row1, K
    <3> QED
      BY <1>6, <3>1, FitDrop
  <2>2. Fit(row1, rf, free, kept1)
    BY <1>7, <2>1
  <2>3. kept = payloads \ old
    OBVIOUS
  <2>4. free[s.key] = None /\ \A j \in Keys : free[j] # None => free[j].interaction # i
    BY <1>2, <1>6
  <2>5. item \in Replays /\ item.interaction = i /\ item.expires = s.replayExpires
    BY <1>2 DEF Replays
  <2>6. [free EXCEPT ![s.key] = item] = entries
    BY <1>2, <1>4 DEF Fit
  <2>7. kept1 \cup {b("replay")} = (payloads \ old) \cup added
    <3>1. s.fields = (s.fields \ {"replay"}) \cup {"replay"}
      BY <1>9
    <3>2. added = {b(f) : f \in s.fields \ {"replay"}} \cup {b("replay")}
      BY <3>1
    <3> QED
      BY <2>3, <3>2
  <2>8. Fit(row1, rf, entries, (payloads \ old) \cup added)
    <3> HIDE DEF row1, rf, free, kept1, item
    <3>1. Fit(row1, rf, [free EXCEPT ![s.key] = item],
              kept1 \cup {[interaction |-> item.interaction, field |-> "replay",
                            expires |-> item.expires]})
      BY <1>2, <1>3, <1>5, <2>2, <2>4, <2>5, FitReplay
    <3> QED
      BY <2>5, <2>6, <2>7, <3>1
  <2>9. Evicted(entries) \in SUBSET Keys
    BY DEF Evicted
  <2> HIDE DEF row1, rf, entries, old, added
  <2> QED
    BY <1>1, <1>9, <2>8, <2>9, FitDrop DEF Without
<1> QED
  BY <1>8, <1>9

\* The transaction of _save.
LEMMA SaveStep ==
    ASSUME IInv, NEW i \in Interactions, SaveCommit(i)
    PROVE  IInv'
<1> USE DEF IInv
<1>1. Fit(row', refs', replays', payloads')
  BY SaveFit
<1>2. /\ saving[i] # None /\ row[i] = None /\ i \notin tombstones
      /\ SubjectOf[i] \notin subjectTombstones
      /\ row' = [row EXCEPT ![i] = [state |-> "active", expires |-> saving[i].expires]]
      /\ saving' = [saving EXCEPT ![i] = None]
      /\ UNCHANGED <<clock, completed, tombstones, subjectTombstones, events, tail, shadow, deadline,
                     sweeping>>
  BY DEF SaveCommit, Writable
<1>3. TypeOK'
  BY <1>1, <1>2 DEF TypeOK, Fit
<1>4. /\ row'[i] = [state |-> "active", expires |-> saving[i].expires]
      /\ \A j \in Interactions : j # i => row'[j] = row[j] /\ saving'[j] = saving[j]
      /\ saving'[i] = None
  BY <1>2 DEF TypeOK
<1>5. TombstonesHold'
  BY <1>2, <1>4 DEF TombstonesHold
<1>6. DeadlinesOrdered'
  BY <1>2, <1>4 DEF DeadlinesOrdered
<1>7. AnnouncedOnce'
  BY <1>2 DEF AnnouncedOnce
<1>8. SummaryLast'
  BY <1>2, <1>4 DEF SummaryLast, AnnouncedOnce
<1> QED
  BY <1>1, <1>3, <1>5, <1>6, <1>7, <1>8, FitMeansNext

-----------------------------------------------------------------------------
(* Erasing transactions *)

\* What clear_refs and delete_interaction leave of the rows and the stores.
LEMMA ClearedFacts ==
    ASSUME IInv, NEW I \in SUBSET Interactions, NEW st \in {"expired", "deleted"}, NEW rs, NEW ps,
           Fit(row, refs, rs, ps), \A i \in I : row[i] # None, Cleared(I, st, rs, ps)
    PROVE  /\ Fit(row', refs', replays', payloads')
           /\ \A i \in I : /\ row'[i] # None /\ row'[i].state = st
                           /\ row'[i].expires = row[i].expires
           /\ \A i \in Interactions : i \notin I => row'[i] = row[i]
<1>1. Fit(row', refs', replays', payloads')
  <2>1. /\ row' \in [Interactions -> Rows \cup {None}]
        /\ \A i \in Interactions : i \notin I => row'[i] = row[i]
    BY DEF Cleared, Fit, Rows
  <2>2. /\ refs' \in SUBSET (Interactions \X Fields)
        /\ \A i \in Interactions, f \in Fields :
             <<i, f>> \in refs' <=> <<i, f>> \in refs /\ i \notin I
    BY DEF Cleared, Fit
  <2>3. /\ replays' \in [Keys -> Replays \cup {None}]
        /\ \A k \in Keys : replays'[k] # None => replays'[k] = rs[k] /\ rs[k].interaction \notin I
        /\ \A k \in Keys : rs[k] # None /\ rs[k].interaction \notin I => replays'[k] = rs[k]
    BY DEF Cleared, Fit
  <2>4. /\ payloads' \in SUBSET Payloads
        /\ \A p : p \in payloads' <=> p \in ps /\ p.interaction \notin I
    BY DEF Cleared, Fit
  <2> QED
    BY <2>1, <2>2, <2>3, <2>4, FitClear
<1>2. row' = [i \in Interactions |-> IF i \in I THEN [row[i] EXCEPT !.state = st] ELSE row[i]]
  BY DEF Cleared
<1>3. ASSUME NEW i \in I
      PROVE  row'[i] # None /\ row'[i].state = st /\ row'[i].expires = row[i].expires
  <2>1. row[i] \in Rows
    BY DEF IInv, TypeOK
  <2>2. row'[i] = [row[i] EXCEPT !.state = st]
    BY <1>2
  <2>3. row'[i] \in Rows /\ row'[i].state = st /\ row'[i].expires = row[i].expires
    BY <2>1, <2>2 DEF Rows
  <2> QED
    BY <2>3, AbsentAssumption
<1> QED
  BY <1>1, <1>2, <1>3

\* Types and deadlines survive an erasure.
LEMMA ClearedCallers ==
    ASSUME IInv, Fit(row', refs', replays', payloads'),
           \A i \in Interactions : row'[i] # None => row[i] # None /\ row'[i].expires = row[i].expires,
           tombstones' \subseteq Interactions, subjectTombstones' \subseteq Subjects,
           events' \in [Interactions \cup Subjects -> Nat], tail' \in Nat,
           sweeping' \in Nat \cup {None}, UNCHANGED <<clock, completed, saving, shadow, deadline>>
    PROVE  TypeOK' /\ DeadlinesOrdered'
  BY DEF IInv, TypeOK, DeadlinesOrdered, Fit

\* A deletion announced again keeps its place; one announced now comes last.
LEMMA AnnouncedFacts ==
    ASSUME IInv, NEW X \in SUBSET Interactions, NEW Y \in SUBSET Subjects, Announced(X, Y)
    PROVE  /\ events' \in [Interactions \cup Subjects -> Nat] /\ tail' \in Nat
           /\ \A x \in Interactions \cup Subjects : events'[x] <= tail'
           /\ \A x \in Interactions \cup Subjects : events[x] # 0 => events'[x] = events[x]
           /\ \A x \in X : events[x] = 0 => events'[x] = tail + 1
           /\ \A y \in Y : events[y] = 0 => events'[y] = tail + 2
           /\ \A x \in Interactions \cup Subjects : x \notin X \cup Y => events'[x] = events[x]
<1>1. /\ events \in [Interactions \cup Subjects -> Nat] /\ tail \in Nat
      /\ \A x \in Interactions \cup Subjects : events[x] <= tail
  BY DEF IInv, TypeOK, AnnouncedOnce
<1>2. X \cap Y = {}
  BY PersistenceAssumption
<1> QED
  BY <1>1, <1>2 DEF Announced

\* delete.
LEMMA DeleteStep ==
    ASSUME IInv, NEW i \in Interactions, Delete(i)
    PROVE  IInv'
<1> USE DEF IInv
<1>1. /\ row[i] # None /\ tombstones' = tombstones \cup {i}
      /\ Cleared({i}, "deleted", replays, payloads)
      /\ Announced({i}, {})
      /\ UNCHANGED <<clock, completed, subjectTombstones, saving, shadow, deadline, sweeping>>
  BY DEF Delete
<1>2. /\ Fit(row', refs', replays', payloads')
      /\ row'[i] # None /\ row'[i].state = "deleted" /\ row'[i].expires = row[i].expires
      /\ \A j \in Interactions : j # i => row'[j] = row[j]
  <2> DEFINE I == {i}
  <2>1. I \in SUBSET Interactions /\ \A j \in I : row[j] # None
    BY <1>1
  <2>2. Fit(row, refs, replays, payloads) /\ Cleared(I, "deleted", replays, payloads)
    BY <1>1, FitMeans
  <2>3. i \in I /\ \A j : j \in I => j = i
    OBVIOUS
  <2> HIDE DEF I
  <2>4. /\ Fit(row', refs', replays', payloads')
        /\ \A j \in I : /\ row'[j] # None /\ row'[j].state = "deleted"
                        /\ row'[j].expires = row[j].expires
        /\ \A j \in Interactions : j \notin I => row'[j] = row[j]
    BY <2>1, <2>2, ClearedFacts
  <2> QED
    BY <2>3, <2>4
<1>3. /\ events' \in [Interactions \cup Subjects -> Nat] /\ tail' \in Nat
      /\ \A x \in Interactions \cup Subjects : events'[x] <= tail'
      /\ \A x \in Interactions \cup Subjects : events[x] # 0 => events'[x] = events[x]
      /\ events[i] = 0 => events'[i] = tail + 1
      /\ \A x \in Interactions \cup Subjects : x # i => events'[x] = events[x]
  <2>1. Announced({i}, {}) /\ {i} \in SUBSET Interactions /\ {} \in SUBSET Subjects
    BY <1>1
  <2> QED
    BY <2>1, AnnouncedFacts
<1>4. tombstones' \subseteq Interactions /\ subjectTombstones' \subseteq Subjects
      /\ sweeping' \in Nat \cup {None}
  BY <1>1 DEF TypeOK
<1>5. TypeOK' /\ DeadlinesOrdered'
  BY <1>1, <1>2, <1>3, <1>4, ClearedCallers
<1>6. TombstonesHold'
  BY <1>1, <1>2 DEF TombstonesHold
<1>7. /\ events'[i] # 0 /\ i \notin Subjects /\ tail \in Nat
      /\ \A s \in Subjects : events'[s] = events[s]
  BY <1>3, PersistenceAssumption DEF TypeOK
<1>8. AnnouncedOnce'
  BY <1>1, <1>3, <1>7 DEF AnnouncedOnce
<1>9. SummaryLast'
  <2>1. ASSUME NEW s \in Subjects, events'[s] # 0, NEW j \in Interactions, SubjectOf[j] = s,
               row'[j] # None
        PROVE  events'[j] # 0 /\ events'[j] < events'[s]
    <3>1. row[j] # None /\ events[s] # 0 /\ events'[s] = events[s]
      BY <1>1, <1>2, <1>7, <2>1
    <3>2. events[j] # 0 /\ events[j] < events[s]
      BY <2>1, <3>1 DEF SummaryLast
    <3> QED
      BY <1>3, <3>1, <3>2
  <2> QED
    BY <2>1 DEF SummaryLast
<1> QED
  BY <1>2, <1>5, <1>6, <1>8, <1>9, FitMeansNext

\* delete_subject.
LEMMA DeleteSubjectStep ==
    ASSUME IInv, NEW s \in Subjects, DeleteSubject(s)
    PROVE  IInv'
<1> USE DEF IInv
<1> DEFINE I == ForSubject(s)
<1>1. /\ subjectTombstones' = subjectTombstones \cup {s} /\ tombstones' = tombstones \cup I
      /\ Cleared(I, "deleted", replays, payloads)
      /\ Announced(I, {s})
      /\ UNCHANGED <<clock, completed, saving, shadow, deadline, sweeping>>
  BY DEF DeleteSubject
<1>2. /\ I \in SUBSET Interactions
      /\ \A i \in Interactions : i \in I <=> SubjectOf[i] = s /\ row[i] # None
                                             /\ row[i].state # "deleted"
  BY DEF ForSubject
<1> HIDE DEF I
<1>3. /\ Fit(row', refs', replays', payloads')
      /\ \A i \in I : /\ row'[i] # None /\ row'[i].state = "deleted"
                      /\ row'[i].expires = row[i].expires
      /\ \A i \in Interactions : i \notin I => row'[i] = row[i]
  <2>1. Fit(row, refs, replays, payloads) /\ \A i \in I : row[i] # None
    BY <1>2, FitMeans
  <2> QED
    BY <1>1, <1>2, <2>1, ClearedFacts
<1>4. /\ events' \in [Interactions \cup Subjects -> Nat] /\ tail' \in Nat
      /\ \A x \in Interactions \cup Subjects : events'[x] <= tail'
      /\ \A x \in Interactions \cup Subjects : events[x] # 0 => events'[x] = events[x]
      /\ \A x \in I : events[x] = 0 => events'[x] = tail + 1
      /\ events[s] = 0 => events'[s] = tail + 2
      /\ \A x \in Interactions \cup Subjects : x \notin I /\ x # s => events'[x] = events[x]
  <2>1. {s} \in SUBSET Subjects
    OBVIOUS
  <2> QED
    BY <1>1, <1>2, <2>1, AnnouncedFacts
<1>5. /\ tombstones' \subseteq Interactions /\ subjectTombstones' \subseteq Subjects
      /\ sweeping' \in Nat \cup {None}
  BY <1>1, <1>2 DEF TypeOK
<1>6. TypeOK' /\ DeadlinesOrdered'
  <2>1. \A i \in Interactions : row'[i] # None => row[i] # None /\ row'[i].expires = row[i].expires
    BY <1>2, <1>3
  <2> QED
    BY <1>1, <1>3, <1>4, <1>5, <2>1, ClearedCallers
<1>7. TombstonesHold'
  BY <1>1, <1>2, <1>3 DEF TombstonesHold
<1>8. tail \in Nat /\ s \notin Interactions /\ \A i \in Interactions : i # s
  BY PersistenceAssumption DEF TypeOK
<1>9. AnnouncedOnce'
  <2>1. ASSUME NEW i \in Interactions PROVE events'[i] # 0 <=> i \in tombstones'
    BY <1>1, <1>2, <1>4, <1>8 DEF AnnouncedOnce
  <2>2. ASSUME NEW u \in Subjects PROVE events'[u] # 0 <=> u \in subjectTombstones'
    <3>1. u \notin I
      BY <1>2, PersistenceAssumption
    <3> QED
      BY <1>1, <1>4, <1>8, <3>1 DEF AnnouncedOnce
  <2> QED
    BY <1>4, <2>1, <2>2 DEF AnnouncedOnce
<1>10. SummaryLast'
  <2> SUFFICES ASSUME NEW u \in Subjects, events'[u] # 0, NEW j \in Interactions,
                      SubjectOf[j] = u, row'[j] # None
               PROVE  events'[j] # 0 /\ events'[j] < events'[u]
    BY DEF SummaryLast
  <2>1. row[j] # None
    BY <1>2, <1>3
  <2>2. CASE events[u] # 0
    <3>1. events[j] # 0 /\ events[j] < events[u]
      BY <2>1, <2>2 DEF SummaryLast
    <3> QED
      BY <1>4, <2>2, <3>1
  <2>3. CASE events[u] = 0
    <3>1. u = s
      <4>1. u \notin I
        BY <1>2, PersistenceAssumption
      <4> QED
        BY <1>4, <2>3, <4>1
    <3>2. events'[u] = tail + 2
      BY <1>4, <2>3, <3>1
    <3>3. CASE j \in I
      <4>1. events[j] \in Nat /\ events[j] <= tail
        BY DEF AnnouncedOnce, TypeOK
      <4> QED
        BY <1>4, <1>8, <3>2, <3>3, <4>1
    <3>4. CASE j \notin I
      <4>1. j \in tombstones
        BY <1>2, <2>1, <3>1, <3>4 DEF TombstonesHold
      <4>2. events[j] # 0 /\ events[j] \in Nat /\ events[j] <= tail
        BY <4>1 DEF AnnouncedOnce, TypeOK
      <4> QED
        BY <1>4, <1>8, <3>2, <4>2
    <3> QED
      BY <3>3, <3>4
  <2> QED
    BY <2>2, <2>3
<1> QED
  BY <1>3, <1>6, <1>7, <1>9, <1>10, FitMeansNext

\* The transaction of sweep.
LEMMA SweepStep ==
    ASSUME IInv, SweepRun
    PROVE  IInv'
<1> USE DEF IInv
<1> DEFINE I == Expired(sweeping)
           gone == {k \in Keys : replays[k] # None /\ replays[k].expires <= sweeping
                                   /\ replays[k].interaction \notin I}
           owners == {replays[k].interaction : k \in gone}
           rs == [k \in Keys |-> IF k \in gone THEN None ELSE replays[k]]
           ps == {p \in payloads : ~ (p.field = "replay" /\ p.interaction \in owners)}
<1>1. /\ Cleared(I, "expired", rs, ps)
      /\ sweeping' = None
      /\ UNCHANGED <<clock, completed, tombstones, subjectTombstones, events, tail, saving, shadow,
                     deadline>>
  BY DEF SweepRun
<1>2. I \in SUBSET Interactions /\ \A i \in I : row[i] # None /\ row[i].state = "active"
  BY DEF Expired
<1>3. gone \in SUBSET Keys /\ \A k \in gone : replays[k] # None
  OBVIOUS
<1>4. ps = {p \in payloads : ~ \E k \in gone : replays[k] # None /\ p.field = "replay"
                                                /\ p.interaction = replays[k].interaction}
  BY <1>3
<1> HIDE DEF I, gone
<1>5. Fit(row, refs, rs, ps)
  BY <1>3, <1>4, FitMeans, FitDrop
<1> HIDE DEF owners, rs, ps
<1>6. /\ Fit(row', refs', replays', payloads')
      /\ \A i \in I : /\ row'[i] # None /\ row'[i].state = "expired"
                      /\ row'[i].expires = row[i].expires
      /\ \A i \in Interactions : i \notin I => row'[i] = row[i]
  BY <1>1, <1>2, <1>5, ClearedFacts
<1>7. TypeOK' /\ DeadlinesOrdered'
  <2>1. \A i \in Interactions : row'[i] # None => row[i] # None /\ row'[i].expires = row[i].expires
    BY <1>2, <1>6
  <2>2. /\ tombstones' \subseteq Interactions /\ subjectTombstones' \subseteq Subjects
        /\ events' \in [Interactions \cup Subjects -> Nat] /\ tail' \in Nat
        /\ sweeping' \in Nat \cup {None}
    BY <1>1 DEF TypeOK
  <2> QED
    BY <1>1, <1>6, <2>1, <2>2, ClearedCallers
<1>8. TombstonesHold'
  BY <1>1, <1>2, <1>6 DEF TombstonesHold
<1>9. AnnouncedOnce'
  BY <1>1 DEF AnnouncedOnce
<1>10. SummaryLast'
  BY <1>1, <1>2, <1>6 DEF SummaryLast
<1> QED
  BY <1>6, <1>7, <1>8, <1>9, <1>10, FitMeansNext

-----------------------------------------------------------------------------
(* The theorems *)

\* The empty stores satisfy the inductive invariant.
LEMMA InitIInv == StorageInit => IInv
<1> SUFFICES ASSUME StorageInit PROVE IInv
  OBVIOUS
<1>1. TypeOK
  BY DEF StorageInit, TypeOK
<1>2. TombstonesHold /\ DeadlinesOrdered /\ OneReplay /\ AnnouncedOnce
  BY DEF StorageInit, TombstonesHold, DeadlinesOrdered, OneReplay, AnnouncedOnce
<1>3. RefsResolve /\ NothingOutlives /\ SummaryLast
  BY DEF StorageInit, RefsResolve, NothingOutlives, SummaryLast
<1> QED
  BY <1>1, <1>2, <1>3 DEF IInv

\* Every step of every caller preserves it.
LEMMA NextIInv == IInv /\ [StorageNext]_storageVars => IInv'
<1> SUFFICES ASSUME IInv, [StorageNext]_storageVars PROVE IInv'
  OBVIOUS
<1>1. ASSUME NEW i \in Interactions, NEW k \in Keys, NEW print \in Prints,
             NEW since \in 0..clock, NEW done \in 0..clock,
             NEW fields \in SUBSET {"content", "replay"},
             SavePrepare(i, k, print, since, done, fields)
      PROVE  IInv'
  <2>1. since \in Nat /\ done \in Nat /\ done <= clock
    BY DEF IInv, TypeOK
  <2> QED
    BY <1>1, <2>1, PrepareStep
<1>2. ASSUME NEW i \in Interactions, LateWrite(i) \/ ShadowQueue(i) PROVE IInv'
  BY <1>2, SaveStep, WriteStep, CallerStep DEF LateWrite
<1>3. CASE Erase
  BY <1>3, DeleteStep, DeleteSubjectStep, SweepStep, CallerStep DEF Erase
<1>4. CASE Tick
  BY <1>4, CallerStep
<1>5. CASE UNCHANGED storageVars
  <2>1. TypeOK' /\ DeadlinesOrdered'
    BY <1>5 DEF IInv, storageVars, stored, callers, TypeOK, DeadlinesOrdered
  <2> QED
    BY <1>5, <2>1, QuietStep DEF storageVars
<1> QED
  BY <1>1, <1>2, <1>3, <1>4, <1>5 DEF StorageNext

\* The inductive invariant holds of every reachable state.
THEOREM Invariance == StorageSpec => []IInv
  BY InitIInv, NextIInv, PTL DEF StorageSpec

\* Every table and every caller's state stays well formed.
THEOREM TypeCorrect == StorageSpec => []TypeOK
<1>1. IInv => TypeOK
  BY DEF IInv
<1> QED
  BY <1>1, Invariance, PTL

\* What is erased has no active row, and only active rows have payloads.
LEMMA ErasedHolds == IInv => Erased
<1> SUFFICES ASSUME IInv, NEW i \in Interactions,
                    \/ i \in tombstones
                    \/ row[i] # None /\ row[i].state # "active"
                    \/ SubjectOf[i] \in subjectTombstones
             PROVE  /\ \A p \in payloads : p.interaction # i
                    /\ \A r \in refs : r[1] # i
                    /\ \A k \in Keys : replays[k] # None => replays[k].interaction # i
  BY DEF Erased
<1>1. row[i] = None \/ row[i].state # "active"
  BY DEF IInv, TombstonesHold
<1>2. \A p \in payloads : p.interaction # i
  BY <1>1 DEF IInv, NothingOutlives
<1>3. ASSUME NEW r \in refs PROVE r[1] # i
  <2>1. r[1] \in Interactions /\ r[2] \in Fields /\ <<r[1], r[2]>> \in refs
    BY DEF IInv, TypeOK
  <2> QED
    BY <1>2, <2>1 DEF IInv, RefsResolve
<1>4. \A k \in Keys : replays[k] # None => replays[k].interaction # i
  BY <1>2 DEF IInv, RefsResolve
<1> QED
  BY <1>2, <1>3, <1>4

\* However saves, shadows, feedback, sweeps and deletions interleave, nothing
\* is kept of an interaction that was erased.
THEOREM ErasedCorrect == StorageSpec => []Erased
  BY ErasedHolds, Invariance, PTL

\* References, replay entries and payloads always match.
THEOREM RefsCorrect == StorageSpec => []RefsResolve
<1>1. IInv => RefsResolve
  BY DEF IInv
<1> QED
  BY <1>1, Invariance, PTL

\* No payload outlives the retention of its interaction.
THEOREM RetentionCorrect == StorageSpec => []NothingOutlives
<1>1. IInv => NothingOutlives
  BY DEF IInv
<1> QED
  BY <1>1, Invariance, PTL

\* A subject's deletion summary follows all its interactions' deletion events.
THEOREM SummaryCorrect == StorageSpec => []SummaryLast
<1>1. IInv => SummaryLast
  BY DEF IInv
<1> QED
  BY <1>1, Invariance, PTL

-----------------------------------------------------------------------------
(* The gateway over the stores *)

\* A call holds its key from the reservation to the release, and a save carries
\* the request it was prepared for.
ReservationsHeld ==
    \A i \in Interactions :
        /\ reserved[i] <= clock
        /\ pc[i] = "idle" <=> request[i] = None
        /\ pc[i] \in InFlight => inflight[KeyOf(i)] = i
        /\ saving[i] # None =>
             /\ pc[i] \in {"saving", "cancelled", "abandoned"}
             /\ saving[i].key = KeyOf(i) /\ saving[i].print = PrintOf(i)
             /\ "replay" \in saving[i].fields => i \in answered

\* j produced a response to a request with key k and body print.
Produced(R, A, j, k, print) == j \in A /\ R[j] = [key |-> k, print |-> print]
Answers(j, k, print) == Produced(request, answered, j, k, print)

\* What is stored for replay, read by a lookup or returned answers the request
\* it is kept for.
RepliesMatch ==
    /\ \A k \in Keys : replays[k] # None => Answers(replays[k].interaction, k, replays[k].print)
    /\ \A i \in Interactions :
          /\ entry[i] # None <=> pc[i] = "found"
          /\ entry[i] # None => Answers(entry[i].interaction, KeyOf(i), PrintOf(i))
          /\ answer[i] # None =>
               request[i] # None /\ Answers(answer[i], KeyOf(i), PrintOf(i))

\* The replay entry of k is gone, over, left by an abandoned worker or j's.
Over(e, time, stages, j) ==
    \/ e = None
    \/ e.expires <= time
    \/ stages[e.interaction] = "abandoned"
    \/ e.interaction = j
Spent(k, j) == Over(replays[k], clock, pc, j)

\* A call executes only when there was nothing to replay, and nobody else can
\* store a replay for its key as long as it holds the reservation.
NothingToReplay ==
    \A i \in Interactions :
        /\ pc[i] \in {"running", "saving", "cancelled"} => Spent(KeyOf(i), i)
        /\ pc[i] = "found" => Spent(KeyOf(i), entry[i].interaction)

\* What the gateway knows of its calls.
CallsOK ==
    /\ pc \in [Interactions -> InFlight \cup {"idle", "done", "abandoned"}]
    /\ request \in [Interactions -> Requests \cup {None}]
    /\ inflight \in [Keys -> Interactions \cup {None}]
    /\ reserved \in [Interactions -> Nat]
    /\ entry \in [Interactions -> Replays \cup {None}]
    /\ answered \subseteq Interactions
    /\ answer \in [Interactions -> Interactions \cup {None}]

Calls == CallsOK /\ ReservationsHeld /\ RepliesMatch /\ NothingToReplay

\* The inductive invariant of the gateway, on top of the stores' own.
GatewayInv == IInv /\ Calls

\* A call in flight has a request.
LEMMA RequestType ==
    ASSUME GatewayInv, NEW i \in Interactions, pc[i] # "idle"
    PROVE  request[i] \in Requests /\ KeyOf(i) \in Keys /\ PrintOf(i) \in Prints
           /\ request[i] = [key |-> KeyOf(i), print |-> PrintOf(i)]
<1>1. request[i] \in Requests
  BY DEF GatewayInv, Calls, CallsOK, ReservationsHeld
<1> QED
  BY <1>1 DEF Requests, KeyOf, PrintOf

\* One call in flight moves to stage, with what it has read (e) and returns (a);
\* the stores' replays, the saves and the other calls stay as they are.
LEMMA CallKept ==
    ASSUME GatewayInv, NEW i \in Interactions, pc[i] \in InFlight,
           UNCHANGED <<clock, replays, saving, request, reserved, answered>>,
           NEW stage \in InFlight \cup {"done", "abandoned"},
           NEW e \in Replays \cup {None}, NEW a \in Interactions \cup {None},
           pc' = [pc EXCEPT ![i] = stage],
           entry' = [entry EXCEPT ![i] = e],
           answer' = [answer EXCEPT ![i] = a],
           inflight' = IF stage \in InFlight THEN inflight
                       ELSE [inflight EXCEPT ![KeyOf(i)] = None],
           saving[i] # None => stage \in {"saving", "cancelled", "abandoned"},
           e # None <=> stage = "found",
           e # None => Answers(e.interaction, KeyOf(i), PrintOf(i)),
           a # None => Answers(a, KeyOf(i), PrintOf(i)),
           stage \in {"running", "saving", "cancelled"} => Spent(KeyOf(i), i),
           stage = "found" => Spent(KeyOf(i), e.interaction)
    PROVE  Calls'
<1> USE DEF GatewayInv, Calls
<1>0. "idle" \notin InFlight /\ "done" \notin InFlight /\ "abandoned" \notin InFlight
  BY DEF InFlight
<1>1. KeyOf(i) \in Keys /\ request[i] \in Requests
  BY <1>0, RequestType
<1>2. CallsOK'
  BY <1>1 DEF CallsOK
<1>3. \A j : KeyOf(j)' = KeyOf(j) /\ PrintOf(j)' = PrintOf(j)
  BY DEF KeyOf, PrintOf
<1>4. \A j \in Interactions : j # i => pc'[j] = pc[j] /\ entry'[j] = entry[j] /\ answer'[j] = answer[j]
  BY DEF CallsOK
<1>5. pc'[i] = stage /\ entry'[i] = e /\ answer'[i] = a
  BY DEF CallsOK
<1>7. ASSUME NEW k \in Keys, NEW j, Over(replays[k], clock, pc, j)
      PROVE  Over(replays[k], clock, pc', j)
  <2>1. ASSUME replays[k] # None, pc[replays[k].interaction] = "abandoned"
        PROVE  pc'[replays[k].interaction] = "abandoned"
    <3>1. replays[k].interaction \in Interactions
      BY <2>1 DEF IInv, TypeOK, Replays
    <3> QED
      BY <1>0, <1>4, <2>1, <3>1
  <2> QED
    BY <1>7, <2>1 DEF Over
<1>8. ReservationsHeld'
  <2> SUFFICES ASSUME NEW j \in Interactions
               PROVE  /\ reserved[j] <= clock
                      /\ pc'[j] = "idle" <=> request[j] = None
                      /\ pc'[j] \in InFlight => inflight'[KeyOf(j)] = j
                      /\ saving[j] # None =>
                           /\ pc'[j] \in {"saving", "cancelled", "abandoned"}
                           /\ saving[j].key = KeyOf(j) /\ saving[j].print = PrintOf(j)
                           /\ "replay" \in saving[j].fields => j \in answered
    BY <1>3 DEF ReservationsHeld
  <2>1. CASE j = i
    BY <1>0, <1>5, <2>1 DEF ReservationsHeld
  <2>2. CASE j # i
    <3>1. pc[j] \in InFlight => inflight'[KeyOf(j)] = j
      BY <1>0, <1>1, <2>2, RequestType DEF ReservationsHeld, CallsOK
    <3> QED
      BY <1>4, <2>2, <3>1 DEF ReservationsHeld
  <2> QED
    BY <2>1, <2>2
<1>9. RepliesMatch'
  <2>1. ASSUME NEW j \in Interactions
        PROVE  /\ entry'[j] # None <=> pc'[j] = "found"
               /\ entry'[j] # None =>
                    Produced(request, answered, entry'[j].interaction, KeyOf(j), PrintOf(j))
               /\ answer'[j] # None =>
                    request[j] # None
                    /\ Produced(request, answered, answer'[j], KeyOf(j), PrintOf(j))
    <3>1. CASE j = i
      BY <1>1, <1>5, <3>1, RequestAssumption DEF Answers
    <3>2. CASE j # i
      BY <1>4, <3>2 DEF RepliesMatch, Answers
    <3> QED
      BY <3>1, <3>2
  <2> QED
    BY <1>3, <2>1 DEF RepliesMatch, Answers
<1>10. NothingToReplay'
  <2>1. ASSUME NEW j \in Interactions
        PROVE  /\ pc'[j] \in {"running", "saving", "cancelled"} =>
                    Over(replays[KeyOf(j)], clock, pc', j)
               /\ pc'[j] = "found" => Over(replays[KeyOf(j)], clock, pc', entry'[j].interaction)
    <3>1. CASE j = i
      BY <1>1, <1>5, <1>7, <3>1 DEF Spent
    <3>2. CASE j # i /\ pc[j] \in InFlight
      <4>1. KeyOf(j) \in Keys
        BY <1>0, <3>2, RequestType
      <4> QED
        BY <1>4, <1>7, <3>2, <4>1 DEF NothingToReplay, Spent
    <3>3. CASE j # i /\ pc[j] \notin InFlight
      BY <1>4, <3>3 DEF InFlight
    <3> QED
      BY <3>1, <3>2, <3>3
  <2> QED
    BY <1>3, <2>1 DEF NothingToReplay, Spent
<1> QED
  BY <1>2, <1>8, <1>9, <1>10

-----------------------------------------------------------------------------
(* What the worker threads, erasure and time do to the calls *)

\* The save of i puts its replay under k.
Stores(i, k) ==
    /\ saving[i] # None /\ "replay" \in saving[i].fields /\ saving[i].key = k
    /\ replays'[k].interaction = i /\ replays'[k].print = saving[i].print

\* Saves end, replays leave, and only a save adds one.
StoreEffect ==
    /\ clock <= clock'
    /\ \A i \in Interactions : saving'[i] \in {saving[i], None}
    /\ \A k \in Keys : replays'[k] \in {None, replays[k]} \/ \E i \in Interactions : Stores(i, k)

LEMMA StoreEffects ==
    ASSUME IInv, (\E i \in Interactions : LateWrite(i)) \/ Erase \/ Tick
    PROVE  StoreEffect
<1>1. clock <= clock'
  <2>1. clock' = clock \/ clock' = clock + 1
    BY DEF LateWrite, SaveCommit, SaveFail, ShadowPrepare, ShadowCommit, ShadowDrop, Feedback,
           Erase, Delete, DeleteSubject, SweepStart, SweepRun, Tick
  <2> QED
    BY <2>1 DEF IInv, TypeOK
<1>2. ASSUME NEW j \in Interactions PROVE saving'[j] \in {saving[j], None}
  BY DEF LateWrite, SaveCommit, SaveFail, ShadowPrepare, ShadowCommit, ShadowDrop, Feedback, Erase,
         Delete, DeleteSubject, SweepStart, SweepRun, Tick, IInv, TypeOK
<1>3. ASSUME NEW k \in Keys
      PROVE  replays'[k] \in {None, replays[k]} \/ \E i \in Interactions : Stores(i, k)
  <2>1. ASSUME NEW i \in Interactions, SaveCommit(i)
        PROVE  replays'[k] \in {None, replays[k]} \/ Stores(i, k)
    <3> DEFINE c == saving[i]
               item == [interaction |-> i, print |-> c.print, reserved |-> c.reserved,
                        expires |-> c.replayExpires]
               entries == [replays EXCEPT ![c.key] = item]
    <3>1. c \in Saves /\ c # None
      BY <2>1 DEF SaveCommit, IInv, TypeOK
    <3>2. CASE "replay" \in c.fields
      <4>1. replays'[k] = IF k \in Evicted(entries) THEN None ELSE entries[k]
        BY <2>1, <3>2 DEF SaveCommit, Without
      <4>2. entries[k] = IF k = c.key THEN item ELSE replays[k]
        BY DEF IInv, TypeOK
      <4>3. item.interaction = i /\ item.print = c.print
        OBVIOUS
      <4> HIDE DEF entries, item
      <4> QED
        BY <3>1, <3>2, <4>1, <4>2, <4>3 DEF Stores
    <3>3. CASE "replay" \notin c.fields
      BY <2>1, <3>3 DEF SaveCommit
    <3> QED
      BY <3>2, <3>3
  <2>2. ASSUME NEW I, NEW state, NEW rs, NEW ps, Cleared(I, state, rs, ps),
               rs[k] \in {None, replays[k]}
        PROVE  replays'[k] \in {None, replays[k]}
    BY <2>2 DEF Cleared
  <2>3. CASE SweepRun
    BY <2>2, <2>3 DEF SweepRun
  <2>4. CASE \/ \E i \in Interactions : Delete(i)
             \/ \E x \in Subjects : DeleteSubject(x)
    BY <2>2, <2>4 DEF Delete, DeleteSubject
  <2>5. CASE UNCHANGED replays
    BY <2>5
  <2> QED
    BY <2>1, <2>3, <2>4, <2>5 DEF LateWrite, SaveFail, ShadowPrepare, ShadowCommit, ShadowDrop,
       Feedback, Erase, SweepStart, Tick, stored
<1> QED
  BY <1>1, <1>2, <1>3 DEF StoreEffect

\* Only the call that holds the key, or an abandoned one, can put a replay
\* there, so what running calls rely on is not disturbed.
LEMMA StoreKept ==
    ASSUME GatewayInv, IInv', UNCHANGED gatewayVars, StoreEffect
    PROVE  Calls'
<1> USE DEF GatewayInv, Calls
<1>1. UNCHANGED <<pc, request, inflight, reserved, entry, answered, answer>>
  BY DEF gatewayVars
<1>2. CallsOK'
  BY <1>1 DEF CallsOK
<1>3. \A j : KeyOf(j)' = KeyOf(j) /\ PrintOf(j)' = PrintOf(j)
  BY <1>1 DEF KeyOf, PrintOf
<1>4. clock \in Nat /\ clock' \in Nat /\ clock <= clock'
  BY DEF IInv, TypeOK, StoreEffect
<1>5. ReservationsHeld'
  <2>1. ASSUME NEW i \in Interactions
        PROVE  reserved[i] <= clock' /\ (saving'[i] # None => saving'[i] = saving[i])
    <3>1. reserved[i] \in Nat /\ reserved[i] <= clock
      BY DEF CallsOK, ReservationsHeld
    <3> QED
      BY <1>4, <3>1 DEF StoreEffect
  <2> QED
    BY <1>1, <1>3, <2>1 DEF ReservationsHeld
<1>6. ASSUME NEW k \in Keys, NEW i \in Interactions, Stores(i, k)
      PROVE  /\ pc[i] \in {"saving", "cancelled", "abandoned"} /\ k = KeyOf(i)
             /\ Produced(request, answered, replays'[k].interaction, k, replays'[k].print)
  <2>1. /\ pc[i] \in {"saving", "cancelled", "abandoned"} /\ k = KeyOf(i) /\ i \in answered
        /\ replays'[k].interaction = i /\ replays'[k].print = PrintOf(i)
    BY <1>6 DEF Stores, ReservationsHeld
  <2>2. request[i] = [key |-> KeyOf(i), print |-> PrintOf(i)]
    BY <2>1, RequestType
  <2> QED
    BY <2>1, <2>2 DEF Produced
<1>7. RepliesMatch'
  <2>1. ASSUME NEW k \in Keys, replays'[k] # None
        PROVE  Produced(request, answered, replays'[k].interaction, k, replays'[k].print)
    <3>1. CASE replays'[k] = replays[k]
      BY <2>1, <3>1 DEF RepliesMatch, Answers
    <3> QED
      BY <1>6, <2>1, <3>1 DEF StoreEffect
  <2> QED
    BY <1>1, <1>3, <2>1 DEF RepliesMatch, Answers
<1>8. ASSUME NEW i \in Interactions, pc[i] \in InFlight, NEW j,
             pc[i] \in {"saving", "cancelled"} => j = i,
             Over(replays[KeyOf(i)], clock, pc, j)
      PROVE  Over(replays'[KeyOf(i)], clock', pc, j)
  <2> DEFINE k == KeyOf(i)
  <2>1. k \in Keys
    BY <1>8, RequestType DEF InFlight
  <2>2. CASE replays'[k] = None
    BY <2>2 DEF Over
  <2>3. CASE replays'[k] = replays[k] /\ replays[k] # None
    <3>1. replays[k].expires \in Nat
      BY <2>1, <2>3 DEF IInv, TypeOK, Replays
    <3> QED
      BY <1>4, <1>8, <2>3, <3>1 DEF Over
  <2>4. ASSUME NEW x \in Interactions, Stores(x, k) PROVE Over(replays'[k], clock', pc, j)
    <3>1. pc[x] \in {"saving", "cancelled", "abandoned"} /\ k = KeyOf(x)
      BY <1>6, <2>1, <2>4
    <3>2. replays'[k].interaction = x
      BY <2>4 DEF Stores
    <3>3. CASE pc[x] = "abandoned"
      BY <3>2, <3>3 DEF Over
    <3>4. CASE pc[x] # "abandoned"
      <4>1. x = i
        BY <1>8, <3>1, <3>4 DEF ReservationsHeld, InFlight
      <4> QED
        BY <1>8, <3>1, <3>2, <3>4, <4>1 DEF Over
    <3> QED
      BY <3>3, <3>4
  <2> QED
    BY <2>1, <2>2, <2>3, <2>4 DEF StoreEffect
<1>9. NothingToReplay'
  <2>1. ASSUME NEW j \in Interactions
        PROVE  /\ pc[j] \in {"running", "saving", "cancelled"} =>
                    Over(replays'[KeyOf(j)], clock', pc, j)
               /\ pc[j] = "found" => Over(replays'[KeyOf(j)], clock', pc, entry[j].interaction)
    <3>1. CASE pc[j] \in {"running", "saving", "cancelled"}
      BY <1>8, <3>1 DEF InFlight, NothingToReplay, Spent
    <3>2. CASE pc[j] = "found"
      BY <1>8, <3>2 DEF InFlight, NothingToReplay, Spent
    <3> QED
      BY <3>1, <3>2
  <2> QED
    BY <1>1, <1>3, <2>1 DEF NothingToReplay, Spent
<1> QED
  BY <1>2, <1>5, <1>7, <1>9

-----------------------------------------------------------------------------
(* The steps of a call *)

\* A call whose save is over releases its key and returns a, or raises.
LEMMA ReleaseKept ==
    ASSUME GatewayInv, NEW i \in Interactions, pc[i] \in InFlight, saving[i] = None, Release(i),
           UNCHANGED <<clock, replays, saving, request, reserved, answered>>,
           entry' = [entry EXCEPT ![i] = None],
           NEW a \in Interactions \cup {None}, answer' = [answer EXCEPT ![i] = a],
           a # None => Answers(a, KeyOf(i), PrintOf(i))
    PROVE  Calls'
<1>1. /\ "done" \notin InFlight /\ "done" \in InFlight \cup {"done", "abandoned"}
      /\ "done" \notin {"running", "saving", "cancelled", "found"}
      /\ None \in Replays \cup {None}
  BY DEF InFlight
<1>2. /\ pc' = [pc EXCEPT ![i] = "done"]
      /\ inflight' = IF "done" \in InFlight THEN inflight ELSE [inflight EXCEPT ![KeyOf(i)] = None]
  BY <1>1 DEF Release
<1> QED
  BY <1>1, <1>2, CallKept

\* What a call has returned before it ends: nothing wrong, and nothing changes.
LEMMA AnswerKept ==
    ASSUME GatewayInv, NEW i \in Interactions
    PROVE  /\ answer = [answer EXCEPT ![i] = answer[i]]
           /\ answer[i] \in Interactions \cup {None}
           /\ answer[i] # None => Answers(answer[i], KeyOf(i), PrintOf(i))
           /\ pc[i] # "found" => entry[i] = None /\ entry = [entry EXCEPT ![i] = None]
           /\ pc[i] \notin {"saving", "cancelled", "abandoned"} => saving[i] = None
<1>1. /\ entry \in [Interactions -> Replays \cup {None}]
      /\ answer \in [Interactions -> Interactions \cup {None}]
      /\ answer[i] # None => Answers(answer[i], KeyOf(i), PrintOf(i))
      /\ pc[i] # "found" => entry[i] = None
      /\ pc[i] \notin {"saving", "cancelled", "abandoned"} => saving[i] = None
  BY DEF GatewayInv, Calls, CallsOK, RepliesMatch, ReservationsHeld
<1> QED
  BY <1>1

\* The lookup reads an entry, which answers the request if the body matches.
LEMMA FindEntryStep ==
    ASSUME GatewayInv, NEW i \in Interactions, FindEntry(i)
    PROVE  Calls'
<1> DEFINE e == replays[KeyOf(i)]
<1>1. pc[i] = "looking" /\ "looking" \in InFlight /\ KeyOf(i) \in Keys
  BY RequestType DEF FindEntry, InFlight
<1>2. /\ entry \in [Interactions -> Replays \cup {None}] /\ entry[i] = None
      /\ answer \in [Interactions -> Interactions \cup {None}]
      /\ answer[i] # None => Answers(answer[i], KeyOf(i), PrintOf(i))
      /\ saving[i] = None
      /\ e \in Replays \cup {None}
  BY <1>1 DEF GatewayInv, Calls, CallsOK, RepliesMatch, ReservationsHeld, IInv, TypeOK
<1>3. entry = [entry EXCEPT ![i] = None] /\ answer = [answer EXCEPT ![i] = answer[i]]
      /\ answer[i] \in Interactions \cup {None} /\ None \in Replays \cup {None}
  BY <1>2
<1>4. UNCHANGED <<clock, replays, saving, request, reserved, answered, answer>>
  BY DEF FindEntry, storageVars, stored, callers
<1>5. CASE e = None \/ e.expires <= clock
  <2>1. pc' = [pc EXCEPT ![i] = "running"] /\ UNCHANGED <<inflight, entry>>
    BY <1>5 DEF FindEntry
  <2>2. Spent(KeyOf(i), i)
    BY <1>5 DEF Spent, Over
  <2>3. "running" \in InFlight
    BY DEF InFlight
  <2> QED
    BY <1>1, <1>2, <1>3, <1>4, <2>1, <2>2, <2>3, CallKept
<1>6. CASE ~(e = None \/ e.expires <= clock) /\ e.print # PrintOf(i)
  <2>1. Release(i) /\ UNCHANGED entry
    BY <1>6 DEF FindEntry
  <2> QED
    BY <1>1, <1>2, <1>3, <1>4, <2>1, ReleaseKept
<1>7. CASE ~(e = None \/ e.expires <= clock) /\ e.print = PrintOf(i)
  <2>1. /\ pc' = [pc EXCEPT ![i] = "found"]
        /\ entry' = [entry EXCEPT ![i] = e]
        /\ UNCHANGED inflight
    BY <1>7 DEF FindEntry
  <2>2. Answers(e.interaction, KeyOf(i), PrintOf(i))
    BY <1>1, <1>7 DEF GatewayInv, Calls, RepliesMatch
  <2>3. Spent(KeyOf(i), e.interaction) /\ "found" \in InFlight /\ e # None
    BY <1>7 DEF Spent, Over, InFlight
  <2> QED
    BY <1>1, <1>2, <1>3, <1>4, <2>1, <2>2, <2>3, CallKept
<1> QED
  BY <1>5, <1>6, <1>7

\* The lookup reads the payload.  Without one the entry is gone or over, for a
\* live entry has its payload (RefsResolve).
LEMMA FindPayloadStep ==
    ASSUME GatewayInv, NEW i \in Interactions, FindPayload(i)
    PROVE  Calls'
<1> DEFINE e == entry[i]
<1>1. pc[i] = "found" /\ "found" \in InFlight /\ KeyOf(i) \in Keys
  BY RequestType DEF FindPayload, InFlight
<1>2. e # None /\ e \in Replays /\ Answers(e.interaction, KeyOf(i), PrintOf(i)) /\ saving[i] = None
  BY <1>1 DEF GatewayInv, Calls, CallsOK, RepliesMatch, ReservationsHeld
<1>3. UNCHANGED <<clock, replays, saving, request, reserved, answered>>
      /\ entry' = [entry EXCEPT ![i] = None]
  BY DEF FindPayload, storageVars, stored, callers
<1>4. CASE Readable(e)
  <2>1. Release(i) /\ answer' = [answer EXCEPT ![i] = e.interaction]
    BY <1>4 DEF FindPayload
  <2>2. e.interaction \in Interactions \cup {None}
    BY <1>2 DEF Replays
  <2> QED
    BY <1>1, <1>2, <1>3, <2>1, <2>2, ReleaseKept
<1>5. CASE ~Readable(e)
  <2>1. pc' = [pc EXCEPT ![i] = "running"] /\ UNCHANGED <<inflight, answer>>
    BY <1>5 DEF FindPayload
  <2>2. Spent(KeyOf(i), i)
    <3> DEFINE k == KeyOf(i)
               r == replays[k]
    <3> SUFFICES ASSUME r # None, r.interaction = e.interaction PROVE r.expires <= clock
      BY <1>1 DEF GatewayInv, Calls, NothingToReplay, Spent, Over
    <3>1. r \in Replays /\ r.expires \in Nat /\ clock \in Nat
      BY <1>1 DEF GatewayInv, IInv, TypeOK, Replays
    <3>2. PICK p \in payloads : p.interaction = r.interaction /\ p.field = "replay"
                                /\ p.expires = r.expires
      BY <1>1 DEF GatewayInv, IInv, RefsResolve
    <3>3. ~(p.expires > clock)
      BY <1>5, <3>2 DEF Readable
    <3> QED
      BY <3>1, <3>2, <3>3
  <2>3. "running" \in InFlight /\ None \in Replays \cup {None}
    BY DEF InFlight
  <2> QED
    <3> DEFINE a == answer[i]
    <3>1. /\ answer' = [answer EXCEPT ![i] = a] /\ a \in Interactions \cup {None}
          /\ a # None => Answers(a, KeyOf(i), PrintOf(i))
          /\ inflight' = IF "running" \in InFlight THEN inflight
                         ELSE [inflight EXCEPT ![KeyOf(i)] = None]
      BY <2>1, <2>3, AnswerKept
    <3> HIDE DEF a
    <3> QED
      BY <1>1, <1>2, <1>3, <2>1, <2>2, <2>3, <3>1, CallKept
<1> QED
  BY <1>4, <1>5

\* _execute is refused, and a lookup is cancelled.
LEMMA GiveUpStep ==
    ASSUME GatewayInv, NEW i \in Interactions, Refuse(i) \/ CancelLookup(i)
    PROVE  Calls'
<1>1. pc[i] \in InFlight /\ saving[i] = None /\ Release(i)
  BY AnswerKept DEF Refuse, CancelLookup, InFlight
<1>2. /\ UNCHANGED <<clock, replays, saving, request, reserved, answered, answer>>
      /\ entry' = [entry EXCEPT ![i] = None]
  BY AnswerKept DEF Refuse, CancelLookup, storageVars, stored, callers
<1> QED
  BY <1>1, <1>2, AnswerKept, ReleaseKept

\* The await on the save returns.
LEMMA SaveReturnStep ==
    ASSUME GatewayInv, NEW i \in Interactions, NEW shadowed \in BOOLEAN, SaveReturn(i, shadowed)
    PROVE  Calls'
<1>1. pc[i] \in InFlight /\ saving[i] = None /\ Release(i) /\ pc[i] # "found" /\ pc[i] # "idle"
  BY DEF SaveReturn, InFlight
<1>2. /\ UNCHANGED <<clock, replays, saving, request, reserved, answered>>
      /\ entry' = [entry EXCEPT ![i] = None]
  BY <1>1, AnswerKept DEF SaveReturn, ShadowQueue, storageVars, stored, callers
<1>3. CASE pc[i] = "saving" /\ i \in answered
  <2>1. answer' = [answer EXCEPT ![i] = i]
    BY <1>3 DEF SaveReturn
  <2>2. Answers(i, KeyOf(i), PrintOf(i))
    BY <1>1, <1>3, RequestType DEF Answers, Produced
  <2> QED
    BY <1>1, <1>2, <2>1, <2>2, ReleaseKept
<1>4. CASE ~(pc[i] = "saving" /\ i \in answered)
  <2>1. answer' = answer
    BY <1>4 DEF SaveReturn
  <2> QED
    BY <1>1, <1>2, <2>1, AnswerKept, ReleaseKept
<1> QED
  BY <1>3, <1>4

\* A call is cancelled while it is saved, once and again.
LEMMA CancelStep ==
    ASSUME GatewayInv, NEW i \in Interactions, CancelSave(i) \/ CancelAgain(i)
    PROVE  Calls'
<1>1. pc[i] \in {"saving", "cancelled"} /\ pc[i] \in InFlight /\ pc[i] # "found"
  BY DEF CancelSave, CancelAgain, InFlight
<1>2. UNCHANGED <<clock, replays, saving, request, reserved, answered, entry, answer>>
  BY DEF CancelSave, CancelAgain, storageVars, stored, callers
<1>3. None \in Replays \cup {None} /\ Spent(KeyOf(i), i)
  BY <1>1 DEF GatewayInv, Calls, NothingToReplay
<1>4. CASE CancelSave(i)
  <2>1. pc' = [pc EXCEPT ![i] = "cancelled"] /\ inflight' = inflight /\ "cancelled" \in InFlight
    BY <1>4 DEF CancelSave, InFlight
  <2> QED
    BY <1>1, <1>2, <1>3, <2>1, AnswerKept, CallKept
<1>5. CASE CancelAgain(i)
  <2>1. /\ pc' = [pc EXCEPT ![i] = "abandoned"] /\ "abandoned" \notin InFlight
        /\ inflight' = [inflight EXCEPT ![KeyOf(i)] = None]
    BY <1>5 DEF CancelAgain, InFlight
  <2> QED
    BY <1>1, <1>2, <1>3, <2>1, AnswerKept, CallKept
<1> QED
  BY <1>4, <1>5

\* infer reserves a free key for a call that has no request yet.
LEMMA ReserveStep ==
    ASSUME GatewayInv, NEW i \in Interactions, NEW k \in Keys, NEW print \in Prints,
           Reserve(i, k, print)
    PROVE  Calls'
<1> USE DEF GatewayInv, Calls
<1> DEFINE q == [key |-> k, print |-> print]
<1>1. /\ pc[i] = "idle" /\ request[i] = None /\ entry[i] = None /\ answer[i] = None
      /\ saving[i] = None /\ inflight[k] = None
  BY AnswerKept DEF Reserve, ReservationsHeld, RepliesMatch
<1>2. q \in Requests /\ q # None /\ q.key = k
  BY RequestAssumption DEF Requests
<1>3. /\ request' = [request EXCEPT ![i] = q] /\ inflight' = [inflight EXCEPT ![k] = i]
      /\ reserved' = [reserved EXCEPT ![i] = clock] /\ pc' = [pc EXCEPT ![i] = "looking"]
      /\ UNCHANGED <<clock, replays, saving, entry, answered, answer>>
  BY DEF Reserve, storageVars, stored, callers
<1> HIDE DEF q
<1>4. clock \in Nat
  BY DEF IInv, TypeOK
<1>5. CallsOK'
  BY <1>2, <1>3, <1>4 DEF CallsOK, InFlight
<1>6. /\ request'[i] = q /\ inflight'[k] = i /\ reserved'[i] = clock /\ pc'[i] = "looking"
      /\ \A j \in Interactions : j # i =>
           request'[j] = request[j] /\ reserved'[j] = reserved[j] /\ pc'[j] = pc[j]
      /\ \A m \in Keys : m # k => inflight'[m] = inflight[m]
  BY <1>3 DEF CallsOK
<1>7. /\ KeyOf(i)' = k
      /\ \A j \in Interactions : j # i => KeyOf(j)' = KeyOf(j) /\ PrintOf(j)' = PrintOf(j)
  BY <1>2, <1>6 DEF KeyOf, PrintOf
<1>8. ReservationsHeld'
  <2>1. ASSUME NEW j \in Interactions, j # i, pc[j] \in InFlight
        PROVE  inflight'[KeyOf(j)] = j
    <3>1. KeyOf(j) \in Keys /\ inflight[KeyOf(j)] = j
      BY <2>1, RequestType DEF ReservationsHeld, InFlight
    <3>2. KeyOf(j) # k
      BY <1>1, <3>1, PersistenceAssumption
    <3> QED
      BY <1>6, <3>1, <3>2
  <2>2. ASSUME NEW j \in Interactions
        PROVE  /\ reserved'[j] <= clock
               /\ pc'[j] = "idle" <=> request'[j] = None
               /\ pc'[j] \in InFlight => inflight'[KeyOf(j)'] = j
               /\ saving[j] # None =>
                    /\ pc'[j] \in {"saving", "cancelled", "abandoned"}
                    /\ saving[j].key = KeyOf(j)' /\ saving[j].print = PrintOf(j)'
                    /\ "replay" \in saving[j].fields => j \in answered
    <3>1. CASE j = i
      BY <1>1, <1>2, <1>4, <1>6, <1>7, <3>1
    <3>2. CASE j # i
      BY <1>6, <1>7, <2>1, <3>2 DEF ReservationsHeld
    <3> QED
      BY <3>1, <3>2
  <2> QED
    BY <1>3, <2>2 DEF ReservationsHeld
<1>9. ASSUME NEW j, NEW m \in Keys, NEW p \in Prints, Produced(request, answered, j, m, p)
      PROVE  Produced(request', answered, j, m, p)
  <2>1. j \in Interactions /\ j # i
    <3>1. j \in answered /\ request[j] = [key |-> m, print |-> p]
      BY <1>9 DEF Produced
    <3>2. [key |-> m, print |-> p] \in Requests
      BY DEF Requests
    <3> QED
      BY <1>1, <3>1, <3>2, RequestAssumption DEF CallsOK
  <2> QED
    BY <1>6, <1>9, <2>1 DEF Produced
<1>10. RepliesMatch'
  <2>1. \A m \in Keys : replays[m] # None =>
            Produced(request', answered, replays[m].interaction, m, replays[m].print)
    BY <1>9 DEF RepliesMatch, Answers, IInv, TypeOK, Replays
  <2>2. ASSUME NEW j \in Interactions
        PROVE  /\ entry[j] # None <=> pc'[j] = "found"
               /\ entry[j] # None =>
                    Produced(request', answered, entry[j].interaction, KeyOf(j)', PrintOf(j)')
               /\ answer[j] # None =>
                    /\ request'[j] # None
                    /\ Produced(request', answered, answer[j], KeyOf(j)', PrintOf(j)')
    <3>1. CASE j = i
      BY <1>1, <1>6, <3>1
    <3>2. CASE j # i
      <4>1. entry[j] # None \/ answer[j] # None => KeyOf(j) \in Keys /\ PrintOf(j) \in Prints
        BY RequestType DEF RepliesMatch, ReservationsHeld
      <4> QED
        BY <1>6, <1>7, <1>9, <3>2, <4>1 DEF RepliesMatch, Answers
    <3> QED
      BY <3>1, <3>2
  <2> QED
    BY <1>3, <2>1, <2>2 DEF RepliesMatch, Answers
<1>11. NothingToReplay'
  <2>1. ASSUME NEW j \in Interactions, j # i, NEW x, pc[j] \in InFlight,
               Over(replays[KeyOf(j)], clock, pc, x)
        PROVE  Over(replays[KeyOf(j)], clock, pc', x)
    <3>1. KeyOf(j) \in Keys
      BY <2>1, RequestType DEF InFlight
    <3>2. ASSUME replays[KeyOf(j)] # None, pc[replays[KeyOf(j)].interaction] = "abandoned"
          PROVE  pc'[replays[KeyOf(j)].interaction] = "abandoned"
      <4>1. replays[KeyOf(j)].interaction \in Interactions
        BY <3>1, <3>2 DEF IInv, TypeOK, Replays
      <4> QED
        BY <1>1, <1>6, <3>2, <4>1
    <3> QED
      BY <2>1, <3>2 DEF Over
  <2>2. ASSUME NEW j \in Interactions
        PROVE  /\ pc'[j] \in {"running", "saving", "cancelled"} =>
                    Over(replays[KeyOf(j)'], clock, pc', j)
               /\ pc'[j] = "found" => Over(replays[KeyOf(j)'], clock, pc', entry[j].interaction)
    <3>1. CASE j = i
      BY <1>6, <3>1
    <3>2. CASE j # i
      BY <1>6, <1>7, <2>1, <3>2 DEF NothingToReplay, Spent, InFlight
    <3> QED
      BY <3>1, <3>2
  <2> QED
    BY <1>3, <2>2 DEF NothingToReplay, Spent
<1> QED
  BY <1>5, <1>8, <1>10, <1>11

\* The chain ends and the save is handed to a worker with the call's request.
LEMMA FinishStep ==
    ASSUME GatewayInv, NEW i \in Interactions, NEW ok \in BOOLEAN,
           NEW fields \in SUBSET {"content", "replay"}, Finish(i, ok, fields)
    PROVE  Calls'
<1> USE DEF GatewayInv, Calls
<1> DEFINE s == [key |-> KeyOf(i), print |-> PrintOf(i), reserved |-> reserved[i],
                 expires |-> clock + Retention,
                 replayExpires |-> Lesser(clock + Retention, clock + ReplayTTL),
                 fields |-> fields]
<1>1. /\ pc[i] = "running" /\ pc[i] \in InFlight /\ pc[i] # "idle"
      /\ saving' = [saving EXCEPT ![i] = s]
      /\ answered' = IF ok THEN answered \cup {i} ELSE answered
      /\ pc' = [pc EXCEPT ![i] = "saving"] /\ "saving" \in InFlight
      /\ UNCHANGED <<clock, replays, request, inflight, reserved, entry, answer>>
      /\ "replay" \in fields => ok
  BY DEF Finish, SavePrepare, InFlight, stored
<1>2. s.key = KeyOf(i) /\ s.print = PrintOf(i) /\ s.fields = fields
  OBVIOUS
<1> HIDE DEF s
<1>3. /\ pc'[i] = "saving" /\ saving'[i] = s
      /\ \A j \in Interactions : j # i => pc'[j] = pc[j] /\ saving'[j] = saving[j]
      /\ answered \subseteq answered' /\ ("replay" \in fields => i \in answered')
  BY <1>1 DEF CallsOK, IInv, TypeOK
<1>4. \A j : KeyOf(j)' = KeyOf(j) /\ PrintOf(j)' = PrintOf(j)
  BY <1>1 DEF KeyOf, PrintOf
<1>5. CallsOK'
  BY <1>1 DEF CallsOK
<1>6. ReservationsHeld'
  <2>1. ASSUME NEW j \in Interactions
        PROVE  /\ reserved[j] <= clock
               /\ pc'[j] = "idle" <=> request[j] = None
               /\ pc'[j] \in InFlight => inflight[KeyOf(j)] = j
               /\ saving'[j] # None =>
                    /\ pc'[j] \in {"saving", "cancelled", "abandoned"}
                    /\ saving'[j].key = KeyOf(j) /\ saving'[j].print = PrintOf(j)
                    /\ "replay" \in saving'[j].fields => j \in answered'
    <3>1. CASE j = i
      BY <1>1, <1>2, <1>3, <3>1 DEF ReservationsHeld
    <3>2. CASE j # i
      BY <1>3, <3>2 DEF ReservationsHeld
    <3> QED
      BY <3>1, <3>2
  <2> QED
    BY <1>1, <1>4, <2>1 DEF ReservationsHeld
<1>7. RepliesMatch'
  <2>1. \A j, m, p : Produced(request, answered, j, m, p) => Produced(request, answered', j, m, p)
    BY <1>3 DEF Produced
  <2>2. ASSUME NEW j \in Interactions
        PROVE  /\ entry[j] # None <=> pc'[j] = "found"
               /\ entry[j] # None =>
                    Produced(request, answered', entry[j].interaction, KeyOf(j), PrintOf(j))
               /\ answer[j] # None =>
                    /\ request[j] # None
                    /\ Produced(request, answered', answer[j], KeyOf(j), PrintOf(j))
    BY <1>1, <1>3, <2>1 DEF RepliesMatch, Answers
  <2>3. \A m \in Keys : replays[m] # None =>
            Produced(request, answered', replays[m].interaction, m, replays[m].print)
    BY <2>1 DEF RepliesMatch, Answers
  <2> QED
    BY <1>1, <1>4, <2>2, <2>3 DEF RepliesMatch, Answers
<1>8. NothingToReplay'
  <2>1. ASSUME NEW j \in Interactions, NEW x, pc[j] \in InFlight,
               Over(replays[KeyOf(j)], clock, pc, x)
        PROVE  Over(replays[KeyOf(j)], clock, pc', x)
    <3>1. KeyOf(j) \in Keys
      BY <2>1, RequestType DEF InFlight
    <3>2. ASSUME replays[KeyOf(j)] # None, pc[replays[KeyOf(j)].interaction] = "abandoned"
          PROVE  pc'[replays[KeyOf(j)].interaction] = "abandoned"
      <4>1. replays[KeyOf(j)].interaction \in Interactions
        BY <3>1, <3>2 DEF IInv, TypeOK, Replays
      <4> QED
        BY <1>1, <1>3, <3>2, <4>1
    <3> QED
      BY <2>1, <3>2 DEF Over
  <2>2. ASSUME NEW j \in Interactions
        PROVE  /\ pc'[j] \in {"running", "saving", "cancelled"} =>
                    Over(replays[KeyOf(j)], clock, pc', j)
               /\ pc'[j] = "found" => Over(replays[KeyOf(j)], clock, pc', entry[j].interaction)
    <3>1. CASE j = i
      BY <1>1, <1>3, <2>1, <3>1 DEF NothingToReplay, Spent
    <3>2. CASE j # i
      BY <1>3, <2>1, <3>2 DEF NothingToReplay, Spent, InFlight
    <3> QED
      BY <3>1, <3>2
  <2> QED
    BY <1>1, <1>4, <2>2 DEF NothingToReplay, Spent
<1> QED
  BY <1>5, <1>6, <1>7, <1>8

\* The process dies: no call is left in flight, and the stores are as they were.
LEMMA RestartStep ==
    ASSUME GatewayInv, Restart
    PROVE  GatewayInv'
<1> USE DEF GatewayInv, Calls
<1>1. /\ pc' = [i \in Interactions |-> IF pc[i] \in InFlight THEN "done" ELSE pc[i]]
      /\ inflight' = [k \in Keys |-> None] /\ entry' = [i \in Interactions |-> None]
      /\ saving' = [i \in Interactions |-> None]
      /\ UNCHANGED <<clock, replays, request, reserved, answered, answer>>
  BY DEF Restart, stored
<1>2. IInv'
  <2>1. /\ shadow' = [i \in Interactions |-> IF shadow[i] = "none" THEN "none" ELSE "done"]
        /\ deadline' = [i \in Interactions |-> 0] /\ sweeping' = None
        /\ UNCHANGED stored /\ UNCHANGED <<clock, completed>>
    BY DEF Restart
  <2>2. TypeOK'
    BY <1>1, <2>1 DEF IInv, TypeOK, stored
  <2>3. DeadlinesOrdered'
    BY <1>1, <2>1 DEF IInv, TypeOK, DeadlinesOrdered, stored
  <2> QED
    BY <2>1, <2>2, <2>3, QuietStep
<1>3. CallsOK'
  BY <1>1 DEF CallsOK
<1>4. \A j : KeyOf(j)' = KeyOf(j) /\ PrintOf(j)' = PrintOf(j)
  BY <1>1 DEF KeyOf, PrintOf
<1>5. \A i \in Interactions : /\ pc'[i] \notin InFlight
                              /\ pc'[i] = "idle" <=> pc[i] = "idle"
                              /\ saving'[i] = None /\ entry'[i] = None
  BY <1>1 DEF InFlight
<1>6. ReservationsHeld'
  BY <1>1, <1>4, <1>5 DEF ReservationsHeld
<1>7. RepliesMatch'
  BY <1>1, <1>4, <1>5 DEF RepliesMatch, Answers, InFlight
<1>8. NothingToReplay'
  BY <1>5 DEF NothingToReplay, InFlight
<1> QED
  BY <1>2, <1>3, <1>6, <1>7, <1>8

-----------------------------------------------------------------------------
(* The gateway's theorems *)

\* Nothing is in flight and nothing is stored.
LEMMA InitGateway == Init => GatewayInv
<1> SUFFICES ASSUME Init PROVE GatewayInv
  OBVIOUS
<1>1. IInv
  BY InitIInv DEF Init
<1>2. CallsOK
  BY DEF Init, CallsOK
<1>3. ReservationsHeld
  BY DEF Init, StorageInit, ReservationsHeld, InFlight
<1>4. RepliesMatch
  BY DEF Init, StorageInit, RepliesMatch
<1>5. NothingToReplay
  BY DEF Init, NothingToReplay
<1> QED
  BY <1>1, <1>2, <1>3, <1>4, <1>5 DEF GatewayInv, Calls

\* To the stores a step of the gateway is a step of their callers, or none.
LEMMA GatewayStores ==
    ASSUME GatewayInv, [Next]_vars, ~Restart
    PROVE  [StorageNext]_storageVars
<1>1. ASSUME NEW i \in Interactions, NEW ok \in BOOLEAN,
             NEW fields \in SUBSET {"content", "replay"}, Finish(i, ok, fields)
      PROVE  StorageNext
  <2>1. KeyOf(i) \in Keys /\ PrintOf(i) \in Prints
    BY <1>1, RequestType DEF Finish
  <2>2. reserved[i] \in 0..clock /\ clock \in 0..clock /\ reserved[i] <= clock
    BY DEF GatewayInv, Calls, CallsOK, ReservationsHeld, IInv, TypeOK
  <2>3. SavePrepare(i, KeyOf(i), PrintOf(i), reserved[i], clock, fields)
    BY <1>1 DEF Finish
  <2> QED
    BY <2>1, <2>2, <2>3 DEF StorageNext
<1>2. ASSUME NEW i \in Interactions, NEW shadowed \in BOOLEAN, SaveReturn(i, shadowed)
      PROVE  StorageNext \/ UNCHANGED storageVars
  BY <1>2 DEF SaveReturn, StorageNext
<1>3. CASE UNCHANGED vars
  BY <1>3 DEF vars
<1> QED
  BY <1>1, <1>2, <1>3 DEF Next, Call, Worker, StorageNext, Reserve, FindEntry, FindPayload, Refuse,
     CancelLookup, CancelSave, CancelAgain

\* Every step of every call, worker and erasure preserves the invariant.
LEMMA NextGateway == GatewayInv /\ [Next]_vars => GatewayInv'
<1> SUFFICES ASSUME GatewayInv, [Next]_vars PROVE GatewayInv'
  OBVIOUS
<1>1. CASE Restart
  BY <1>1, RestartStep
<1>2. CASE ~Restart
  <2>1. IInv'
    BY <1>2, GatewayStores, NextIInv DEF GatewayInv
  <2>2. CASE UNCHANGED vars
    BY <2>1, <2>2 DEF vars, storageVars, stored, callers, gatewayVars, GatewayInv, Calls, CallsOK,
       ReservationsHeld, RepliesMatch, NothingToReplay, Answers, Spent, KeyOf, PrintOf
  <2>3. ASSUME NEW i \in Interactions,
               Call(i) \/ CancelLookup(i) \/ CancelSave(i) \/ CancelAgain(i)
        PROVE  Calls'
    BY <2>3, FindEntryStep, FindPayloadStep, GiveUpStep, FinishStep, SaveReturnStep, CancelStep
       DEF Call
  <2>4. ASSUME (\E i \in Interactions : Worker(i)) \/ ((Erase \/ Tick) /\ UNCHANGED gatewayVars)
        PROVE  Calls'
    <3>1. IInv
      BY DEF GatewayInv
    <3>2. StoreEffect /\ UNCHANGED gatewayVars
      BY <2>4, <3>1, StoreEffects DEF Worker
    <3> QED
      BY <2>1, <3>2, StoreKept
  <2>5. Calls'
    BY <1>2, <2>2, <2>3, <2>4, ReserveStep DEF Next, GatewayInv
  <2> QED
    BY <2>1, <2>5 DEF GatewayInv
<1> QED
  BY <1>1, <1>2

\* The inductive invariant holds of every reachable state.
THEOREM GatewayInvariance == Spec => []GatewayInv
  BY InitGateway, NextGateway, PTL DEF Spec

\* Calls and stores stay well formed.
THEOREM GatewayTypeCorrect == Spec => []GatewayTypeOK
<1>1. GatewayInv => GatewayTypeOK
  BY DEF GatewayInv, IInv, Calls, CallsOK, GatewayTypeOK
<1> QED
  BY <1>1, GatewayInvariance, PTL

\* However calls are cancelled, retried, erased and restarted, one key has one
\* execution and one worker at a time, unless a call was cancelled twice while
\* it was saved.
THEOREM ExecutedOnceCorrect == Spec => []ExecutedOnce
<1>1. GatewayInv => ExecutedOnce
  <2> SUFFICES ASSUME GatewayInv, NEW i \in Interactions, NEW j \in Interactions, i # j,
                      Executing(i), Executing(j), KeyOf(i) = KeyOf(j),
                      pc[i] # "abandoned", pc[j] # "abandoned"
               PROVE  FALSE
    BY DEF ExecutedOnce
  <2>1. ASSUME NEW x \in Interactions, Executing(x), pc[x] # "abandoned"
        PROVE  inflight[KeyOf(x)] = x
    BY <2>1 DEF GatewayInv, Calls, ReservationsHeld, Executing, InFlight
  <2> QED
    BY <2>1
<1> QED
  BY <1>1, GatewayInvariance, PTL

\* What a call returns is the response of an execution of its own request, with
\* the same key and the same body.
THEOREM AnswersCorrect == Spec => []AnswersItsRequest
<1>1. GatewayInv => AnswersItsRequest
  <2> SUFFICES ASSUME GatewayInv, NEW i \in Interactions, answer[i] # None
               PROVE  /\ answer[i] \in answered
                      /\ KeyOf(answer[i]) = KeyOf(i) /\ PrintOf(answer[i]) = PrintOf(i)
    BY DEF AnswersItsRequest
  <2>1. Answers(answer[i], KeyOf(i), PrintOf(i))
    BY DEF GatewayInv, Calls, RepliesMatch
  <2> QED
    BY <2>1 DEF Answers, Produced, KeyOf, PrintOf
<1> QED
  BY <1>1, GatewayInvariance, PTL

\* A live replay entry is never replaced by the outcome of another execution,
\* except between an abandoned worker and the retry it races.
THEOREM LiveReplayCorrect == Spec => LiveReplayKept
<1>1. ASSUME GatewayInv, [Next]_vars
      PROVE  \A k \in Keys : replays[k] # None /\ replays[k].expires > clock /\ replays'[k] # None =>
                \/ replays'[k].interaction = replays[k].interaction
                \/ "abandoned" \in {pc[replays[k].interaction], pc[replays'[k].interaction]}
  <2> SUFFICES ASSUME NEW k \in Keys, replays[k] # None, replays[k].expires > clock,
                      replays'[k] # None
               PROVE  \/ replays'[k].interaction = replays[k].interaction
                      \/ pc[replays[k].interaction] = "abandoned"
                      \/ pc[replays'[k].interaction] = "abandoned"
    OBVIOUS
  <2>1. ASSUME NEW i \in Interactions, Stores(i, k)
        PROVE  \/ pc[i] = "abandoned"
               \/ pc[replays[k].interaction] = "abandoned"
               \/ replays[k].interaction = i
    <3>1. pc[i] \in {"saving", "cancelled", "abandoned"} /\ k = KeyOf(i)
      BY <1>1, <2>1 DEF Stores, GatewayInv, Calls, ReservationsHeld
    <3>2. replays[k].expires \in Nat /\ clock \in Nat
      BY <1>1 DEF GatewayInv, IInv, TypeOK, Replays
    <3>3. CASE pc[i] # "abandoned"
      <4>1. Over(replays[k], clock, pc, i)
        BY <1>1, <3>1, <3>3 DEF GatewayInv, Calls, NothingToReplay, Spent
      <4> QED
        BY <3>2, <4>1 DEF Over
    <3> QED
      BY <3>3
  <2>2. CASE (\E i \in Interactions : LateWrite(i)) \/ Erase \/ Tick
    <3>1. StoreEffect
      BY <1>1, <2>2, StoreEffects DEF GatewayInv
    <3> QED
      BY <2>1, <3>1 DEF StoreEffect, Stores
  <2>3. CASE UNCHANGED replays
    BY <2>3
  <2>4. UNCHANGED replays \/ (\E i \in Interactions : LateWrite(i)) \/ Erase \/ Tick
    BY <1>1 DEF Next, Call, Worker, Reserve, FindEntry, FindPayload, Refuse, Finish, SavePrepare,
       SaveReturn, ShadowQueue, CancelLookup, CancelSave, CancelAgain, Restart, vars, storageVars,
       stored
  <2> QED
    BY <2>2, <2>3, <2>4
<1> QED
  BY <1>1, GatewayInvariance, PTL DEF Spec, LiveReplayKept

\* A replay is only returned of an interaction that is not erased when its
\* payload is read, whatever happened since the entry was read.
THEOREM ErasedReplayCorrect == Spec => ErasedIsNotReplayed
<1>1. ASSUME GatewayInv, [Next]_vars
      PROVE  \A i \in Interactions : answer'[i] # answer[i] /\ answer'[i] # i =>
                /\ answer'[i] \notin tombstones
                /\ SubjectOf[answer'[i]] \notin subjectTombstones
  <2> SUFFICES ASSUME NEW i \in Interactions, answer'[i] # answer[i], answer'[i] # i
               PROVE  /\ answer'[i] \notin tombstones
                      /\ SubjectOf[answer'[i]] \notin subjectTombstones
    OBVIOUS
  <2>1. answer \in [Interactions -> Interactions \cup {None}]
    BY <1>1 DEF GatewayInv, Calls, CallsOK
  <2>2. ASSUME NEW j \in Interactions, FindPayload(j)
        PROVE  Readable(entry[i]) /\ answer'[i] = entry[i].interaction
    BY <2>1, <2>2 DEF FindPayload
  <2>3. ASSUME NEW j \in Interactions, NEW shadowed \in BOOLEAN, SaveReturn(j, shadowed)
        PROVE  FALSE
    BY <2>1, <2>3 DEF SaveReturn
  <2>4. \E j \in Interactions : FindPayload(j)
    BY <1>1, <2>3 DEF Next, Call, Worker, Reserve, FindEntry, Refuse, Finish, CancelLookup,
       CancelSave, CancelAgain, Restart, vars, gatewayVars
  <2>5. PICK p \in payloads : p.interaction = answer'[i]
    BY <2>2, <2>4 DEF Readable
  <2>6. /\ p.interaction \in Interactions /\ row[p.interaction] # None
        /\ row[p.interaction].state = "active"
    BY <1>1 DEF GatewayInv, IInv, TypeOK, Payloads, NothingOutlives
  <2> QED
    BY <1>1, <2>5, <2>6 DEF GatewayInv, IInv, TombstonesHold
<1> QED
  BY <1>1, GatewayInvariance, PTL DEF Spec, ErasedIsNotReplayed

\* The stores keep their promises under the gateway too, also when the process
\* dies between the steps of its calls.
THEOREM StoresUnderGateway == Spec => [](Erased /\ RefsResolve /\ NothingOutlives)
<1>1. GatewayInv => Erased /\ RefsResolve /\ NothingOutlives
  BY ErasedHolds DEF GatewayInv, IInv
<1> QED
  BY <1>1, GatewayInvariance, PTL
==============================================================================
