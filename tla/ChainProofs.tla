----------------------------- MODULE ChainProofs -----------------------------
(***************************************************************************)
(* Machine-checked proofs about Breakers, for any callers, deployments and *)
(* thresholds, and about Chain, for any plans, budgets and policies.       *)
(* Chains use the breakers as Breakers says their callers do, so what is   *)
(* proved of any callers holds of the chains that serve requests.          *)
(***************************************************************************)
EXTENDS Chain, FiniteSetTheorems, SequenceTheorems, TLAPS

\* The clock never runs behind a window: what a window holds ended by now,
\* after the breaker last closed.
NotAhead ==
    \A d \in Deployments :
        /\ openedAt[d] <= now
        /\ \A i \in 1..Len(samples[d]) : samples[d][i].at <= now

\* The inductive invariant.  Only FreshEvidence needs a strengthening: a new
\* sample is the latest, because none is from the future.
IInv == TypeOK /\ ProbeInFlight /\ NeverEvicted /\ NotAhead /\ FreshEvidence

-----------------------------------------------------------------------------
\* _window keeps the table within its limit and forgets no deployment.
LEMMA OpenedBounded ==
    ASSUME TypeOK, Cardinality(known) <= WindowLimit, NEW d \in Deployments, Opened(d)
    PROVE  /\ known' \in SUBSET Deployments
           /\ known \subseteq known'
           /\ HasWindow(d) => d \in known'
           /\ Cardinality(known') <= WindowLimit
<1>1. known' \in SUBSET Deployments /\ known \subseteq known' /\ (HasWindow(d) => d \in known')
  BY DEF TypeOK, Opened
<1>2. IsFiniteSet(known) /\ Cardinality(known) \in Nat
  BY BreakersAssumption, FS_Subset, FS_CardinalityType DEF TypeOK
<1>3. CASE d \in known \/ ~HasWindow(d)
  <2>1. known' = known
    BY <1>3 DEF Opened
  <2> QED
    BY <1>1, <2>1
<1>4. CASE d \notin known /\ HasWindow(d)
  <2>1. known' = known \cup {d} /\ Cardinality(known) < WindowLimit
    BY <1>4 DEF Opened, HasWindow
  <2>2. Cardinality(known') = Cardinality(known) + 1
    BY <1>2, <1>4, <2>1, FS_AddElement
  <2> QED
    BY <1>1, <1>2, <2>1, <2>2, BreakersAssumption
<1> QED
  BY <1>3, <1>4

\* The sizes of the sets Outdated counts with.
LEMMA IntervalSize ==
    ASSUME NEW n \in Nat
    PROVE  IsFiniteSet(1..n) /\ Cardinality(1..n) = n
<1>1. 1 \in Int /\ n \in Int
  OBVIOUS
<1>2. IsFiniteSet(1..n) /\ Cardinality(1..n) = IF 1 > n THEN 0 ELSE n - 1 + 1
  BY <1>1, FS_Interval
<1> QED
  BY <1>2

\* A window is a sequence of samples with times.
LEMMA SampleTimes ==
    ASSUME NEW s \in Seq(Samples)
    PROVE  /\ Len(s) \in Nat
           /\ \A i \in 1..Len(s) : s[i] \in Samples /\ s[i].at \in Nat
<1>1. \A i \in 1..Len(s) : s[i] \in Samples
  OBVIOUS
<1>2. \A x \in Samples : x.at \in Nat
  BY DEF Samples
<1> QED
  BY <1>1, <1>2

\* deque(maxlen).append: the new sample comes last, behind samples that keep
\* their order.
LEMMA PushKeepsOrder ==
    ASSUME NEW s \in Seq(Samples), NEW x \in Samples
    PROVE  /\ Push(s, x) \in Seq(Samples)
           /\ Len(Push(s, x)) # 0
           /\ Push(s, x)[Len(Push(s, x))] = x
           /\ \E k \in Nat : \A i \in 1..Len(Push(s, x)) :
                 i # Len(Push(s, x)) => i + k \in 1..Len(s) /\ Push(s, x)[i] = s[i + k]
<1>1. CASE Len(s) < MaxSamples
  <2>1. /\ Push(s, x) \in Seq(Samples) /\ Len(Push(s, x)) = Len(s) + 1
        /\ Push(s, x)[Len(s) + 1] = x
        /\ \A i \in 1..Len(s) : Push(s, x)[i] = s[i + 0]
    BY <1>1 DEF Push
  <2>2. \A i \in 1..Len(Push(s, x)) : i # Len(Push(s, x)) =>
            i + 0 \in 1..Len(s) /\ Push(s, x)[i] = s[i + 0]
    BY <2>1
  <2>3. Len(Push(s, x)) # 0 /\ Push(s, x)[Len(Push(s, x))] = x
    BY <2>1
  <2>4. 0 \in Nat
    OBVIOUS
  <2> QED
    BY <2>1, <2>2, <2>3, <2>4
<1>2. CASE ~(Len(s) < MaxSamples)
  <2>1. s # <<>> /\ Len(s) \in Nat \ {0}
    BY <1>2, BreakersAssumption
  <2>2. Tail(s) \in Seq(Samples) /\ Len(Tail(s)) = Len(s) - 1
        /\ \A i \in 1..Len(Tail(s)) : Tail(s)[i] = s[i + 1]
    BY <2>1
  <2>3. Push(s, x) = Append(Tail(s), x)
    BY <1>2 DEF Push
  <2> HIDE DEF Push
  <2>4. /\ Push(s, x) \in Seq(Samples) /\ Len(Push(s, x)) = Len(Tail(s)) + 1
        /\ Push(s, x)[Len(Tail(s)) + 1] = x
        /\ \A i \in 1..Len(Tail(s)) : Push(s, x)[i] = Tail(s)[i]
    BY <2>2, <2>3
  <2>5. \A i \in 1..Len(Push(s, x)) : i # Len(Push(s, x)) =>
            i + 1 \in 1..Len(s) /\ Push(s, x)[i] = s[i + 1]
    BY <2>1, <2>2, <2>4
  <2>6. Len(Push(s, x)) # 0 /\ Push(s, x)[Len(Push(s, x))] = x /\ 1 \in Nat
    BY <2>2, <2>4
  <2> QED
    BY <2>4, <2>5, <2>6
<1> QED
  BY <1>1, <1>2

\* popleft: pruning drops a prefix, and nothing outdated survives it, because
\* the samples before an outdated one are outdated too.
LEMMA PrunedIsFresh ==
    ASSUME TypeOK, NEW s \in Seq(Samples),
           \A i, j \in 1..Len(s) : i <= j => s[i].at <= s[j].at
    PROVE  /\ Pruned(s) \in Seq(Samples)
           /\ \E m \in Nat : \A i \in 1..Len(Pruned(s)) :
                 /\ i + m \in 1..Len(s) /\ Pruned(s)[i] = s[i + m]
                 /\ Pruned(s)[i].at >= now - WindowSeconds
<1> DEFINE old == {i \in 1..Len(s) : \A j \in 1..i : s[j].at < now - WindowSeconds}
           m == Outdated(s)
           horizon == now - WindowSeconds
<1>0. (\A i \in 1..Len(s) : s[i].at \in Nat) /\ horizon \in Int
  BY SampleTimes, BreakersAssumption DEF TypeOK
<1>1. Len(s) \in Nat /\ IsFiniteSet(1..Len(s)) /\ Cardinality(1..Len(s)) = Len(s)
  <2>1. Len(s) \in Nat
    BY SampleTimes
  <2> QED
    BY <2>1, IntervalSize
<1>2. IsFiniteSet(old) /\ m = Cardinality(old) /\ m \in Nat /\ m <= Len(s)
  BY <1>1, FS_Subset, FS_CardinalityType DEF Outdated
<1>3. ASSUME NEW k \in 1..Len(s), k > m PROVE s[k].at >= now - WindowSeconds
  <2> HIDE DEF horizon
  <2> SUFFICES ASSUME s[k].at < horizon PROVE FALSE
    BY <1>0 DEF horizon
  <2>1. \A j \in 1..k : s[j].at < now - WindowSeconds
    <3> SUFFICES ASSUME NEW j \in 1..k PROVE s[j].at < horizon
      BY DEF horizon
    <3>1. j \in 1..Len(s) /\ j <= k
      BY <1>1
    <3> QED
      BY <1>0, <3>1
  <2>2. 1..k \subseteq old
    <3> SUFFICES ASSUME NEW i \in 1..k PROVE i \in old
      OBVIOUS
    <3>1. i \in 1..Len(s) /\ \A j \in 1..i : j \in 1..k
      BY <1>1
    <3> QED
      BY <2>1, <3>1
  <2>3. Cardinality(1..k) = k /\ IsFiniteSet(1..k)
    BY <1>1, IntervalSize
  <2>4. k <= m
    BY <1>2, <2>2, <2>3, FS_Subset
  <2> QED
    BY <1>2, <1>3, <2>4
<1> HIDE DEF m, old
<1>4. Pruned(s) = SubSeq(s, m + 1, Len(s))
  BY DEF Pruned, m
<1>5. Pruned(s) \in Seq(Samples)
  BY <1>1, <1>2, <1>4, SubSeqProperties
<1>6. \A i \in 1..Len(Pruned(s)) : i + m \in 1..Len(s) /\ Pruned(s)[i] = s[i + m]
  <2>1. Len(Pruned(s)) = IF m + 1 <= Len(s) THEN Len(s) - m ELSE 0
    BY <1>1, <1>2, <1>4, SubSeqProperties
  <2>2. \A i \in 1..(Len(s) - m) : Pruned(s)[i] = s[m + 1 + i - 1]
    BY <1>1, <1>2, <1>4, SubSeqProperties
  <2> QED
    BY <1>1, <1>2, <2>1, <2>2
<1>7. ASSUME NEW i \in 1..Len(Pruned(s)) PROVE Pruned(s)[i].at >= now - WindowSeconds
  <2>1. i + m \in 1..Len(s) /\ i + m > m /\ Pruned(s)[i] = s[i + m]
    BY <1>2, <1>5, <1>6
  <2> QED
    BY <1>3, <2>1
<1> QED
  BY <1>2, <1>5, <1>6, <1>7

\* record in the closed state leaves a window in order, of samples no older
\* than WindowSeconds and none from before the breaker closed.
LEMMA SampledIsFresh ==
    ASSUME TypeOK, NotAhead, FreshEvidence, NEW d \in Deployments, state[d] = "closed",
           NEW x \in Samples, x.at = now
    PROVE  LET s == Pruned(Push(samples[d], x)) IN
           /\ s \in Seq(Samples)
           /\ \A i \in 1..Len(s) : /\ s[i].at \in Nat /\ s[i].at <= now
                                    /\ s[i].at >= now - WindowSeconds
                                    /\ s[i].at >= openedAt[d]
           /\ \A i, j \in 1..Len(s) : i <= j => s[i].at <= s[j].at
<1> DEFINE w == samples[d]
           t == Push(w, x)
           s == Pruned(t)
<1>1. /\ w \in Seq(Samples)
      /\ \A i \in 1..Len(w) : w[i] \in Samples /\ w[i].at <= now /\ w[i].at >= openedAt[d]
      /\ \A i, j \in 1..Len(w) : i <= j => w[i].at <= w[j].at
      /\ openedAt[d] <= now /\ now \in Nat /\ openedAt[d] \in Nat
  <2>1. w \in Seq(Samples) /\ now \in Nat /\ openedAt[d] \in Nat
    BY DEF TypeOK
  <2> QED
    BY <2>1, SampleTimes DEF NotAhead, FreshEvidence
<1>2. /\ t \in Seq(Samples) /\ Len(t) # 0 /\ t[Len(t)] = x
      /\ \E k \in Nat : \A i \in 1..Len(t) :
            i # Len(t) => i + k \in 1..Len(w) /\ t[i] = w[i + k]
  BY <1>1, PushKeepsOrder
<1> HIDE DEF w, t
<1>3. /\ \A i \in 1..Len(t) : t[i] \in Samples /\ t[i].at <= now /\ t[i].at >= openedAt[d]
      /\ \A i, j \in 1..Len(t) : i <= j => t[i].at <= t[j].at
  <2>1. PICK k \in Nat : \A i \in 1..Len(t) :
                            i # Len(t) => i + k \in 1..Len(w) /\ t[i] = w[i + k]
    BY <1>2
  <2>2. \A i \in 1..Len(t) : t[i] \in Samples /\ t[i].at <= now /\ t[i].at >= openedAt[d]
    BY <1>1, <1>2, <2>1
  <2>3. ASSUME NEW i \in 1..Len(t), NEW j \in 1..Len(t), i <= j PROVE t[i].at <= t[j].at
    <3>1. Len(t) \in Nat
      BY <1>2
    <3>2. CASE j = Len(t)
      BY <1>2, <2>2, <3>2
    <3>3. CASE j # Len(t)
      <4>1. i # Len(t) /\ i + k \in 1..Len(w) /\ j + k \in 1..Len(w) /\ i + k <= j + k
        BY <2>1, <2>3, <3>1, <3>3
      <4> QED
        BY <1>1, <2>1, <3>3, <4>1
    <3> QED
      BY <3>2, <3>3
  <2> QED
    BY <2>2, <2>3
<1>4. /\ s \in Seq(Samples)
      /\ \E m \in Nat : \A i \in 1..Len(s) : /\ i + m \in 1..Len(t) /\ s[i] = t[i + m]
                                             /\ s[i].at >= now - WindowSeconds
  BY <1>2, <1>3, PrunedIsFresh
<1> HIDE DEF s
<1>5. PICK m \in Nat : \A i \in 1..Len(s) : /\ i + m \in 1..Len(t) /\ s[i] = t[i + m]
                                           /\ s[i].at >= now - WindowSeconds
  BY <1>4
<1>6. \A i \in 1..Len(s) : /\ s[i].at \in Nat /\ s[i].at <= now
                           /\ s[i].at >= now - WindowSeconds
                           /\ s[i].at >= openedAt[d]
  BY <1>3, <1>5 DEF Samples
<1>7. ASSUME NEW i \in 1..Len(s), NEW j \in 1..Len(s), i <= j PROVE s[i].at <= s[j].at
  <2>1. i + m <= j + m
    BY <1>4, <1>7
  <2> QED
    BY <1>3, <1>5, <2>1
<1> QED
  BY <1>4, <1>6, <1>7 DEF s, t, w

\* What leaves the windows alone and closes no breaker keeps their order.
LEMMA WindowsKept ==
    ASSUME TypeOK, NotAhead, FreshEvidence, UNCHANGED <<openedAt, samples>>,
           now' \in Nat, now <= now',
           \A d \in Deployments : state'[d] = "closed" => state[d] = "closed"
    PROVE  NotAhead' /\ FreshEvidence'
<1>1. NotAhead'
  <2> SUFFICES ASSUME NEW d \in Deployments
               PROVE  /\ openedAt[d] <= now'
                      /\ \A i \in 1..Len(samples[d]) : samples[d][i].at <= now'
    BY DEF NotAhead
  <2>1. openedAt[d] \in Nat /\ now \in Nat /\ samples[d] \in Seq(Samples)
    BY DEF TypeOK
  <2>2. \A i \in 1..Len(samples[d]) : samples[d][i].at \in Nat
    BY <2>1, SampleTimes
  <2> QED
    BY <2>1, <2>2 DEF NotAhead
<1>2. FreshEvidence'
  BY DEF FreshEvidence
<1> QED
  BY <1>1, <1>2

-----------------------------------------------------------------------------
\* acquire and available: a breaker only advances from open to half-open, and
\* the flag is raised only together with a probe in flight.
LEMMA AdmissionStep ==
    ASSUME IInv, NEW d \in Deployments,
           Available(d) \/ \E c \in Callers : Acquire(c, d)
    PROVE  IInv'
<1> USE DEF IInv
<1>1. Opened(d)
  BY DEF Available, Acquire
<1>2. /\ known' \in SUBSET Deployments
      /\ known \subseteq known'
      /\ HasWindow(d) => d \in known'
      /\ Cardinality(known') <= WindowLimit
  BY <1>1, OpenedBounded DEF NeverEvicted
<1>3. /\ state' = [state EXCEPT ![d] = IF HasWindow(d) THEN Advanced(d) ELSE state[d]]
      /\ UNCHANGED <<openedAt, samples, now>>
  BY DEF Available, Acquire
<1>6. NotAhead' /\ FreshEvidence'
  BY <1>3, WindowsKept DEF TypeOK, Advanced, CooledDown
<1>4. CASE Available(d)
  <2>1. UNCHANGED <<probing, at, probe>>
    BY <1>4 DEF Available
  <2>2. TypeOK'
    BY <1>2, <1>3, <2>1 DEF TypeOK, Advanced
  <2>3. ProbeInFlight'
    BY <1>3, <2>1 DEF ProbeInFlight, TypeOK, Advanced, CooledDown
  <2>4. NeverEvicted'
    BY <1>2, <1>3, <2>1 DEF NeverEvicted, TypeOK, Advanced, CooledDown
  <2> QED
    BY <1>6, <2>2, <2>3, <2>4
<1>5. ASSUME NEW c \in Callers, Acquire(c, d) PROVE IInv'
  <2>1. CASE Admits(d)
    <3>1. /\ at' = [at EXCEPT ![c] = d]
          /\ probing' = [probing EXCEPT ![d] = (Advanced(d) = "half_open")]
          /\ probe' = IF Advanced(d) = "half_open" THEN probe \cup {c} ELSE probe
          /\ at[c] = Nowhere
      BY <1>5, <2>1 DEF Acquire
    <3>2. HasWindow(d) /\ d \in known'
      BY <1>2, <2>1 DEF Admits
    <3>3. TypeOK'
      BY <1>2, <1>3, <3>1 DEF TypeOK, Advanced
    <3>4. ProbeInFlight'
      <4> SUFFICES ASSUME NEW x \in Deployments, probing'[x]
                   PROVE  state'[x] = "half_open" /\ \E y \in probe' : at'[y] = x
        BY DEF ProbeInFlight
      <4>1. CASE x = d
        BY <1>3, <3>1, <3>2, <4>1 DEF TypeOK
      <4>2. CASE x # d
        <5>1. probing[x]
          BY <3>1, <4>2 DEF TypeOK
        <5>2. PICK y \in probe : at[y] = x
          BY <5>1 DEF ProbeInFlight
        <5>3. y # c
          BY <3>1, <5>2, BreakersAssumption
        <5>4. y \in probe' /\ at'[y] = x
          BY <3>1, <5>2, <5>3 DEF TypeOK
        <5> QED
          BY <1>3, <4>2, <5>1, <5>4 DEF ProbeInFlight, TypeOK
      <4> QED
        BY <4>1, <4>2
    <3>5. NeverEvicted'
      BY <1>2, <1>3, <3>1, <3>2 DEF NeverEvicted, TypeOK
    <3> QED
      BY <1>6, <3>3, <3>4, <3>5
  <2>2. CASE ~Admits(d)
    <3>1. UNCHANGED <<at, probing, probe>>
      BY <1>5, <2>2 DEF Acquire
    <3>2. TypeOK'
      BY <1>2, <1>3, <3>1 DEF TypeOK, Advanced
    <3>3. ProbeInFlight'
      BY <1>3, <3>1 DEF ProbeInFlight, TypeOK, Advanced, CooledDown
    <3>4. NeverEvicted'
      BY <1>2, <1>3, <3>1 DEF NeverEvicted, TypeOK, Advanced, CooledDown
    <3> QED
      BY <1>6, <3>2, <3>3, <3>4
  <2> QED
    BY <2>1, <2>2
<1> QED
  BY <1>4, <1>5

\* record: whichever call it belongs to, a record in the half-open state
\* lowers the flag, so the flag never outlives the last probe admitted.
LEMMA RecordStep ==
    ASSUME IInv, NEW c \in Callers, Finish(c)
    PROVE  IInv'
<1> USE DEF IInv
<1>1. PICK error \in BOOLEAN, failure \in BOOLEAN, latency \in Latencies :
         Record(c, error, failure, latency)
  BY DEF Finish
<1> DEFINE d == at[c]
           x == [at |-> now, error |-> error, failure |-> failure, latency |-> latency]
<1>2. /\ d \in Deployments
      /\ Opened(d)
      /\ \/ state[d] = "half_open" /\ Probed(d, x)
         \/ state[d] = "closed" /\ Sampled(d, x)
         \/ state[d] = "open" /\ UNCHANGED <<state, openedAt, probing, samples>>
      /\ at' = [at EXCEPT ![c] = Nowhere]
      /\ probe' = probe \ {c}
      /\ UNCHANGED now
  BY <1>1 DEF Record, TypeOK
<1>3. x \in Samples /\ x.at = now
  BY <1>1 DEF Samples, TypeOK
<1> HIDE DEF x
<1>4. /\ known' \in SUBSET Deployments
      /\ known \subseteq known'
      /\ Cardinality(known') <= WindowLimit
  BY <1>2, OpenedBounded DEF NeverEvicted
<1>5. d \in known
  BY <1>2 DEF NeverEvicted
<1>6. /\ state' \in [Deployments -> {"closed", "open", "half_open"}]
      /\ openedAt' \in [Deployments -> Nat]
      /\ probing' \in [Deployments -> BOOLEAN]
      /\ samples' \in [Deployments -> Seq(Samples)]
      /\ \A y \in Deployments : y # d => state'[y] = state[y] /\ probing'[y] = probing[y]
      /\ ~probing'[d]
  <2>1. CASE state[d] = "half_open" /\ Probed(d, x)
    <3>1. <<>> \in Seq(Samples)
      OBVIOUS
    <3> QED
      BY <1>2, <2>1, <3>1 DEF Probed, TypeOK
  <2>2. CASE state[d] = "closed" /\ Sampled(d, x)
    <3>1. Pruned(Push(samples[d], x)) \in Seq(Samples)
      BY <1>2, <1>3, <2>2, SampledIsFresh
    <3>2. ~probing[d]
      BY <1>2, <2>2 DEF ProbeInFlight
    <3> QED
      BY <1>2, <2>2, <3>1, <3>2 DEF Sampled, TypeOK
  <2>3. CASE state[d] = "open" /\ UNCHANGED <<state, openedAt, probing, samples>>
    BY <1>2, <2>3 DEF ProbeInFlight, TypeOK
  <2> QED
    BY <1>2, <2>1, <2>2, <2>3
<1>7. TypeOK'
  BY <1>2, <1>4, <1>6 DEF TypeOK
<1>8. ProbeInFlight'
  <2> SUFFICES ASSUME NEW y \in Deployments, probing'[y]
               PROVE  state'[y] = "half_open" /\ \E z \in probe' : at'[z] = y
    BY DEF ProbeInFlight
  <2>1. y # d /\ probing[y] /\ state'[y] = state[y]
    BY <1>6
  <2>2. PICK z \in probe : at[z] = y
    BY <2>1 DEF ProbeInFlight
  <2>3. z # c
    BY <2>1, <2>2
  <2>4. z \in probe' /\ at'[z] = y
    BY <1>2, <2>2, <2>3 DEF TypeOK
  <2> QED
    BY <2>1, <2>4 DEF ProbeInFlight
<1>9. NeverEvicted'
  BY <1>2, <1>4, <1>5, <1>6, BreakersAssumption DEF NeverEvicted, TypeOK
<1>10. NotAhead' /\ FreshEvidence'
  <2>1. CASE state[d] = "open" /\ UNCHANGED <<state, openedAt, probing, samples>>
    BY <1>2, <2>1, WindowsKept DEF TypeOK
  <2>2. CASE state[d] = "half_open" /\ Probed(d, x)
    <3>1. \A y \in Deployments : y # d =>
             openedAt'[y] = openedAt[y] /\ samples'[y] = samples[y] /\ state'[y] = state[y]
      BY <1>2, <2>2 DEF Probed, TypeOK
    <3>2. samples'[d] = <<>> /\ openedAt'[d] = now /\ now' = now /\ now \in Nat
      BY <1>2, <2>2 DEF Probed, TypeOK
    <3>3. Len(samples'[d]) = 0
      BY <3>2
    <3> QED
      BY <3>1, <3>2, <3>3 DEF NotAhead, FreshEvidence
  <2>3. CASE state[d] = "closed" /\ Sampled(d, x)
    <3> DEFINE s == Pruned(Push(samples[d], x))
    <3>1. /\ s \in Seq(Samples)
          /\ \A i \in 1..Len(s) : /\ s[i].at \in Nat /\ s[i].at <= now
                                   /\ s[i].at >= now - WindowSeconds
                                   /\ s[i].at >= openedAt[d]
          /\ \A i, j \in 1..Len(s) : i <= j => s[i].at <= s[j].at
      BY <1>2, <1>3, <2>3, SampledIsFresh
    <3>2. \A y \in Deployments : y # d =>
             openedAt'[y] = openedAt[y] /\ samples'[y] = samples[y] /\ state'[y] = state[y]
      BY <1>2, <2>3 DEF Sampled, TypeOK
    <3>3. /\ samples'[d] = s
          /\ state'[d] = IF Trips(s) THEN "open" ELSE "closed"
          /\ openedAt'[d] = IF Trips(s) THEN now ELSE openedAt[d]
          /\ now' = now /\ now \in Nat /\ openedAt[d] \in Nat
      BY <1>2, <2>3 DEF Sampled, TypeOK
    <3> HIDE DEF s
    <3>4. \A i, j \in 1..Len(s) : s[i].at - s[j].at <= WindowSeconds
      BY <3>1, <3>3, BreakersAssumption
    <3>5. /\ openedAt'[d] <= now
          /\ state'[d] = "closed" => openedAt'[d] = openedAt[d]
      BY <1>2, <3>3 DEF NotAhead
    <3>6. NotAhead'
      BY <3>1, <3>2, <3>3, <3>5 DEF NotAhead
    <3>7. FreshEvidence'
      BY <3>1, <3>2, <3>3, <3>4, <3>5 DEF FreshEvidence
    <3> QED
      BY <3>6, <3>7
  <2> QED
    BY <1>2, <2>1, <2>2, <2>3
<1> QED
  BY <1>7, <1>8, <1>9, <1>10

\* The invariant holds at the start, ...
LEMMA InvariantInit == Init => IInv
<1> SUFFICES ASSUME Init PROVE IInv
  OBVIOUS
<1>1. TypeOK
  BY DEF Init, TypeOK
<1>2. ProbeInFlight
  BY DEF Init, ProbeInFlight
<1>3. NeverEvicted
  BY FS_EmptySet, BreakersAssumption DEF Init, NeverEvicted
<1>4. NotAhead /\ FreshEvidence
  BY DEF Init, NotAhead, FreshEvidence
<1> QED
  BY <1>1, <1>2, <1>3, <1>4 DEF IInv

\* ... every step keeps it, ...
LEMMA InvariantStep == IInv /\ [Next]_vars => IInv'
<1> SUFFICES ASSUME IInv, [Next]_vars PROVE IInv'
  OBVIOUS
<1>1. CASE Tick \/ UNCHANGED vars
  <2>1. UNCHANGED <<known, state, openedAt, probing, samples, at, probe>> /\ now' \in Nat
        /\ now <= now'
    BY <1>1 DEF Tick, vars, windows, IInv, TypeOK
  <2>2. NotAhead' /\ FreshEvidence'
    BY <2>1, WindowsKept DEF IInv
  <2> QED
    BY <2>1, <2>2 DEF IInv, TypeOK, ProbeInFlight, NeverEvicted
<1> QED
  BY <1>1, AdmissionStep, RecordStep DEF Next

\* ... and so it holds of every reachable state.
THEOREM Invariance == Spec => []IInv
  BY InvariantInit, InvariantStep, PTL DEF Spec

\* Every reachable state is well typed.
THEOREM TypeCorrect == Spec => []TypeOK
  BY Invariance, PTL DEF IInv

\* The probing flag is never left behind by calls that overlap, arrive late
\* or fail: no deployment is refused for ever.
THEOREM ProbeCorrect == Spec => []ProbeInFlight
  BY Invariance, PTL DEF IInv

\* The table of windows stays within its limit without losing a breaker that
\* is open or has a call in flight.
THEOREM EvictionCorrect == Spec => []NeverEvicted
  BY Invariance, PTL DEF IInv

\* A closed breaker's window is in order, spans at most WindowSeconds and holds
\* nothing from before the breaker closed, however late an attempt ends.
THEOREM FreshCorrect == Spec => []FreshEvidence
  BY Invariance, PTL DEF IInv

-----------------------------------------------------------------------------
(* Chains.  Whom a chain asks for depends on its plan, so the proof carries *)
(* the type of the chains along with the breakers' invariant.              *)

ChainInv == IInv /\ chain \in [Callers -> Chains]

\* What is left of a chain's plan names deployments.
LEMMA PlanType ==
    ASSUME ChainInv, NEW c \in Callers, chain[c].todo # <<>>
    PROVE  Candidate(c) \in Deployments /\ Tail(chain[c].todo) \in Seq(Deployments)
  BY DEF ChainInv, Chains, Candidate

\* A chain that ends keeps its type.
LEMMA GoesType ==
    ASSUME ChainInv, NEW c \in Callers, NEW k \in Chains, Goes(c, k)
    PROVE  chain' \in [Callers -> Chains]
<1>1. [k EXCEPT !.todo = <<>>, !.until = 0] \in Chains
  <2>1. <<>> \in Seq(Deployments) /\ 0 \in Nat
    OBVIOUS
  <2>2. [k EXCEPT !.todo = <<>>] \in Chains
    BY <2>1 DEF Chains
  <2>3. [[k EXCEPT !.todo = <<>>] EXCEPT !.until = 0] \in Chains
    BY <2>1, <2>2 DEF Chains
  <2> QED
    BY <2>3
<1>2. Over(k) \in Chains
  BY <1>1 DEF Over
<1> QED
  BY <1>2 DEF ChainInv, Goes

\* A step past a candidate.
LEMMA PassedType ==
    ASSUME ChainInv, NEW c \in Callers, Considers(c),
           NEW stage \in {"trying", "generating", "failed"}, Passed(c, stage)
    PROVE  chain' \in [Callers -> Chains]
<1>1. chain[c] \in Chains /\ chain[c].todo # <<>>
  BY DEF ChainInv, Considers
<1>2. Candidate(c) \in Deployments /\ Tail(chain[c].todo) \in Seq(Deployments)
  BY <1>1, PlanType
<1> DEFINE k == [chain[c] EXCEPT !.at = stage, !.todo = Tail(@),
                                 !.visited = @ \cup {Candidate(c)}]
<1>3. k \in Chains
  BY <1>1, <1>2 DEF Chains
<1>4. Goes(c, k)
  BY DEF Passed
<1> QED
  BY <1>3, <1>4, GoesType

\* How an attempt that ends leaves its chain.
Ended(c, e, paid) ==
    [chain[c] EXCEPT !.at = After(e), !.attempts = @ + 1,
                     !.spent = @ + (IF paid THEN Cost[at[c]] ELSE 0)]

\* It is a chain with the same plan and past.
LEMMA EndType ==
    ASSUME ChainInv, NEW c \in Callers, NEW e \in Endings(c), NEW latency \in Latencies,
           NEW paid \in BOOLEAN, End(c, e, latency, paid)
    PROVE  /\ Ended(c, e, paid) \in Chains
           /\ Ended(c, e, paid).at = After(e)
           /\ Ended(c, e, paid).visited = chain[c].visited
           /\ Ended(c, e, paid).todo = chain[c].todo
           /\ Goes(c, Ended(c, e, paid))
<1>1. chain[c] \in Chains /\ at[c] \in Deployments
  BY DEF End, Counted, ChainInv, IInv, TypeOK, Record
<1>2. After(e) \in {"trying", "answered", "failed", "cancelled"}
  BY DEF After
<1>3. (IF paid THEN Cost[at[c]] ELSE 0) \in Nat
  BY <1>1, ChainAssumption
<1>4. Ended(c, e, paid) \in Chains
  <2>1. PICK cost \in Nat : cost = IF paid THEN Cost[at[c]] ELSE 0
    BY <1>3
  <2>2. PICK stage \in {"trying", "answered", "failed", "cancelled"} : stage = After(e)
    BY <1>2
  <2>3. PICK a \in Nat, s \in Nat : a = chain[c].attempts + 1 /\ s = chain[c].spent + cost
    BY <1>1 DEF Chains
  <2>4. [chain[c] EXCEPT !.at = stage] \in Chains
    BY <1>1 DEF Chains
  <2>5. [chain[c] EXCEPT !.at = stage, !.attempts = a] \in Chains
    BY <2>4 DEF Chains
  <2>6. [chain[c] EXCEPT !.at = stage, !.attempts = a, !.spent = s] \in Chains
    BY <2>5 DEF Chains
  <2> QED
    BY <2>1, <2>2, <2>3, <2>6 DEF Ended
<1>5. /\ Ended(c, e, paid).at = After(e) /\ Ended(c, e, paid).visited = chain[c].visited
      /\ Ended(c, e, paid).todo = chain[c].todo
  BY <1>1 DEF Ended, Chains
<1> QED
  BY <1>4, <1>5 DEF Ended, End

\* An attempt that ends.
LEMMA EndStep ==
    ASSUME ChainInv, NEW c \in Callers, NEW e \in Endings(c), NEW latency \in Latencies,
           NEW paid \in BOOLEAN, End(c, e, latency, paid)
    PROVE  Next /\ chain' \in [Callers -> Chains]
<1>1. e.failure \in BOOLEAN
  BY DEF Endings
<1>2. Record(c, e.code \notin {"ok", "validation_failed"}, e.failure, latency)
  BY DEF End, Counted
<1>3. Next
  BY <1>1, <1>2 DEF Next, Finish
<1> QED
  BY <1>3, EndType, GoesType

\* Every step of a chain is a step of Breakers or leaves the breakers alone.
LEMMA CallerStep ==
    ASSUME ChainInv, NEW c \in Callers, Step(c) \/ \E plan \in Plans : Begin(c, plan)
    PROVE  [Next]_vars /\ chain' \in [Callers -> Chains]
<1>1. CASE Exhausted(c)
  <2>1. [chain[c] EXCEPT !.at = "failed"] \in Chains
    BY DEF ChainInv, Chains
  <2> QED
    BY <1>1, <2>1, GoesType DEF Exhausted
<1>2. CASE Skip(c)
  BY <1>2, PassedType DEF Skip
<1>3. CASE Try(c)
  <2>1. Candidate(c) \in Deployments
    BY <1>3, PlanType DEF Try, Considers
  <2>2. Next
    BY <1>3, <2>1 DEF Try, Next
  <2> QED
    BY <1>3, <2>2, PassedType DEF Try
<1>4. CASE \E e \in Endings(c), latency \in Latencies, paid \in BOOLEAN : End(c, e, latency, paid)
  BY <1>4, EndStep
<1>5. ASSUME NEW plan \in Plans, Begin(c, plan)
      PROVE  [Next]_vars /\ chain' \in [Callers -> Chains]
  <2>1. plan \in Seq(Deployments) /\ now + Patience \in Nat
    BY ChainAssumption DEF ChainInv, IInv, TypeOK
  <2> QED
    BY <1>5, <2>1 DEF Begin, ChainInv, Chains
<1> QED
  BY <1>1, <1>2, <1>3, <1>4, <1>5 DEF Step

\* So is every step of the module.
LEMMA ChainStep == ChainInv /\ [ChainNext]_chainVars => [Next]_vars /\ ChainInv'
<1> SUFFICES ASSUME ChainInv, [ChainNext]_chainVars PROVE [Next]_vars /\ ChainInv'
  OBVIOUS
<1>1. [Next]_vars /\ chain' \in [Callers -> Chains]
  <2>1. CASE UNCHANGED chainVars
    BY <2>1 DEF chainVars, ChainInv
  <2>2. CASE (\E d \in Deployments : Available(d)) \/ Tick
    <3>1. CASE UNCHANGED chain
      BY <2>2, <3>1 DEF Next, ChainInv
    <3> QED
      BY <2>2, <3>1, CallerStep DEF ChainNext, chainVars
  <2> QED
    BY <2>1, <2>2, CallerStep DEF ChainNext
<1>2. IInv'
  BY <1>1, InvariantStep DEF ChainInv
<1> QED
  BY <1>1, <1>2 DEF ChainInv

LEMMA ChainStart == ChainInit => Init /\ ChainInv
<1> SUFFICES ASSUME ChainInit PROVE Init /\ ChainInv
  OBVIOUS
<1>1. Idle \in Chains
  BY DEF Idle, Chains
<1>2. Init /\ IInv
  BY InvariantInit DEF ChainInit
<1> QED
  BY <1>1, <1>2 DEF ChainInit, ChainInv

\* Chains never start a generation a breaker did not admit, and record each
\* one they started: for any plans, budgets, deadlines and fallback policies
\* they behave as the callers of Breakers.
THEOREM ChainRefinement == ChainSpec => UsesBreakers
  BY ChainStart, ChainStep, PTL DEF ChainSpec, UsesBreakers, Spec

\* So a probing flag never outlives the attempt that raised it, however a chain
\* ends: no deployment is refused for ever.
THEOREM ChainProbes == ChainSpec => []ProbeInFlight
  BY ChainRefinement, ProbeCorrect, PTL DEF UsesBreakers

\* So does the breakers' judgement of the attempts chains record: it rests on
\* recent evidence alone.
THEOREM ChainFresh == ChainSpec => []FreshEvidence
  BY ChainRefinement, FreshCorrect, PTL DEF UsesBreakers

-----------------------------------------------------------------------------
(* The foundation is never out of reach *)

\* A chain's plan still leads to the foundation, or the chain has been there.
Reaches(k) ==
    \/ Foundation \in k.visited
    \/ k.todo # <<>> /\ k.todo[Len(k.todo)] = Foundation

Spared(k) ==
    k.at = "failed" /\ HardFallbackOn = Reasons =>
        Foundation \in k.visited \/ k.attempts >= MaxAttempts

OnCourse(k) == (k.at \in {"trying", "generating"} => Reaches(k)) /\ Spared(k)

\* The inductive invariant behind FoundationTried.
CourseInv == \A c \in Callers : OnCourse(chain[c])

\* Ending a chain drops what was left of its plan and nothing it did.
LEMMA OverOnCourse ==
    ASSUME NEW k \in Chains, k.at \in {"trying", "generating"} => Reaches(k), Spared(k)
    PROVE  OnCourse(Over(k))
<1>1. CASE k.at \in {"trying", "generating"}
  BY <1>1 DEF Over, OnCourse
<1>2. CASE k.at \notin {"trying", "generating"}
  <2>1. /\ Over(k).at = k.at /\ Over(k).visited = k.visited
        /\ Over(k).attempts = k.attempts
    BY <1>2 DEF Over, Chains
  <2> QED
    BY <1>2, <2>1 DEF OnCourse, Spared
<1> QED
  BY <1>1, <1>2

\* One chain moves, to k.
LEMMA CourseKept ==
    ASSUME chain \in [Callers -> Chains], CourseInv, NEW c \in Callers, NEW k \in Chains,
           Goes(c, k), k.at \in {"trying", "generating"} => Reaches(k), Spared(k)
    PROVE  CourseInv'
<1>1. OnCourse(Over(k))
  BY OverOnCourse
<1>2. \A x \in Callers : chain'[x] = IF x = c THEN Over(k) ELSE chain[x]
  BY DEF Goes
<1> QED
  BY <1>1, <1>2 DEF CourseInv

\* A plan with two candidates left ends where its tail ends.
LEMMA TailLast ==
    ASSUME NEW todo \in Seq(Deployments), todo # <<>>, Len(todo) # 1
    PROVE  Tail(todo) # <<>> /\ Tail(todo)[Len(Tail(todo))] = todo[Len(todo)]
<1>1. Len(todo) \in Nat /\ Len(todo) > 1
  <2>1. Len(todo) \in Nat \ {0}
    BY EmptySeq, Zenon
  <2>2. \A n \in Nat \ {0} : n # 1 => n \in Nat /\ n > 1
    OBVIOUS
  <2> QED
    BY <2>1, <2>2, Zenon
<1>2. /\ Tail(todo) \in Seq(Deployments) /\ Len(Tail(todo)) = Len(todo) - 1
      /\ \A i \in 1..Len(Tail(todo)) : Tail(todo)[i] = todo[i + 1]
  BY HeadTailProperties
<1>3. Tail(todo)[Len(todo) - 1] = todo[Len(todo) - 1 + 1]
  BY <1>1, <1>2
<1>4. Len(Tail(todo)) # 0
  BY <1>1, <1>2
<1>5. Tail(todo) # <<>>
  BY <1>4, EmptySeq, Zenon
<1>6. Len(Tail(todo)) = Len(todo) - 1 /\ Len(todo) - 1 + 1 = Len(todo)
  BY <1>1, <1>2
<1> QED
  BY <1>3, <1>5, <1>6

\* Moving past a candidate moves past the foundation only by visiting it.
LEMMA PassedOnCourse ==
    ASSUME ChainInv, CourseInv, NEW c \in Callers, Considers(c),
           NEW stage \in {"trying", "generating", "failed"}, Passed(c, stage),
           stage = "failed" => HardFallbackOn # Reasons
    PROVE  CourseInv'
<1> DEFINE k == chain[c]
           n == [k EXCEPT !.at = stage, !.todo = Tail(@), !.visited = @ \cup {Candidate(c)}]
<1>1. k \in Chains /\ k.todo # <<>> /\ k.at = "trying" /\ k.todo \in Seq(Deployments)
  BY DEF ChainInv, Considers, Trying, Chains
<1>2. Reaches(k)
  BY <1>1 DEF CourseInv, OnCourse
<1>3. Candidate(c) \in Deployments /\ Tail(k.todo) \in Seq(Deployments)
  BY <1>1, PlanType
<1>4. n \in Chains /\ n.at = stage /\ n.todo = Tail(k.todo)
      /\ n.visited = k.visited \cup {Candidate(c)}
  BY <1>1, <1>3 DEF Chains
<1>5. Goes(c, n)
  BY DEF Passed
<1>6. Reaches(n)
  <2>1. CASE Foundation \in k.visited
    BY <1>4, <2>1 DEF Reaches
  <2>2. CASE Len(k.todo) = 1 /\ k.todo[Len(k.todo)] = Foundation
    <3>1. Candidate(c) = Foundation
      BY <1>1, <2>2 DEF Candidate
    <3> QED
      BY <1>4, <3>1 DEF Reaches
  <2>3. CASE Len(k.todo) # 1 /\ k.todo[Len(k.todo)] = Foundation
    <3>1. Tail(k.todo) # <<>> /\ Tail(k.todo)[Len(Tail(k.todo))] = k.todo[Len(k.todo)]
      BY <1>1, <2>3, TailLast
    <3> QED
      BY <1>4, <2>3, <3>1 DEF Reaches
  <2> QED
    BY <1>2, <2>1, <2>2, <2>3 DEF Reaches
<1>7. Spared(n)
  BY <1>4 DEF Spared
<1> HIDE DEF n
<1> QED
  BY <1>4, <1>5, <1>6, <1>7, CourseKept DEF ChainInv

\* Every step of every chain stays on course.
LEMMA CourseStep == ChainInv /\ CourseInv /\ [ChainNext]_chainVars => CourseInv'
<1> SUFFICES ASSUME ChainInv, CourseInv, [ChainNext]_chainVars PROVE CourseInv'
  OBVIOUS
<1>1. ASSUME NEW c \in Callers, Exhausted(c) PROVE CourseInv'
  <2> DEFINE k == chain[c]
             n == [k EXCEPT !.at = "failed"]
  <2>1. k \in Chains /\ k.at = "trying" /\ OnCourse(k)
        /\ (k.todo = <<>> \/ k.attempts >= MaxAttempts) /\ Goes(c, n)
    BY <1>1 DEF Exhausted, Trying, ChainInv, CourseInv
  <2>2. n \in Chains /\ n.at = "failed" /\ n.visited = k.visited /\ n.attempts = k.attempts
    BY <2>1 DEF Chains
  <2>3. Spared(n)
    BY <2>1, <2>2 DEF OnCourse, Reaches, Spared
  <2> HIDE DEF n
  <2> QED
    BY <2>1, <2>2, <2>3, CourseKept DEF ChainInv
<1>2. ASSUME NEW c \in Callers, Skip(c) PROVE CourseInv'
  <2>1. CASE Passed(c, "trying")
    BY <1>2, <2>1, PassedOnCourse DEF Skip
  <2>2. CASE Passed(c, "failed") /\ "deadline_risk" \notin HardFallbackOn
    <3>1. HardFallbackOn # Reasons
      BY <2>2 DEF Reasons
    <3> QED
      BY <1>2, <2>2, <3>1, PassedOnCourse DEF Skip
  <2> QED
    BY <1>2, <2>1, <2>2 DEF Skip
<1>3. ASSUME NEW c \in Callers, Try(c) PROVE CourseInv'
  BY <1>3, PassedOnCourse DEF Try
<1>4. ASSUME NEW c \in Callers, chain[c].at = "generating",
             NEW e \in Endings(c), NEW latency \in Latencies, NEW paid \in BOOLEAN,
             End(c, e, latency, paid)
      PROVE  CourseInv'
  <2> DEFINE k == chain[c]
             n == Ended(c, e, paid)
  <2>1. Reaches(k)
    BY <1>4 DEF CourseInv, OnCourse
  <2>2. n \in Chains /\ n.at = After(e) /\ n.visited = k.visited /\ n.todo = k.todo
    BY <1>4, EndType
  <2>3. Goes(c, n)
    BY <1>4, EndType
  <2>4. ReasonOf(e) \in Reasons
    BY DEF ReasonOf, Reasons
  <2>5. HardFallbackOn = Reasons => After(e) # "failed"
    BY <2>4 DEF After
  <2>6. Reaches(n) /\ Spared(n)
    BY <2>1, <2>2, <2>5 DEF Reaches, Spared
  <2> HIDE DEF n
  <2> QED
    BY <2>2, <2>3, <2>6, CourseKept DEF ChainInv
<1>5. ASSUME NEW c \in Callers, NEW plan \in Plans, Begin(c, plan) PROVE CourseInv'
  <2> DEFINE n == [at |-> "trying", todo |-> plan, visited |-> {}, attempts |-> 0, spent |-> 0,
                   until |-> now + Patience]
  <2>1. OnCourse(n)
    BY ChainAssumption DEF OnCourse, Reaches, Spared
  <2>2. chain' = [chain EXCEPT ![c] = n]
    BY <1>5 DEF Begin
  <2> HIDE DEF n
  <2> QED
    BY <2>1, <2>2 DEF CourseInv, ChainInv
<1>6. CASE UNCHANGED chain
  BY <1>6 DEF CourseInv
<1> QED
  BY <1>1, <1>2, <1>3, <1>4, <1>5, <1>6 DEF ChainNext, chainVars, Step

\* Under a policy that falls back on every reason, no chain gives up before the
\* foundation had its turn or the attempts ran out: a specialist that fails, is
\* refused by its breaker, too slow or too dear never denies a request.
THEOREM FoundationCorrect == ChainSpec => []FoundationTried
<1>1. ChainInit => CourseInv
  BY DEF ChainInit, CourseInv, OnCourse, Spared, Idle
<1>2. ChainSpec => [](ChainInv /\ CourseInv)
  BY <1>1, ChainStart, ChainStep, CourseStep, PTL DEF ChainSpec
<1>3. CourseInv => FoundationTried
  BY DEF CourseInv, OnCourse, Spared, FoundationTried
<1> QED
  BY <1>2, <1>3, PTL
==============================================================================
