--------------------------- MODULE DatasetsProofs ---------------------------
(***************************************************************************)
(* Machine-checked proofs about Operations and Datasets, for any           *)
(* interactions, subjects, families, texts, versions, approvers, batch     *)
(* sizes and split strategies.                                             *)
(***************************************************************************)
EXTENDS Datasets, FiniteSetTheorems, WellFoundedInduction, TLAPS

\* The tenant database and a build as records.
Tenants == [stored : SUBSET Interactions, fresh : SUBSET Interactions,
            gone : SUBSET Interactions, erased : SUBSET Subjects,
            manifests : [Versions -> Manifests \cup {None}]]
Builds == [at : {"constructing", "staging", "staged", "renamed"}, version : Versions,
           source : Versions \cup {None}, timed : BOOLEAN, golden : SUBSET Interactions,
           candidates : SUBSET Interactions,
           examples : SUBSET Interactions, content : Contents \cup {None}]
Tickets == [at : {"verified"}, version : Versions, row : Manifests]

\* A copy of the tenant database is one too, wherever it is kept.
Types ==
    /\ tenant \in Tenants /\ control \subseteq Versions
    /\ files \in [Versions -> Contents \cup {None}]
    /\ backup # None => backup.tenant \in Tenants /\ backup.control \subseteq Versions
    /\ holder \in {"backup", "publish", None}
    /\ holder = "backup" => copying \in Tenants
    /\ build = Idle \/ build \in Builds
    /\ used \subseteq Versions
    /\ approver \in [Approvers -> Tickets \cup {Idle}]

\* The manifests M of a tenant database: each one's version was handed out, to
\* no build that still runs, its files are there, and what was distilled keeps
\* to the splits of its source, which is registered too.
Registered(M, U, F, b) ==
    \A v \in Versions : M[v] # None =>
        /\ v \in U /\ F[v] = M[v].content
        /\ b.at # "idle" => v # b.version
        /\ M[v].source # None =>
             /\ M[M[v].source] # None
             /\ \A s \in Splits : M[v].content[s] \subseteq M[M[v].source].content[s]

\* So it is in the database, in the backup and in a copy that is being made.
Registers ==
    /\ Registered(tenant.manifests, used, files, build)
    /\ backup # None => Registered(backup.tenant.manifests, used, files, build)
    /\ holder = "backup" => Registered(copying.manifests, used, files, build)

\* PairConsistent of manifests M and trained versions c.
Paired(M, c) == \A v \in c : M[v] # None

Pairs ==
    /\ Paired(tenant.manifests, control)
    /\ backup # None => Paired(backup.tenant.manifests, backup.control)
    /\ holder = "backup" => Paired(copying.manifests, control)

\* What a build b knows: its examples, what it has staged of them, and that the
\* publish transaction it is in has seen every deletion.
BuildFits(b, t, h, U) ==
    /\ b.version \in U
    /\ b.examples \subseteq b.candidates
    /\ b.source # None /\ b.at # "constructing" => t.manifests[b.source] # None
    /\ b.at \in {"staged", "renamed"} =>
         /\ b.content \in Contents /\ Rows(b.content) \subseteq b.examples
         /\ b.source = None =>
              /\ Rows(b.content) \cap b.golden = {}
              /\ \A i \in b.examples \ b.golden : \E j \in Rows(b.content) : Alike(i, j)
         /\ b.source # None =>
              \A s \in Splits : b.content[s] \subseteq t.manifests[b.source].content[s]
    /\ b.at = "renamed" =>
         h = "publish" /\ \A i \in Rows(b.content) : ~Tombstoned(t, i)

BuildOK == build # Idle => BuildFits(build, tenant, holder, used)

\* rotate_key has re-encrypted what it found up to its cursor; nothing of it can
\* come back, for what was deleted has a tombstone.
Rotated(r, t) ==
    /\ r.at \in {"idle", "running", "done"}
    /\ r.ceiling \in Nat /\ r.cursor \in Nat /\ r.present \subseteq t.stored \cup t.gone
    /\ r.at = "running" =>
         \A i \in r.present \cap t.stored : i <= r.ceiling /\ (i <= r.cursor => i \in t.fresh)
    /\ r.at = "done" => r.present \cap t.stored \subseteq t.fresh

Rotations == rotation \in [at : {"idle", "running", "done"}, ceiling : Nat, cursor : Nat,
                           present : SUBSET Interactions]
RotationOK == Rotations /\ Rotated(rotation, tenant)

\* The inductive invariant.
DInv == Types /\ Registers /\ Pairs /\ BuildOK /\ RotationOK

-----------------------------------------------------------------------------
(* The operators of the model *)

\* A non-empty set of naturals has a least element.
LEMMA Least ==
    ASSUME NEW S, S \subseteq Nat, S # {}
    PROVE  \E m \in S : \A n \in S : m <= n
<1>1. PICK m \in S : \A n \in S : ~(<<n, m>> \in OpToRel(<, Nat))
  BY NatLessThanWellFounded, WFMin, Zenon
<1>2. ASSUME NEW n \in S PROVE m <= n
  <2>1. m \in Nat /\ n \in Nat
    OBVIOUS
  <2>2. ~(n < m)
    BY <1>1, <2>1 DEF OpToRel
  <2> QED
    BY <2>1, <2>2
<1> QED
  BY <1>2

\* The last of some interactions is one of them.
LEMMA MaxIn ==
    ASSUME NEW I, I \subseteq Interactions, I # {}
    PROVE  Max(I) \in I /\ \A i \in I : i <= Max(I)
<1> DEFINE S == {Total - i : i \in I}
<1>0. Total \in Nat /\ \A i \in I : i \in Nat /\ i <= Total
  BY OperationsAssumption DEF Interactions
<1>1. S \subseteq Nat /\ S # {}
  BY <1>0
<1>2. PICK m \in S : \A k \in S : m <= k
  BY <1>1, Least
<1>3. PICK d \in I : m = Total - d
  BY <1>2
<1>4. ASSUME NEW i \in I PROVE d >= i
  <2>1. Total - d <= Total - i
    BY <1>2, <1>3
  <2> QED
    BY <1>0, <2>1
<1>5. Max(I) \in I /\ \A i \in I : Max(I) >= i
  BY <1>4 DEF Max
<1> QED
  BY <1>0, <1>5

\* What curation against golden keeps of I up to the n-th interaction.
Kept(I, golden, n, K) ==
    /\ K \subseteq I /\ \A i \in K : i <= n
    /\ \A i \in I : i <= n =>
          (i \in K <=> i \notin golden /\ ~ \E j \in K : j < i /\ Alike(i, j))

\* One more interaction is considered.
LEMMA KeptNext ==
    ASSUME NEW I, I \subseteq Nat, NEW golden, NEW n \in Nat, NEW K, Kept(I, golden, n, K)
    PROVE  \E L : Kept(I, golden, n + 1, L)
<1> DEFINE m == n + 1
           L == IF m \in I \ golden /\ ~ \E j \in K : Alike(m, j) THEN K \cup {m} ELSE K
<1>1. K \subseteq I /\ (\A i \in K : i <= n /\ i \in Nat) /\ m \in Nat
  BY DEF Kept
<1>2. L \subseteq I /\ \A i \in L : i <= m
  BY <1>1
<1>3. ASSUME NEW i \in I, i <= m
      PROVE  i \in L <=> i \notin golden /\ ~ \E j \in L : j < i /\ Alike(i, j)
  <2>1. CASE i <= n
    <3>1. i \in L <=> i \in K
      BY <2>1
    <3>2. (\E j \in L : j < i /\ Alike(i, j)) <=> (\E j \in K : j < i /\ Alike(i, j))
      BY <2>1
    <3> QED
      BY <2>1, <3>1, <3>2 DEF Kept
  <2>2. CASE ~(i <= n)
    <3>1. i = m
      BY <1>3, <2>2
    <3>2. m \notin K
      BY <1>1
    <3>3. m \in L <=> m \in I \ golden /\ ~ \E j \in K : Alike(m, j)
      BY <3>2
    <3>4. (\E j \in L : j < m /\ Alike(m, j)) <=> (\E j \in K : Alike(m, j))
      BY <1>1
    <3> QED
      BY <3>1, <3>3, <3>4
  <2> QED
    BY <2>1, <2>2
<1> QED
  BY <1>2, <1>3 DEF Kept

\* Curation is defined: the loop over the examples computes its answer.
LEMMA CuratedIs ==
    ASSUME NEW I, I \subseteq Interactions, NEW golden
    PROVE  /\ Curated(I, golden) \subseteq I
           /\ \A i \in I : i \in Curated(I, golden) <=>
                 i \notin golden /\ ~ \E j \in Curated(I, golden) : j < i /\ Alike(i, j)
<1>0. Total \in Nat /\ I \subseteq Nat /\ \A i \in I : i <= Total /\ 0 < i
  BY OperationsAssumption DEF Interactions
<1> DEFINE S == {n \in Nat : ~ \E K : Kept(I, golden, n, K)}
<1>1. S = {}
  <2> SUFFICES ASSUME S # {} PROVE FALSE
    OBVIOUS
  <2>1. PICK m \in S : \A n \in S : m <= n
    BY Least
  <2>2. m # 0
    <3>1. Kept(I, golden, 0, {})
      BY <1>0 DEF Kept
    <3> QED
      BY <3>1
  <2>3. m - 1 \in Nat /\ m - 1 \notin S
    BY <2>1, <2>2
  <2>4. PICK K : Kept(I, golden, m - 1, K)
    BY <2>3
  <2>5. \E L : Kept(I, golden, (m - 1) + 1, L)
    BY <1>0, <2>3, <2>4, KeptNext
  <2>6. (m - 1) + 1 = m
    BY <2>1
  <2> QED
    BY <2>5, <2>6
<1>2. PICK K : Kept(I, golden, Total, K)
  BY <1>0, <1>1
<1>3. K \in SUBSET I /\ \A i \in I : i \in K <=> i \notin golden /\ ~ \E j \in K : j < i /\ Alike(i, j)
  BY <1>0, <1>2 DEF Kept
<1> QED
  BY <1>3 DEF Curated

\* Nothing contaminated stays; what else curation removes has something alike
\* that stays.
LEMMA CuratedCovers ==
    ASSUME NEW I, I \subseteq Interactions, NEW golden
    PROVE  /\ Curated(I, golden) \cap golden = {}
           /\ \A i \in I \ golden : \E j \in Curated(I, golden) : Alike(i, j)
<1>1. \A i : Alike(i, i)
  BY DEF Alike
<1> QED
  BY <1>1, CuratedIs

\* A split distributes exactly the examples it is given.
LEMMA SplitsCover ==
    ASSUME NEW I, I \subseteq Interactions, NEW timed, NEW content \in SplitsOf(I, timed)
    PROVE  content \in Contents /\ Rows(content) = I
<1> DEFINE components == Components(I)
           Before(order, k) == Cardinality(UNION {order[j] : j \in 1..(k - 1)})
           Place(order, k) == IF timed THEN ByTime(order[k])
                              ELSE ByShare(Before(order, k), Cardinality(I))
<1>1. PICK order \in [1..Cardinality(components) -> components] :
          /\ {order[k] : k \in DOMAIN order} = components
          /\ content = [s \in Splits |->
                          UNION {order[k] : k \in {k \in DOMAIN order : Place(order, k) = s}}]
  BY DEF SplitsOf
<1>2. UNION components = I
  BY DEF Components
<1>3. \A k : Place(order, k) \in Splits
  BY DEF ByTime, ByShare, Splits
<1> HIDE DEF Place, components
<1>4. ASSUME NEW s \in Splits PROVE content[s] \subseteq I
  BY <1>1, <1>2
<1>5. ASSUME NEW i \in I PROVE \E s \in Splits : i \in content[s]
  <2>1. PICK k \in DOMAIN order : i \in order[k]
    BY <1>1, <1>2
  <2>2. i \in content[Place(order, k)]
    BY <1>1, <1>3, <2>1
  <2> QED
    BY <1>3, <2>2
<1>6. content \in Contents
  BY <1>1, <1>4 DEF Contents
<1>7. Rows(content) = I
  BY <1>4, <1>5 DEF Rows
<1> QED
  BY <1>6, <1>7

-----------------------------------------------------------------------------
(* Union-find *)

\* The parents P of the examples I form trees: W leads to the root of each, and
\* the height h falls on the way.
Forest(I, P, W, h) ==
    /\ P \in [I -> I] /\ W \in [I -> I] /\ h \in [I -> Nat]
    /\ \A x \in I : /\ W[x] = IF P[x] = x THEN x ELSE W[P[x]]
                    /\ P[W[x]] = W[x]
                    /\ P[x] # x => h[P[x]] < h[x]

\* Root is what W says.
LEMMA RootIs ==
    ASSUME NEW I, NEW P, NEW W, NEW h, Forest(I, P, W, h)
    PROVE  \A x \in I : Root(P, x) = W[x]
<1> DEFINE Eq(f) == f = [j \in DOMAIN P |-> IF P[j] = j THEN j ELSE f[P[j]]]
           R == CHOOSE f : Eq(f)
<1>1. P \in [I -> I] /\ W \in [I -> I] /\ h \in [I -> Nat] /\ DOMAIN P = I
  BY DEF Forest
<1>2. Eq(W)
  BY <1>1 DEF Forest
<1>3. Eq(R)
  BY <1>2
<1>4. \A x \in I : Root(P, x) = R[x]
  BY DEF Root
<1>5. \A x \in I : R[x] = IF P[x] = x THEN x ELSE R[P[x]]
  BY <1>1, <1>3
<1> HIDE DEF R
<1> DEFINE Bad == {x \in I : R[x] # W[x]}
           S == {h[x] : x \in Bad}
<1>6. Bad = {}
  <2> SUFFICES ASSUME Bad # {} PROVE FALSE
    OBVIOUS
  <2>1. S \subseteq Nat /\ S # {}
    BY <1>1
  <2>2. PICK m \in S : \A n \in S : m <= n
    BY <2>1, Least
  <2>3. PICK x \in Bad : m = h[x]
    BY <2>2
  <2>4. P[x] # x
    BY <1>5, <2>3 DEF Forest
  <2>5. h[P[x]] < h[x] /\ P[x] \in I
    BY <1>1, <2>3, <2>4 DEF Forest
  <2>6. P[x] \notin Bad
    <3> SUFFICES ASSUME P[x] \in Bad PROVE FALSE
      OBVIOUS
    <3>1. m <= h[P[x]]
      BY <2>2
    <3>2. m \in Nat /\ h[P[x]] \in Nat
      BY <1>1, <2>1, <2>2, <2>5
    <3> QED
      BY <2>3, <2>5, <3>1, <3>2
  <2>7. R[x] = R[P[x]] /\ W[x] = W[P[x]]
    BY <1>5, <2>3, <2>4 DEF Forest
  <2> QED
    BY <2>3, <2>5, <2>6, <2>7
<1> QED
  BY <1>4, <1>6

\* The trees of i and j are joined under the root of j.
Joined(I, W, i, j) == [x \in I |-> IF W[x] = W[i] THEN W[j] ELSE W[x]]
Raised(I, W, h, i, j) == [x \in I |-> IF W[x] = W[i] /\ W[i] # W[j] THEN h[x] + h[W[j]] + 1 ELSE h[x]]

LEMMA LinkedIs ==
    ASSUME NEW I, NEW P, NEW W, NEW h, Forest(I, P, W, h), NEW i \in I, NEW j \in I
    PROVE  Forest(I, Linked(P, i, j), Joined(I, W, i, j), Raised(I, W, h, i, j))
<1> DEFINE Q == Linked(P, i, j)
           V == Joined(I, W, i, j)
           g == Raised(I, W, h, i, j)
<1>1. P \in [I -> I] /\ W \in [I -> I] /\ h \in [I -> Nat] /\ W[i] \in I /\ W[j] \in I
  BY DEF Forest
<1>2. Q = [P EXCEPT ![W[i]] = W[j]]
  BY RootIs DEF Linked
<1>3. /\ \A x \in I : V[x] = IF W[x] = W[i] THEN W[j] ELSE W[x]
      /\ \A x \in I : g[x] = IF W[x] = W[i] /\ W[i] # W[j] THEN h[x] + h[W[j]] + 1 ELSE h[x]
  BY DEF Joined, Raised
<1>4. V \in [I -> I] /\ g \in [I -> Nat]
  BY <1>1 DEF Joined, Raised
<1>5. \A x \in I : W[W[x]] = W[x] /\ P[W[x]] = W[x] /\ W[x] \in I
  BY <1>1 DEF Forest
<1>6. Q \in [I -> I] /\ Q[W[i]] = W[j] /\ \A x \in I : x # W[i] => Q[x] = P[x]
  BY <1>1, <1>2
<1> HIDE DEF Q, V, g
<1>7. ASSUME NEW x \in I
      PROVE  /\ V[x] = IF Q[x] = x THEN x ELSE V[Q[x]]
             /\ Q[V[x]] = V[x]
             /\ Q[x] # x => g[Q[x]] < g[x]
  <2>1. W[x] = (IF P[x] = x THEN x ELSE W[P[x]]) /\ (P[x] # x => h[P[x]] < h[x]) /\ P[x] \in I
    BY <1>1 DEF Forest
  <2>2. Q[V[x]] = V[x]
    BY <1>3, <1>5, <1>6
  <2>3. CASE x = W[i]
    <3>1. W[x] = x /\ Q[x] = W[j] /\ V[x] = W[j] /\ V[W[j]] = W[j]
      BY <1>3, <1>5, <1>6, <2>3
    <3>2. W[j] # x => g[W[j]] < g[x]
      <4> SUFFICES ASSUME W[j] # x PROVE g[W[j]] < g[x]
        OBVIOUS
      <4>1. g[W[j]] = h[W[j]] /\ g[x] = h[x] + h[W[j]] + 1
        BY <1>1, <1>3, <1>5, <2>3, <3>1
      <4>2. h[W[j]] \in Nat /\ h[x] \in Nat
        BY <1>1
      <4> QED
        BY <4>1, <4>2
    <3> QED
      BY <2>2, <3>1, <3>2
  <2>4. CASE x # W[i]
    <3>1. Q[x] = P[x]
      BY <1>6, <2>4
    <3>2. CASE P[x] = x
      BY <1>3, <2>1, <2>2, <2>4, <3>1, <3>2
    <3>3. CASE P[x] # x
      <4>1. W[x] = W[P[x]] /\ V[x] = V[P[x]]
        BY <1>3, <2>1, <3>3
      <4>2. h[P[x]] < h[x] /\ h[P[x]] \in Nat /\ h[x] \in Nat /\ h[W[j]] \in Nat
        BY <1>1, <2>1, <3>3
      <4>3. g[P[x]] < g[x]
        <5>1. CASE W[x] = W[i] /\ W[i] # W[j]
          <6>1. g[x] = h[x] + h[W[j]] + 1 /\ g[P[x]] = h[P[x]] + h[W[j]] + 1
            BY <1>3, <2>1, <4>1, <5>1
          <6> QED
            BY <4>2, <6>1
        <5>2. CASE ~(W[x] = W[i] /\ W[i] # W[j])
          <6>1. g[x] = h[x] /\ g[P[x]] = h[P[x]]
            BY <1>3, <2>1, <4>1, <5>2
          <6> QED
            BY <4>2, <6>1
        <5> QED
          BY <5>1, <5>2
      <4> QED
        BY <2>2, <3>1, <3>3, <4>1, <4>3
    <3> QED
      BY <3>2, <3>3
  <2> QED
    BY <2>3, <2>4
<1>8. Forest(I, Q, V, g)
  BY <1>4, <1>6, <1>7 DEF Forest
<1> QED
  BY <1>8 DEF Q, V, g


\* The keys of the examples I, and the visits of split_examples.
KeysIn(I) == UNION {KeysOf(i) : i \in I}

\* After the visits T to examples with keys: g's trees have, for each key, all
\* its examples in the tree of the last of them.
Tracks(I, T, g) ==
    /\ g.seen \in [KeysIn(I) -> I \cup {None}]
    /\ \E W, h : /\ Forest(I, g.parents, W, h)
                 /\ \A x \in I, k \in KeysIn(I) : <<x, k>> \in T =>
                       g.seen[k] # None /\ W[x] = W[g.seen[k]]

\* One visit.
LEMMA VisitTracks ==
    ASSUME NEW I, I \subseteq Interactions, NEW T, NEW g, Tracks(I, T, g),
           NEW i \in I, NEW k \in KeysIn(I)
    PROVE  Tracks(I, T \cup {<<i, k>>}, Visit(g, i, k))
<1>0. None \notin I
  BY OperationsAssumption
<1>1. PICK W, h : /\ Forest(I, g.parents, W, h)
                  /\ \A x \in I, l \in KeysIn(I) : <<x, l>> \in T =>
                        g.seen[l] # None /\ W[x] = W[g.seen[l]]
  BY DEF Tracks
<1>2. g.seen \in [KeysIn(I) -> I \cup {None}]
  BY DEF Tracks
<1> DEFINE e == Visit(g, i, k)
<1>3. /\ e.seen = [g.seen EXCEPT ![k] = i]
      /\ e.parents = IF g.seen[k] = None THEN g.parents ELSE Linked(g.parents, i, g.seen[k])
  BY DEF Visit
<1> HIDE DEF e
<1>4. /\ e.seen \in [KeysIn(I) -> I \cup {None}] /\ e.seen[k] = i
      /\ \A l \in KeysIn(I) : l # k => e.seen[l] = g.seen[l]
  BY <1>2, <1>3
<1>5. CASE g.seen[k] = None
  <2>1. \A x \in I, l \in KeysIn(I) : <<x, l>> \in T \cup {<<i, k>>} =>
            e.seen[l] # None /\ W[x] = W[e.seen[l]]
    BY <1>0, <1>1, <1>4, <1>5
  <2> QED
    BY <1>1, <1>3, <1>4, <1>5, <2>1 DEF Tracks, e
<1>6. CASE g.seen[k] # None
  <2> DEFINE j == g.seen[k]
             V == Joined(I, W, i, j)
             f == Raised(I, W, h, i, j)
  <2>1. j \in I /\ e.parents = Linked(g.parents, i, j)
    BY <1>2, <1>3, <1>6
  <2>2. Forest(I, e.parents, V, f)
    BY <1>1, <2>1, LinkedIs
  <2>3. \A x \in I : V[x] = IF W[x] = W[i] THEN W[j] ELSE W[x]
    BY DEF Joined
  <2> HIDE DEF V, f
  <2>4. ASSUME NEW x \in I, NEW l \in KeysIn(I), <<x, l>> \in T \cup {<<i, k>>}
        PROVE  e.seen[l] # None /\ V[x] = V[e.seen[l]]
    <3>1. CASE <<x, l>> = <<i, k>>
      <4>1. x = i /\ l = k
        BY <3>1
      <4> QED
        BY <1>0, <1>4, <4>1
    <3>2. CASE <<x, l>> \in T
      <4>1. g.seen[l] \in I /\ W[x] = W[g.seen[l]]
        BY <1>1, <1>2, <3>2
      <4>2. CASE l = k
        <5>1. W[x] = W[j]
          BY <4>1, <4>2
        <5>2. V[x] = W[j] /\ V[i] = W[j]
          BY <2>3, <5>1
        <5> QED
          BY <1>0, <1>4, <4>2, <5>2
      <4>3. CASE l # k
        BY <1>0, <1>4, <2>3, <4>1, <4>3
      <4> QED
        BY <4>2, <4>3
    <3> QED
      BY <2>4, <3>1, <3>2
  <2>5. Tracks(I, T \cup {<<i, k>>}, e)
    BY <1>4, <2>2, <2>4 DEF Tracks
  <2> QED
    BY <2>5 DEF e
<1> QED
  BY <1>5, <1>6

\* The loop over n of the keys ks of i, from g.
KeyLoop(f, g, i, ks, n) == f = [m \in 0..n |-> IF m = 0 THEN g ELSE Visit(f[m - 1], i, ks[m])]

\* It ends.
LEMMA KeyLoopRuns ==
    ASSUME NEW g, NEW i, NEW ks, NEW N \in Nat
    PROVE  \E f : KeyLoop(f, g, i, ks, N)
<1> DEFINE S == {n \in Nat : ~ \E f : KeyLoop(f, g, i, ks, n)}
<1>1. S = {}
  <2> SUFFICES ASSUME S # {} PROVE FALSE
    OBVIOUS
  <2>1. PICK m \in S : \A n \in S : m <= n
    BY Least
  <2>2. m # 0
    <3> DEFINE f == [n \in 0..0 |-> g]
    <3>1. KeyLoop(f, g, i, ks, 0)
      BY DEF KeyLoop
    <3> QED
      BY <3>1
  <2>3. m - 1 \in Nat /\ m - 1 \notin S
    BY <2>1, <2>2
  <2>4. PICK f : KeyLoop(f, g, i, ks, m - 1)
    BY <2>3
  <2> DEFINE e == [n \in 0..m |-> IF n = m THEN Visit(f[m - 1], i, ks[m]) ELSE f[n]]
  <2>5. ASSUME NEW n \in 0..m
        PROVE  e[n] = IF n = 0 THEN g ELSE Visit(e[n - 1], i, ks[n])
    <3>1. CASE n = m
      <4>1. e[m - 1] = f[m - 1]
        BY <2>1, <2>3
      <4> QED
        BY <2>2, <3>1, <4>1
    <3>2. CASE n # m
      <4>1. n \in 0..(m - 1) /\ (n # 0 => n - 1 \in 0..m /\ n - 1 # m)
        BY <2>1, <2>2, <3>2
      <4>2. f[n] = IF n = 0 THEN g ELSE Visit(f[n - 1], i, ks[n])
        BY <2>4, <4>1 DEF KeyLoop
      <4>3. e[n] = f[n] /\ (n # 0 => e[n - 1] = f[n - 1])
        BY <3>2, <4>1
      <4> QED
        BY <4>2, <4>3
    <3> QED
      BY <3>1, <3>2
  <2>6. KeyLoop(e, g, i, ks, m)
    BY <2>5 DEF KeyLoop
  <2> QED
    BY <2>1, <2>6
<1> QED
  BY <1>1


\* The keys of an example in some order.
LEMMA KeysInOrder ==
    ASSUME NEW i \in Interactions
    PROVE  LET n == Cardinality(KeysOf(i))
               ks == SetToSeq(KeysOf(i))
           IN  n \in Nat /\ ks \in [1..n -> KeysOf(i)] /\ \A k \in KeysOf(i) : \E m \in 1..n : ks[m] = k
<1> DEFINE K == KeysOf(i)
           F == {<<"family", f>> : f \in FamiliesOf[i]}
           s == IF SubjectOf[i] = None THEN {} ELSE {<<"subject", SubjectOf[i]>>}
           n == Cardinality(K)
           ks == SetToSeq(K)
<1>1. IsFiniteSet(F)
  <2> DEFINE tag == [f \in FamiliesOf[i] |-> <<"family", f>>]
  <2>1. tag \in Surjection(FamiliesOf[i], F)
    BY DEF Surjection
  <2>2. IsFiniteSet(FamiliesOf[i])
    BY DatasetsAssumption
  <2> HIDE DEF tag, F
  <2> QED
    BY <2>1, <2>2, FS_Surjection
<1>2. IsFiniteSet(s)
  BY FS_EmptySet, FS_Singleton
<1>3. K = F \cup s
  BY DEF KeysOf
<1>4. IsFiniteSet(K)
  <2> HIDE DEF F, s, K
  <2> QED
    BY <1>1, <1>2, <1>3, FS_Union
<1> HIDE DEF K
<1>5. n \in Nat /\ IsFiniteSet(1..n) /\ Cardinality(1..n) = n
  <2>1. n \in Nat
    BY <1>4, FS_CardinalityType
  <2> HIDE DEF n
  <2>2. 1 \in Int /\ n \in Int
    BY <2>1
  <2>3. IsFiniteSet(1..n) /\ Cardinality(1..n) = IF 1 > n THEN 0 ELSE n - 1 + 1
    BY <2>2, FS_Interval
  <2> QED
    BY <2>1, <2>3
<1>6. \E f \in [1..n -> K] : IsInjective(f)
  <2>1. ExistsBijection(1..n, K)
    BY <1>4, FS_CardinalityType
  <2> QED
    BY <2>1 DEF ExistsBijection, Bijection, Injection
<1>7. ks \in [1..n -> K] /\ IsInjective(ks)
  BY <1>6 DEF SetToSeq
<1> HIDE DEF ks
<1>8. ks \in Surjection(1..n, K)
  <2>1. ks \in Injection(1..n, K)
    BY <1>7 DEF Injection
  <2> QED
    BY <1>4, <1>5, <2>1, FS_Injection
<1>9. \A k \in K : \E m \in 1..n : ks[m] = k
  BY <1>8 DEF Surjection
<1> QED
  BY <1>5, <1>7, <1>9 DEF K, ks

\* Fewer visits.
LEMMA TracksLess ==
    ASSUME NEW I, NEW T, NEW U, NEW g, Tracks(I, T, g), U \subseteq T
    PROVE  Tracks(I, U, g)
BY DEF Tracks

\* The visits of an example.
VisitsOf(i) == {<<i, k>> : k \in KeysOf(i)}

\* All visits of an example.
LEMMA VisitedTracks ==
    ASSUME NEW I, I \subseteq Interactions, NEW T, NEW g, Tracks(I, T, g), NEW i \in I
    PROVE  Tracks(I, T \cup VisitsOf(i), Visited(g, i))
<1> DEFINE n == Cardinality(KeysOf(i))
           ks == SetToSeq(KeysOf(i))
           after == CHOOSE f : KeyLoop(f, g, i, ks, n)
           Done(m) == T \cup {<<i, ks[l]>> : l \in 1..m}
<1>1. n \in Nat /\ ks \in [1..n -> KeysOf(i)] /\ \A k \in KeysOf(i) : \E m \in 1..n : ks[m] = k
  BY KeysInOrder
<1>2. Visited(g, i) = after[n]
  BY DEF Visited, KeyLoop
<1>3. KeyLoop(after, g, i, ks, n)
  BY <1>1, KeyLoopRuns
<1> HIDE DEF after, ks, n
<1>4. \A m \in 0..n : after[m] = IF m = 0 THEN g ELSE Visit(after[m - 1], i, ks[m])
  BY <1>3 DEF KeyLoop
<1>5. \A m \in 1..n : ks[m] \in KeysIn(I)
  BY <1>1 DEF KeysIn
<1> DEFINE S == {m \in 0..n : ~Tracks(I, Done(m), after[m])}
<1>6. S = {}
  <2> SUFFICES ASSUME S # {} PROVE FALSE
    OBVIOUS
  <2>1. PICK m \in S : \A l \in S : m <= l
    <3>1. S \subseteq Nat
      BY <1>1
    <3> QED
      BY <3>1, Least
  <2>2. m # 0
    <3>1. Done(0) = T
      OBVIOUS
    <3>2. after[0] = g
      BY <1>1, <1>4
    <3>3. Tracks(I, Done(0), after[0])
      BY <3>1, <3>2
    <3> QED
      BY <3>3
  <2>3. m - 1 \in 0..n /\ m - 1 \notin S /\ m \in 1..n
    <3>1. m \in 1..n /\ m - 1 \in 0..n /\ ~(m <= m - 1)
      BY <1>1, <2>1, <2>2
    <3> HIDE DEF S
    <3> QED
      BY <2>1, <3>1
  <2>4. Tracks(I, Done(m - 1), after[m - 1])
    BY <2>3
  <2>5. Tracks(I, Done(m - 1) \cup {<<i, ks[m]>>}, Visit(after[m - 1], i, ks[m]))
    BY <1>5, <2>3, <2>4, VisitTracks
  <2>6. Done(m) \subseteq Done(m - 1) \cup {<<i, ks[m]>>}
    BY <1>1, <2>3
  <2>7. after[m] = Visit(after[m - 1], i, ks[m])
    BY <1>4, <2>1, <2>2
  <2>8. Tracks(I, Done(m), after[m])
    BY <2>5, <2>6, <2>7, TracksLess
  <2> QED
    BY <2>1, <2>8
<1>7. Tracks(I, Done(n), after[n])
  <2>1. n \in 0..n
    BY <1>1
  <2> HIDE DEF Done
  <2> QED
    BY <1>6, <2>1
<1>8. T \cup VisitsOf(i) \subseteq Done(n)
  BY <1>1 DEF VisitsOf
<1> HIDE DEF Done
<1> QED
  BY <1>2, <1>7, <1>8, TracksLess


\* The loop over the first n interactions, of which those in I are examples.
Start(I) == [parents |-> [i \in I |-> i], seen |-> [k \in UNION {KeysOf(i) : i \in I} |-> None]]
ExampleLoop(f, I, n) ==
    f = [m \in 0..n |-> IF m = 0 THEN Start(I)
                        ELSE IF m \in I THEN Visited(f[m - 1], m) ELSE f[m - 1]]

\* It ends.
LEMMA ExampleLoopRuns ==
    ASSUME NEW I, NEW N \in Nat
    PROVE  \E f : ExampleLoop(f, I, N)
<1> DEFINE Step(g, m) == IF m \in I THEN Visited(g, m) ELSE g
           S == {n \in Nat : ~ \E f : ExampleLoop(f, I, n)}
<1>1. S = {}
  <2> SUFFICES ASSUME S # {} PROVE FALSE
    OBVIOUS
  <2>1. PICK m \in S : \A n \in S : m <= n
    BY Least
  <2>2. m # 0
    <3> DEFINE f == [n \in 0..0 |-> Start(I)]
    <3>1. ExampleLoop(f, I, 0)
      BY DEF ExampleLoop
    <3> QED
      BY <3>1
  <2>3. m - 1 \in Nat /\ m - 1 \notin S
    BY <2>1, <2>2
  <2>4. PICK f : ExampleLoop(f, I, m - 1)
    BY <2>3
  <2> DEFINE e == [n \in 0..m |-> IF n = m THEN Step(f[m - 1], m) ELSE f[n]]
  <2>5. ASSUME NEW n \in 0..m
        PROVE  e[n] = IF n = 0 THEN Start(I) ELSE Step(e[n - 1], n)
    <3>1. CASE n = m
      <4>1. e[m - 1] = f[m - 1]
        BY <2>1, <2>3
      <4> QED
        BY <2>2, <3>1, <4>1
    <3>2. CASE n # m
      <4>1. n \in 0..(m - 1) /\ (n # 0 => n - 1 \in 0..m /\ n - 1 # m)
        BY <2>1, <2>2, <3>2
      <4>2. f[n] = IF n = 0 THEN Start(I) ELSE Step(f[n - 1], n)
        BY <2>4, <4>1 DEF ExampleLoop
      <4>3. e[n] = f[n] /\ (n # 0 => e[n - 1] = f[n - 1])
        BY <3>2, <4>1
      <4> QED
        BY <4>2, <4>3
    <3> QED
      BY <3>1, <3>2
  <2>6. ExampleLoop(e, I, m)
    BY <2>5 DEF ExampleLoop
  <2> QED
    BY <2>1, <2>6
<1> QED
  BY <1>1

\* Union-find leaves trees with all examples of each key in one of them.
LEMMA GroupedTracks ==
    ASSUME NEW I, I \subseteq Interactions
    PROVE  \E W, h : /\ Forest(I, Grouped(I), W, h)
                     /\ \A x, y \in I : KeysOf(x) \cap KeysOf(y) # {} => W[x] = W[y]
<1> DEFINE after == CHOOSE f : ExampleLoop(f, I, Total)
           Done(m) == UNION {VisitsOf(x) : x \in {y \in I : y <= m}}
<1>1. Total \in Nat /\ \A x \in I : x \in Nat /\ 0 < x /\ x <= Total
  BY OperationsAssumption DEF Interactions
<1>2. Grouped(I) = after[Total].parents
  BY DEF Grouped, ExampleLoop, Start
<1>3. ExampleLoop(after, I, Total)
  BY <1>1, ExampleLoopRuns
<1> HIDE DEF after
<1>4. \A m \in 0..Total : after[m] = IF m = 0 THEN Start(I)
                                     ELSE IF m \in I THEN Visited(after[m - 1], m) ELSE after[m - 1]
  BY <1>3 DEF ExampleLoop
<1> DEFINE S == {m \in 0..Total : ~Tracks(I, Done(m), after[m])}
<1>5. S = {}
  <2> SUFFICES ASSUME S # {} PROVE FALSE
    OBVIOUS
  <2>1. PICK m \in S : \A l \in S : m <= l
    <3>1. S \subseteq Nat
      BY <1>1
    <3> QED
      BY <3>1, Least
  <2>2. m # 0
    <3>1. Done(0) = {}
      BY <1>1
    <3>2. after[0] = Start(I)
      BY <1>1, <1>4
    <3>3. Tracks(I, {}, Start(I))
      <4> DEFINE P == [i \in I |-> i]
                 h == [i \in I |-> 0]
      <4>1. Start(I).parents = P /\ Start(I).seen = [k \in KeysIn(I) |-> None]
        BY DEF Start, KeysIn
      <4>2. Forest(I, P, P, h)
        BY DEF Forest
      <4> HIDE DEF P, h
      <4> QED
        BY <4>1, <4>2 DEF Tracks
    <3>4. Tracks(I, Done(0), after[0])
      BY <3>1, <3>2, <3>3
    <3> QED
      BY <3>4
  <2>3. m - 1 \in 0..Total /\ m - 1 \notin S /\ m \in 1..Total
    <3>1. m \in 1..Total /\ m - 1 \in 0..Total /\ ~(m <= m - 1)
      BY <1>1, <2>1, <2>2
    <3> HIDE DEF S
    <3> QED
      BY <2>1, <3>1
  <2>4. Tracks(I, Done(m - 1), after[m - 1])
    BY <2>3
  <2>5. CASE m \in I
    <3>1. Tracks(I, Done(m - 1) \cup VisitsOf(m), Visited(after[m - 1], m))
      BY <2>4, <2>5, VisitedTracks
    <3>2. Done(m) \subseteq Done(m - 1) \cup VisitsOf(m)
      <4>1. \A y \in I : y <= m => y <= m - 1 \/ y = m
        BY <1>1, <2>3
      <4> QED
        BY <4>1
    <3>3. after[m] = Visited(after[m - 1], m)
      BY <1>4, <2>1, <2>2, <2>5
    <3> QED
      BY <2>1, <3>1, <3>2, <3>3, TracksLess
  <2>6. CASE m \notin I
    <3>1. Done(m) \subseteq Done(m - 1)
      <4>1. \A y \in I : y <= m => y <= m - 1
        BY <1>1, <2>3, <2>6
      <4> QED
        BY <4>1
    <3>2. after[m] = after[m - 1]
      BY <1>4, <2>1, <2>2, <2>6
    <3> QED
      BY <2>1, <2>4, <3>1, <3>2, TracksLess
  <2> QED
    BY <2>5, <2>6
<1>6. Tracks(I, Done(Total), after[Total])
  <2>1. Total \in 0..Total
    BY <1>1
  <2> HIDE DEF Done
  <2> QED
    BY <1>5, <2>1
<1>7. \A x \in I : \A k \in KeysOf(x) : <<x, k>> \in Done(Total) /\ k \in KeysIn(I)
  BY <1>1 DEF VisitsOf, KeysIn
<1> HIDE DEF Done
<1>8. PICK W, h : /\ Forest(I, after[Total].parents, W, h)
                  /\ \A x \in I, k \in KeysIn(I) : <<x, k>> \in Done(Total) =>
                        W[x] = W[after[Total].seen[k]]
  BY <1>6 DEF Tracks
<1>9. ASSUME NEW x \in I, NEW y \in I, KeysOf(x) \cap KeysOf(y) # {} PROVE W[x] = W[y]
  <2>1. PICK k : k \in KeysOf(x) /\ k \in KeysOf(y)
    BY <1>9
  <2>2. /\ <<x, k>> \in Done(Total) /\ <<y, k>> \in Done(Total) /\ k \in KeysIn(I)
    BY <1>7, <2>1
  <2>3. W[x] = W[after[Total].seen[k]] /\ W[y] = W[after[Total].seen[k]]
    BY <1>8, <2>2
  <2> QED
    BY <2>3
<1> QED
  BY <1>2, <1>8, <1>9

\* What union-find is for: no key is in two components.
ComponentsApart ==
    \A I \in SUBSET Interactions : \A C, D \in Components(I) :
        C # D => \A i \in C, j \in D : KeysOf(i) \cap KeysOf(j) = {}

\* The union-find of split_examples leaves no key in two components, whatever
\* the families and subjects and however examples are linked through others.
THEOREM UnionFindCorrect == ComponentsApart
<1> SUFFICES ASSUME NEW I \in SUBSET Interactions, NEW C \in Components(I), NEW D \in Components(I),
                    C # D, NEW i \in C, NEW j \in D, KeysOf(i) \cap KeysOf(j) # {}
             PROVE  FALSE
  BY DEF ComponentsApart
<1>1. PICK W, h : /\ Forest(I, Grouped(I), W, h)
                  /\ \A x, y \in I : KeysOf(x) \cap KeysOf(y) # {} => W[x] = W[y]
  BY GroupedTracks
<1>2. \A x \in I : Root(Grouped(I), x) = W[x]
  BY <1>1, RootIs
<1>3. PICK r : C = {x \in I : Root(Grouped(I), x) = r}
  BY DEF Components
<1>4. PICK q : D = {x \in I : Root(Grouped(I), x) = q}
  BY DEF Components
<1>5. i \in I /\ j \in I /\ W[i] = r /\ W[j] = q
  BY <1>2, <1>3, <1>4
<1>6. r = q
  BY <1>1, <1>5
<1> QED
  BY <1>3, <1>4, <1>6

-----------------------------------------------------------------------------
(* What keeps the invariant *)

\* A renamed build is alone: it holds the publish transaction.
LEMMA Alone ==
    ASSUME DInv, holder # "publish"
    PROVE  build.at # "renamed"
<1>1. CASE build = Idle
  BY <1>1 DEF Idle
<1>2. CASE build # Idle
  BY <1>2 DEF DInv, BuildOK, BuildFits
<1> QED
  BY <1>1, <1>2

\* A transaction that leaves the manifests alone: saves, deletions, batches.
LEMMA StoreKept ==
    ASSUME DInv, holder = None \/ tenant' = tenant,
           tenant' \in Tenants, tenant'.manifests = tenant.manifests,
           UNCHANGED <<control, files, backup, copying, holder, build, used, approver>>,
           RotationOK'
    PROVE  DInv'
<1>1. Types' /\ Registers' /\ Pairs'
  BY DEF DInv, Types, Registers, Pairs
<1>2. BuildOK'
  <2>1. CASE tenant' = tenant
    BY <2>1 DEF DInv, BuildOK
  <2>2. CASE holder = None
    <3>1. holder # "publish" /\ build.at # "renamed"
      BY <2>2, Alone, OperationsAssumption
    <3>2. BuildFits(build, tenant, holder, used) => BuildFits(build, tenant', holder, used)
      BY <3>1 DEF BuildFits
    <3> QED
      BY <3>2 DEF DInv, BuildOK
  <2> QED
    BY <2>1, <2>2
<1> QED
  BY <1>1, <1>2 DEF DInv

\* An interaction is saved, which was never deleted.
LEMMA SaveStep ==
    ASSUME DInv, NEW i \in Interactions, Save(i), UNCHANGED <<build, used, approver>>
    PROVE  DInv'
<1> DEFINE F == IF keyring = "new" THEN tenant.fresh \cup {i} ELSE tenant.fresh
<1>1. /\ holder = None /\ i \notin tenant.gone
      /\ tenant' = [tenant EXCEPT !.stored = tenant.stored \cup {i}, !.fresh = F]
      /\ UNCHANGED <<control, files, backup, copying, holder, rotation>>
  BY DEF Save, Writable, Tombstoned
<1>2. tenant \in Tenants /\ F \subseteq Interactions /\ tenant.fresh \subseteq F
  BY DEF DInv, Types, Tenants
<1> HIDE DEF F
<1>3. /\ tenant' \in Tenants /\ tenant'.manifests = tenant.manifests
      /\ tenant'.stored = tenant.stored \cup {i} /\ tenant'.fresh = F /\ tenant'.gone = tenant.gone
  BY <1>1, <1>2 DEF Tenants
<1>4. RotationOK'
  BY <1>1, <1>2, <1>3 DEF DInv, RotationOK, Rotations, Rotated
<1> QED
  BY <1>1, <1>3, <1>4, StoreKept

\* A deletion leaves a tombstone for whatever it takes away.
LEMMA EraseStep ==
    ASSUME DInv, NEW I, I \subseteq tenant.stored, NEW S, S \subseteq Subjects, Erase(I, S),
           UNCHANGED <<build, used, approver>>
    PROVE  DInv'
<1>1. /\ holder = None
      /\ tenant' = [tenant EXCEPT !.stored = tenant.stored \ I, !.fresh = tenant.fresh \ I,
                                  !.gone = tenant.gone \cup I, !.erased = tenant.erased \cup S]
      /\ UNCHANGED <<control, files, backup, copying, holder, rotation>>
  BY DEF Erase, Writable
<1>2. tenant \in Tenants
  BY DEF DInv, Types
<1>3. /\ tenant' \in Tenants /\ tenant'.manifests = tenant.manifests
      /\ tenant'.stored = tenant.stored \ I /\ tenant'.fresh = tenant.fresh \ I
      /\ tenant'.gone = tenant.gone \cup I
  BY <1>1, <1>2 DEF Tenants
<1>4. RotationOK'
  BY <1>1, <1>2, <1>3 DEF DInv, RotationOK, Rotations, Rotated
<1> QED
  BY <1>1, <1>3, <1>4, StoreKept

-----------------------------------------------------------------------------
(* Key rotation *)

\* The ceiling is above everything that is stored when the command starts.
LEMMA RotateStartStep ==
    ASSUME DInv, RotateStart, UNCHANGED <<build, used, approver>>
    PROVE  DInv'
<1> DEFINE ceiling == IF tenant.stored = {} THEN 0 ELSE Max(tenant.stored)
<1>1. /\ rotation' = [at |-> "running", cursor |-> 0, present |-> tenant.stored, ceiling |-> ceiling]
      /\ UNCHANGED <<tenant, control, files, backup, copying, holder>>
  BY DEF RotateStart
<1>2. tenant \in Tenants /\ tenant.stored \subseteq Interactions
  BY DEF DInv, Types, Tenants
<1>3. \A i \in Interactions : i \in Nat /\ ~(i <= 0)
  BY OperationsAssumption DEF Interactions
<1>4. ceiling \in Nat /\ \A i \in tenant.stored : i <= ceiling
  BY <1>2, <1>3, MaxIn
<1> HIDE DEF ceiling
<1>5. RotationOK'
  BY <1>1, <1>2, <1>3, <1>4 DEF RotationOK, Rotations, Rotated
<1> QED
  BY <1>1, <1>2, <1>5, StoreKept

\* A batch takes the lowest references, and only an empty rest gives an empty one.
LEMMA BatchTakes ==
    ASSUME DInv, NEW B \in Batches
    PROVE  /\ B \subseteq Unrotated /\ Unrotated \subseteq Interactions
           /\ \A i \in B, j \in Unrotated \ B : i < j
           /\ B = {} => Unrotated = {}
<1>1. B \subseteq Unrotated /\ \A i \in B, j \in Unrotated \ B : i < j
  BY DEF Batches
<1>2. Unrotated \subseteq Interactions
  BY DEF DInv, Types, Tenants, Unrotated
<1>3. ASSUME B = {} PROVE Unrotated = {}
  <2>1. IsFiniteSet(Unrotated)
    <3>1. IsFiniteSet(Interactions)
      BY OperationsAssumption, FS_Interval DEF Interactions
    <3> QED
      BY <1>2, <3>1, FS_Subset
  <2>2. Cardinality(Unrotated) \in Nat /\ (Cardinality(Unrotated) = 0 <=> Unrotated = {})
    BY <2>1, FS_CardinalityType, FS_EmptySet
  <2>3. Cardinality(B) = 0
    BY <1>3, FS_EmptySet
  <2>4. Cardinality(B) = IF Cardinality(Unrotated) < BatchSize THEN Cardinality(Unrotated)
                         ELSE BatchSize
    BY DEF Batches
  <2> QED
    BY <2>2, <2>3, <2>4, OperationsAssumption
<1> QED
  BY <1>1, <1>2, <1>3

\* A batch is re-encrypted and the cursor moves to its last reference, or the
\* command ends.
LEMMA RotateBatchStep ==
    ASSUME DInv, RotateBatch, UNCHANGED <<build, used, approver>>
    PROVE  DInv'
<1>1. PICK B \in Batches :
          IF B = {} THEN rotation' = [rotation EXCEPT !.at = "done"] /\ UNCHANGED tenant
          ELSE /\ tenant' = [tenant EXCEPT !.fresh = tenant.fresh \cup B]
               /\ rotation' = [rotation EXCEPT !.cursor = Max(B)]
  BY DEF RotateBatch
<1>2. /\ holder = None /\ rotation.at = "running"
      /\ UNCHANGED <<control, files, backup, copying, holder>>
  BY DEF RotateBatch, Writable
<1>3. /\ tenant \in Tenants /\ Rotations
      /\ \A i \in rotation.present \cap tenant.stored :
            i \in Nat /\ i <= rotation.ceiling /\ (i <= rotation.cursor => i \in tenant.fresh)
      /\ rotation.present \subseteq tenant.stored \cup tenant.gone
      /\ rotation.cursor \in Nat /\ rotation.ceiling \in Nat
  <2>1. \A i \in Interactions : i \in Nat
    BY OperationsAssumption DEF Interactions
  <2> QED
    BY <1>2, <2>1 DEF DInv, Types, RotationOK, Rotations, Rotated, Tenants
<1>4. \A i \in rotation.present \cap tenant.stored :
          i \in tenant.fresh \/ i \in Unrotated
  BY <1>3 DEF Unrotated
<1>5. CASE B = {}
  <2>1. rotation' = [rotation EXCEPT !.at = "done"] /\ UNCHANGED tenant
    BY <1>1, <1>5
  <2>2. rotation.present \cap tenant.stored \subseteq tenant.fresh
    BY <1>4, <1>5, BatchTakes
  <2>3. /\ Rotations' /\ rotation'.at = "done" /\ rotation'.cursor = rotation.cursor
        /\ rotation'.ceiling = rotation.ceiling /\ rotation'.present = rotation.present
    BY <1>2, <1>3, <2>1 DEF Rotations
  <2>4. RotationOK'
    BY <1>3, <2>1, <2>2, <2>3 DEF RotationOK, Rotated
  <2> QED
    BY <1>2, <1>3, <2>1, <2>4, StoreKept
<1>6. CASE B # {}
  <2>1. /\ tenant' = [tenant EXCEPT !.fresh = tenant.fresh \cup B]
        /\ rotation' = [rotation EXCEPT !.cursor = Max(B)]
    BY <1>1, <1>6
  <2>2. /\ B \subseteq Interactions /\ B \subseteq Unrotated
        /\ \A i \in B, j \in Unrotated \ B : i < j
    BY BatchTakes
  <2>3. Max(B) \in B /\ Max(B) \in Nat
    <3>1. Max(B) \in B
      BY <1>6, <2>2, MaxIn
    <3>2. \A i \in Interactions : i \in Nat
      BY OperationsAssumption DEF Interactions
    <3> QED
      BY <2>2, <3>1, <3>2
  <2>4. /\ tenant' \in Tenants /\ tenant'.manifests = tenant.manifests
        /\ tenant'.stored = tenant.stored /\ tenant'.gone = tenant.gone
        /\ tenant'.fresh = tenant.fresh \cup B
    BY <1>3, <2>1, <2>2 DEF Tenants
  <2>5. ASSUME NEW i \in rotation.present \cap tenant.stored, i <= Max(B)
        PROVE  i \in tenant.fresh \cup B
    <3>1. CASE i \in Unrotated /\ i \notin B
      <4>1. Max(B) < i
        BY <2>2, <2>3, <3>1
      <4> QED
        BY <1>3, <2>3, <2>5, <4>1
    <3> QED
      BY <1>4, <3>1
  <2>6. /\ Rotations' /\ rotation'.at = "running" /\ rotation'.cursor = Max(B)
        /\ rotation'.ceiling = rotation.ceiling /\ rotation'.present = rotation.present
    BY <1>2, <1>3, <2>1, <2>3 DEF Rotations
  <2>7. RotationOK'
    BY <1>3, <2>3, <2>4, <2>5, <2>6 DEF RotationOK, Rotated
  <2> QED
    BY <1>2, <2>4, <2>7, StoreKept
<1> QED
  BY <1>5, <1>6

\* A command that is over, or has not begun, promises nothing.
LEMMA NoRotationFits ==
    NoRotation \in [at : {"idle", "running", "done"}, ceiling : Nat, cursor : Nat,
                    present : SUBSET Interactions]
    /\ \A t : Rotated(NoRotation, t)
BY DEF NoRotation, Rotated

\* A failing batch ends the command.
LEMMA RotateFailStep ==
    ASSUME DInv, RotateFail, UNCHANGED <<build, used, approver>>
    PROVE  DInv'
<1>1. rotation' = NoRotation /\ UNCHANGED <<tenant, control, files, backup, copying, holder>>
  BY DEF RotateFail
<1>2. RotationOK'
  BY <1>1, NoRotationFits DEF RotationOK, Rotations
<1> QED
  BY <1>1, <1>2, StoreKept DEF DInv, Types

-----------------------------------------------------------------------------
(* Backup and restore *)

\* The tenant database is copied inside both transactions.
LEMMA BackupTenantStep ==
    ASSUME DInv, BackupTenant, UNCHANGED <<build, used, approver>>
    PROVE  DInv'
<1>1. /\ holder = None /\ copying' = tenant /\ holder' = "backup"
      /\ UNCHANGED <<tenant, control, files, backup, rotation>>
  BY DEF BackupTenant, Writable
<1>2. Types' /\ Registers' /\ Pairs'
  BY <1>1 DEF DInv, Types, Registers, Pairs
<1>3. BuildOK'
  <2>1. build.at # "renamed"
    BY <1>1, Alone, OperationsAssumption
  <2>2. BuildFits(build, tenant, holder, used) => BuildFits(build, tenant, holder', used)
    BY <2>1 DEF BuildFits
  <2> QED
    BY <1>1, <2>2 DEF DInv, BuildOK
<1>4. RotationOK'
  BY <1>1 DEF DInv, RotationOK, Rotations
<1> QED
  BY <1>2, <1>3, <1>4 DEF DInv

\* Both transactions end, and the pair is published or thrown away.
LEMMA BackupControlStep ==
    ASSUME DInv, NEW ok \in BOOLEAN, BackupControl(ok), UNCHANGED <<build, used, approver>>
    PROVE  DInv'
<1>1. /\ holder = "backup" /\ holder' = None
      /\ backup' = backup \/ backup' = [tenant |-> copying, control |-> control]
      /\ UNCHANGED <<tenant, control, files, rotation>>
  BY DEF BackupControl
<1>2. holder' # "backup" /\ holder # "publish"
  BY <1>1, OperationsAssumption
<1>3. Types' /\ Registers' /\ Pairs'
  <2>1. CASE backup' = backup
    BY <1>1, <1>2, <2>1 DEF DInv, Types, Registers, Pairs
  <2>2. CASE backup' = [tenant |-> copying, control |-> control]
    <3>1. backup'.tenant = copying /\ backup'.control = control
      BY <2>2
    <3> QED
      BY <1>1, <1>2, <3>1 DEF DInv, Types, Registers, Pairs
  <2> QED
    BY <1>1, <2>1, <2>2
<1>4. BuildOK'
  <2>1. build.at # "renamed"
    BY <1>2, Alone
  <2>2. BuildFits(build, tenant, holder, used) => BuildFits(build, tenant, holder', used)
    BY <2>1 DEF BuildFits
  <2> QED
    BY <1>1, <2>2 DEF DInv, BuildOK
<1>5. RotationOK'
  BY <1>1 DEF DInv, RotationOK, Rotations
<1> QED
  BY <1>3, <1>4, <1>5 DEF DInv

\* pg_dump sees one snapshot of both schemas.
LEMMA BackupPostgresStep ==
    ASSUME DInv, BackupPostgres, UNCHANGED <<build, used, approver>>
    PROVE  DInv'
<1>1. /\ backup' = [tenant |-> tenant, control |-> control]
      /\ UNCHANGED <<tenant, control, files, copying, holder, rotation>>
  BY DEF BackupPostgres
<1>2. backup'.tenant = tenant /\ backup'.control = control
  BY <1>1
<1>3. Types' /\ Registers' /\ Pairs'
  BY <1>1, <1>2 DEF DInv, Types, Registers, Pairs
<1> QED
  BY <1>1, <1>3 DEF DInv, BuildOK, RotationOK, Rotations

\* Both databases come from one backup, and its files are all still there.
LEMMA RestoreStep ==
    ASSUME DInv, Offline, Restore, UNCHANGED <<build, used, approver>>
    PROVE  DInv'
<1>1. /\ backup # None /\ holder = None /\ build = Idle
      /\ tenant' = backup.tenant /\ control' = backup.control /\ rotation' = NoRotation
      /\ UNCHANGED <<files, backup, copying, holder>>
  BY DEF Restore, Replaced, Offline
<1>2. holder # "backup"
  BY <1>1, OperationsAssumption
<1>3. Types' /\ Registers' /\ Pairs'
  BY <1>1, <1>2 DEF DInv, Types, Registers, Pairs
<1>4. BuildOK' /\ RotationOK'
  BY <1>1, NoRotationFits DEF BuildOK, RotationOK, Rotations
<1> QED
  BY <1>3, <1>4 DEF DInv

\* A crash ends whatever was under way.
LEMMA CrashStep ==
    ASSUME DInv, Crash
    PROVE  DInv'
<1>1. /\ build' = Idle /\ approver' = [a \in Approvers |-> Idle]
      /\ rotation' = NoRotation /\ holder' = None
      /\ UNCHANGED <<tenant, control, files, backup, used>>
  BY DEF Crash
<1>2. holder' # "backup"
  BY <1>1, OperationsAssumption
<1>3. Types' /\ Pairs'
  BY <1>1, <1>2 DEF DInv, Types, Pairs
<1>4. Registers'
  <2>1. \A M : Registered(M, used, files, build) => Registered(M, used, files, Idle)
    BY DEF Registered, Idle
  <2> QED
    BY <1>1, <1>2, <2>1 DEF DInv, Registers
<1>5. BuildOK' /\ RotationOK'
  BY <1>1, NoRotationFits DEF BuildOK, RotationOK, Rotations
<1> QED
  BY <1>3, <1>4, <1>5 DEF DInv

-----------------------------------------------------------------------------
(* The build *)

\* A build that is in progress is a record of its phase.
LEMMA BuildIs ==
    ASSUME DInv, build # Idle
    PROVE  build \in Builds /\ build.at # "idle" /\ BuildFits(build, tenant, holder, used)
BY DEF DInv, Types, Builds, BuildOK

\* A phase without a transaction: only the build moves.
LEMMA BuildMoves ==
    ASSUME DInv, UNCHANGED <<tenant, control, files, backup, copying, holder, rotation,
                             used, approver>>,
           build # Idle,
           build' = Idle \/ (build' \in Builds /\ build'.version = build.version),
           BuildOK'
    PROVE  DInv'
<1>1. \A M : Registered(M, used, files, build) => Registered(M, used, files, build')
  BY BuildIs DEF Registered, Idle, Builds
<1>2. Types' /\ Pairs' /\ RotationOK'
  BY DEF DInv, Types, Pairs, RotationOK, Rotations
<1>3. Registers'
  BY <1>1 DEF DInv, Registers
<1> QED
  BY <1>2, <1>3 DEF DInv

\* A build starts under a version that nobody has.
LEMMA BuildSnapshotStep ==
    ASSUME DInv, NEW v \in Versions, NEW source \in Versions \cup {None}, NEW timed \in Timings,
           NEW golden \in FixtureSets, BuildSnapshot(v, source, timed, golden)
    PROVE  DInv'
<1>1. /\ v \notin used /\ used' = used \cup {v}
      /\ build' = [at |-> "constructing", version |-> v, source |-> source, timed |-> timed,
                   golden |-> golden, candidates |-> Eligible, examples |-> {}, content |-> None]
      /\ UNCHANGED <<tenant, control, files, backup, copying, holder, rotation, approver>>
  BY DEF BuildSnapshot
<1>2. build' \in Builds
  <2>1. timed \in BOOLEAN /\ golden \subseteq Interactions
    BY DatasetsAssumption
  <2>2. Eligible \subseteq Interactions
    BY DEF DInv, Types, Tenants, Eligible
  <2> QED
    BY <1>1, <2>1, <2>2 DEF Builds
<1>3. Types' /\ Pairs' /\ RotationOK'
  BY <1>1, <1>2 DEF DInv, Types, Pairs, RotationOK, Rotations
<1>4. Registers'
  <2>1. \A M : Registered(M, used, files, build) => Registered(M, used', files, build')
    BY <1>1 DEF Registered
  <2> QED
    BY <1>1, <2>1 DEF DInv, Registers
<1>5. BuildOK'
  BY <1>1 DEF BuildOK, BuildFits
<1> QED
  BY <1>3, <1>4, <1>5 DEF DInv

\* What is constructed comes from the candidates.
LEMMA BuildConstructStep ==
    ASSUME DInv, BuildConstruct
    PROVE  DInv'
<1>1. /\ build.at = "constructing"
      /\ build.source # None => Source(build.source)
      /\ UNCHANGED <<tenant, control, files, backup, copying, holder, rotation, used, approver>>
  BY DEF BuildConstruct, storage
<1>2. PICK E : E \subseteq build.candidates
               /\ build' = [build EXCEPT !.at = "staging", !.examples = E]
  BY DEF BuildConstruct, Built, Distilled
<1>3. build # Idle
  BY <1>1 DEF Idle
<1>4. build \in Builds /\ BuildFits(build, tenant, holder, used)
  BY <1>3, BuildIs
<1>5. /\ build' \in Builds /\ build'.version = build.version /\ build'.source = build.source
      /\ build'.at = "staging" /\ build'.examples = E /\ build'.candidates = build.candidates
  BY <1>2, <1>4 DEF Builds
<1>6. BuildOK'
  BY <1>1, <1>2, <1>4, <1>5 DEF BuildOK, BuildFits, Source, Approved
<1> QED
  BY <1>1, <1>3, <1>5, <1>6, BuildMoves

\* An error ends the build.
LEMMA BuildFailsStep ==
    ASSUME DInv, BuildFails
    PROVE  DInv'
<1>1. /\ build # Idle /\ build' = Idle
      /\ UNCHANGED <<tenant, control, files, backup, copying, holder, rotation, used, approver>>
  BY DEF BuildFails, storage, Idle
<1> QED
  BY <1>1, BuildMoves DEF BuildOK

\* What _stage writes is its examples or what stands for them, and a distilled
\* dataset keeps the splits of its source.
LEMMA StagedFits ==
    ASSUME DInv, build.at = "staging", NEW content \in Staged(build)
    PROVE  /\ content \in Contents /\ Rows(content) \subseteq build.examples
           /\ build.source = None =>
                /\ Rows(content) \cap build.golden = {}
                /\ \A i \in build.examples \ build.golden : \E j \in Rows(content) : Alike(i, j)
           /\ build.source # None =>
                \A s \in Splits : content[s] \subseteq tenant.manifests[build.source].content[s]
<1>1. /\ build \in Builds /\ build.examples \subseteq Interactions
      /\ build.source # None => tenant.manifests[build.source] # None
  <2>1. build # Idle
    BY DEF Idle
  <2> QED
    BY <2>1, BuildIs DEF BuildFits, Builds
<1>2. CASE build.source = None
  <2>1. content \in SplitsOf(Curated(build.examples, build.golden), build.timed)
    BY <1>2 DEF Staged, Accepted
  <2>2. Curated(build.examples, build.golden) \subseteq build.examples
    BY <1>1, CuratedIs
  <2>3. content \in Contents /\ Rows(content) = Curated(build.examples, build.golden)
    BY <1>1, <2>1, <2>2, SplitsCover
  <2> QED
    BY <1>1, <1>2, <2>2, <2>3, CuratedCovers
<1>3. CASE build.source # None
  <2>1. content = [s \in Splits |-> tenant.manifests[build.source].content[s] \cap build.examples]
    BY <1>3 DEF Staged
  <2>2. \A s \in Splits : /\ content[s] \subseteq build.examples
                          /\ content[s] \subseteq tenant.manifests[build.source].content[s]
    BY <2>1
  <2>3. content \in Contents
    BY <1>1, <2>1, <2>2 DEF Contents
  <2> QED
    BY <1>3, <2>2, <2>3 DEF Rows
<1> QED
  BY <1>2, <1>3

\* Staging.
LEMMA BuildStageStep ==
    ASSUME DInv, BuildStage
    PROVE  DInv'
<1>1. /\ build.at = "staging"
      /\ UNCHANGED <<tenant, control, files, backup, copying, holder, rotation, used, approver>>
  BY DEF BuildStage, storage
<1>2. PICK content \in Staged(build) :
          build' = Idle \/ build' = [build EXCEPT !.at = "staged", !.content = content]
  BY DEF BuildStage
<1>3. build # Idle
  BY <1>1 DEF Idle
<1>4. build \in Builds /\ BuildFits(build, tenant, holder, used)
  BY <1>3, BuildIs
<1>5. CASE build' = Idle
  BY <1>1, <1>3, <1>5, BuildMoves DEF BuildOK
<1>6. CASE build' = [build EXCEPT !.at = "staged", !.content = content]
  <2>1. /\ content \in Contents /\ Rows(content) \subseteq build.examples
        /\ build.source = None =>
             /\ Rows(content) \cap build.golden = {}
             /\ \A i \in build.examples \ build.golden : \E j \in Rows(content) : Alike(i, j)
        /\ build.source # None =>
             \A s \in Splits : content[s] \subseteq tenant.manifests[build.source].content[s]
    BY <1>1, StagedFits
  <2>2. /\ build' \in Builds /\ build'.version = build.version /\ build'.source = build.source
        /\ build'.at = "staged" /\ build'.content = content /\ build'.golden = build.golden
        /\ build'.examples = build.examples /\ build'.candidates = build.candidates
    BY <1>4, <1>6, <2>1 DEF Builds
  <2>3. BuildOK'
    BY <1>1, <1>4, <2>1, <2>2 DEF BuildOK, BuildFits
  <2> QED
    BY <1>1, <1>3, <2>2, <2>3, BuildMoves
<1> QED
  BY <1>2, <1>5, <1>6

-----------------------------------------------------------------------------
(* Publication *)

\* The directory of a version that is not registered may come and go.
LEMMA FilesOfBuild ==
    ASSUME DInv, build # Idle, NEW c,
           NEW M \in [Versions -> Manifests \cup {None}], Registered(M, used, files, build),
           NEW b, b.at # "idle" => b.version = build.version
    PROVE  Registered(M, used, [files EXCEPT ![build.version] = c], b)
<1>1. files \in [Versions -> Contents \cup {None}]
  BY DEF DInv, Types
<1>2. \A v \in Versions : M[v] # None => v # build.version
  BY BuildIs DEF Registered
<1>3. \A v \in Versions : v # build.version => [files EXCEPT ![build.version] = c][v] = files[v]
  BY <1>1
<1> QED
  BY <1>2, <1>3 DEF Registered

\* The publish transaction ends the build, sends it back, or renames its
\* directory once it has seen that nothing of it was deleted.
LEMMA PublishBeginStep ==
    ASSUME DInv, PublishBegin
    PROVE  DInv'
<1>1. /\ holder = None /\ build.at = "staged"
      /\ UNCHANGED <<control, backup, copying, rotation, used, approver>>
  BY DEF PublishBegin, Writable
<1>2. build # Idle
  BY <1>1 DEF Idle
<1>3. build \in Builds /\ BuildFits(build, tenant, holder, used)
  BY <1>2, BuildIs
<1>4. CASE build' = Idle /\ UNCHANGED <<holder, tenant, files>>
  BY <1>1, <1>2, <1>4, BuildMoves DEF BuildOK
<1>5. CASE /\ build' = [build EXCEPT !.at = "staging", !.candidates = build.candidates \ Deleted,
                                     !.examples = build.examples \ Deleted]
           /\ UNCHANGED <<holder, tenant, files>>
  <2>1. /\ build' \in Builds /\ build'.version = build.version /\ build'.source = build.source
        /\ build'.at = "staging" /\ build'.examples = build.examples \ Deleted
        /\ build'.candidates = build.candidates \ Deleted
    BY <1>3, <1>5 DEF Builds
  <2>2. BuildOK'
    BY <1>1, <1>3, <1>5, <2>1 DEF BuildOK, BuildFits
  <2> QED
    BY <1>1, <1>2, <1>5, <2>1, <2>2, BuildMoves
<1>6. CASE /\ Deleted = {} /\ build' = [build EXCEPT !.at = "renamed"] /\ holder' = "publish"
           /\ files' = [files EXCEPT ![build.version] = build.content] /\ UNCHANGED tenant
  <2>1. /\ build' \in Builds /\ build'.version = build.version /\ build'.source = build.source
        /\ build'.at = "renamed" /\ build'.content = build.content
        /\ build'.examples = build.examples /\ build'.candidates = build.candidates
    BY <1>3, <1>6 DEF Builds
  <2>2. Types' /\ Pairs' /\ RotationOK'
    <3>1. build.content \in Contents
      BY <1>1, <1>3 DEF BuildFits
    <3>2. files' \in [Versions -> Contents \cup {None}]
      BY <1>6, <3>1 DEF DInv, Types
    <3> QED
      BY <1>1, <1>6, <2>1, <3>2 DEF DInv, Types, Pairs, RotationOK, Rotations
  <2>3. Registers'
    <3>1. \A M \in [Versions -> Manifests \cup {None}] :
             Registered(M, used, files, build) => Registered(M, used, files', build')
      BY <1>2, <1>6, <2>1, FilesOfBuild
    <3>2. /\ tenant.manifests \in [Versions -> Manifests \cup {None}]
          /\ backup # None => backup.tenant.manifests \in [Versions -> Manifests \cup {None}]
      BY DEF DInv, Types, Tenants
    <3> QED
      BY <1>1, <1>6, <3>1, <3>2 DEF DInv, Registers
  <2>4. BuildOK'
    <3>1. \A i \in Rows(build.content) : ~Tombstoned(tenant, i)
      BY <1>1, <1>3, <1>6 DEF Deleted, BuildFits
    <3> QED
      BY <1>1, <1>3, <1>6, <2>1, <3>1 DEF BuildOK, BuildFits
  <2> QED
    BY <2>2, <2>3, <2>4 DEF DInv
<1> QED
  BY <1>4, <1>5, <1>6 DEF PublishBegin, Renamed

\* The row of the build is a manifest.
LEMMA RowFits ==
    ASSUME DInv, build.at = "renamed"
    PROVE  /\ build # Idle /\ holder = "publish" /\ build.version \in Versions
           /\ build.version \in used /\ tenant.manifests[build.version] = None
           /\ Row(build) \in Manifests /\ Row(build) # None /\ build.content \in Contents
<1>1. build # Idle
  BY DEF Idle
<1>2. build \in Builds /\ build.at # "idle" /\ BuildFits(build, tenant, holder, used)
  BY <1>1, BuildIs
<1>3. build.version \in Versions /\ build.source \in Versions \cup {None}
  BY <1>2 DEF Builds
<1>4. build.content \in Contents /\ holder = "publish" /\ build.version \in used
  BY <1>2 DEF BuildFits
<1>5. Row(build) \in Manifests
  BY <1>3, <1>4 DEF Row, Manifests
<1>6. tenant.manifests[build.version] = None
  BY <1>2, <1>3 DEF DInv, Registers, Registered
<1> QED
  BY <1>1, <1>3, <1>4, <1>5, <1>6, ManifestAssumption

\* With the row of the build the manifests are still registered.
LEMMA RowRegistered ==
    ASSUME DInv, build.at = "renamed"
    PROVE  Registered([tenant.manifests EXCEPT ![build.version] = Row(build)], used,
                      [files EXCEPT ![build.version] = build.content], Idle)
<1> DEFINE w == build.version
           M == tenant.manifests
           N == [M EXCEPT ![w] = Row(build)]
           F == [files EXCEPT ![w] = build.content]
<1>1. M \in [Versions -> Manifests \cup {None}] /\ files \in [Versions -> Contents \cup {None}]
  BY DEF DInv, Types, Tenants
<1>2. w \in Versions /\ w \in used /\ M[w] = None /\ Row(build) # None /\ build # Idle
  BY RowFits
<1>3. build \in Builds /\ BuildFits(build, tenant, holder, used)
  BY <1>2, BuildIs
<1>4. /\ N[w] = Row(build) /\ F[w] = build.content
      /\ \A v \in Versions : v # w => N[v] = M[v] /\ F[v] = files[v]
  BY <1>1, <1>2
<1>5. Row(build).content = build.content /\ Row(build).source = build.source
  BY DEF Row
<1>6. Registered(M, used, files, build)
  BY DEF DInv, Registers
<1>7. Idle.at = "idle"
  BY DEF Idle
<1>8. build.source # None =>
          /\ build.source \in Versions /\ M[build.source] # None
          /\ \A s \in Splits : build.content[s] \subseteq M[build.source].content[s]
  BY <1>3 DEF BuildFits, Builds
<1>9. \A v \in Versions : M[v] # None => M[v].source \in Versions \cup {None}
  BY <1>1 DEF Manifests
<1> HIDE DEF N, F, M, w
<1>10. ASSUME NEW v \in Versions, N[v] # None
       PROVE  /\ v \in used /\ F[v] = N[v].content
              /\ N[v].source # None =>
                   /\ N[N[v].source] # None
                   /\ \A s \in Splits : N[v].content[s] \subseteq N[N[v].source].content[s]
  <2>1. CASE v = w
    BY <1>2, <1>4, <1>5, <1>8, <2>1
  <2>2. CASE v # w
    <3>1. N[v] = M[v] /\ F[v] = files[v] /\ M[v] # None
      BY <1>4, <1>10, <2>2
    <3>2. /\ v \in used /\ files[v] = M[v].content
          /\ M[v].source # None =>
                /\ M[M[v].source] # None
                /\ \A s \in Splits : M[v].content[s] \subseteq M[M[v].source].content[s]
      BY <1>6, <3>1 DEF Registered
    <3>3. M[v].source # None => N[M[v].source] = M[M[v].source]
      BY <1>2, <1>4, <1>9, <3>1, <3>2
    <3> QED
      BY <3>1, <3>2, <3>3
  <2> QED
    BY <2>1, <2>2
<1>11. Registered(N, used, F, Idle)
  BY <1>7, <1>10 DEF Registered
<1> QED
  BY <1>11 DEF N, F, M, w

\* A change of the manifests of the tenant database, and of nothing else in it.
LEMMA ManifestsChanged ==
    ASSUME NEW t \in Tenants, NEW M \in [Versions -> Manifests \cup {None}]
    PROVE  LET u == [t EXCEPT !.manifests = M]
           IN  /\ u \in Tenants /\ u.manifests = M /\ u.stored = t.stored /\ u.fresh = t.fresh
               /\ u.gone = t.gone /\ u.erased = t.erased
BY DEF Tenants

\* The transaction commits the row, or fails and the directory goes with it.
LEMMA PublishEndStep ==
    ASSUME DInv, NEW ok \in BOOLEAN, PublishEnd(ok)
    PROVE  DInv'
<1>1. /\ build.at = "renamed" /\ build' = Idle /\ holder' = None
      /\ UNCHANGED <<control, backup, copying, rotation, used, approver>>
  BY DEF PublishEnd
<1>2. /\ build # Idle /\ holder' # "backup" /\ build.version \in Versions
      /\ build.content \in Contents /\ Row(build) \in Manifests /\ Row(build) # None
  BY <1>1, RowFits, OperationsAssumption
<1>3. /\ tenant \in Tenants /\ tenant.manifests \in [Versions -> Manifests \cup {None}]
      /\ files \in [Versions -> Contents \cup {None}]
      /\ backup # None => backup.tenant.manifests \in [Versions -> Manifests \cup {None}]
  BY DEF DInv, Types, Tenants
<1>4. \A c, M : M \in [Versions -> Manifests \cup {None}] /\ Registered(M, used, files, build) =>
          Registered(M, used, [files EXCEPT ![build.version] = c], Idle)
  <2>1. Idle.at = "idle"
    BY DEF Idle
  <2> QED
    BY <1>2, <2>1, FilesOfBuild
<1>5. BuildOK'
  BY <1>1 DEF BuildOK
<1>6. CASE ok
  <2> DEFINE N == [tenant.manifests EXCEPT ![build.version] = Row(build)]
  <2>1. /\ tenant' = [tenant EXCEPT !.manifests = N]
        /\ files' = [files EXCEPT ![build.version] = build.content]
    BY <1>6 DEF PublishEnd
  <2>2. N \in [Versions -> Manifests \cup {None}]
    BY <1>2, <1>3
  <2>3. Registered(N, used, files', Idle)
    BY <1>1, <2>1, RowRegistered
  <2>4. \A v \in Versions : tenant.manifests[v] # None => N[v] # None
    BY <1>2, <1>3
  <2> HIDE DEF N
  <2>5. /\ tenant' \in Tenants /\ tenant'.manifests = N /\ tenant'.stored = tenant.stored
        /\ tenant'.fresh = tenant.fresh /\ tenant'.gone = tenant.gone
    BY <1>3, <2>1, <2>2, ManifestsChanged
  <2>6. Types'
    BY <1>1, <1>2, <1>3, <2>1, <2>5 DEF DInv, Types
  <2>7. Registers'
    BY <1>1, <1>2, <1>3, <1>4, <2>1, <2>3, <2>5 DEF DInv, Registers
  <2>8. Pairs'
    BY <1>1, <1>2, <2>4, <2>5 DEF DInv, Types, Pairs, Paired
  <2>9. RotationOK'
    BY <1>1, <2>5 DEF DInv, RotationOK, Rotations, Rotated
  <2> QED
    BY <1>5, <2>6, <2>7, <2>8, <2>9 DEF DInv
<1>7. CASE ~ok
  <2>1. files' = [files EXCEPT ![build.version] = None] /\ UNCHANGED tenant
    BY <1>7 DEF PublishEnd
  <2>2. Types' /\ Pairs' /\ RotationOK'
    BY <1>1, <1>2, <1>3, <2>1 DEF DInv, Types, Pairs, RotationOK, Rotations
  <2>3. Registers'
    BY <1>1, <1>2, <1>3, <1>4, <2>1 DEF DInv, Registers
  <2> QED
    BY <1>5, <2>2, <2>3 DEF DInv
<1> QED
  BY <1>6, <1>7

-----------------------------------------------------------------------------
(* Approval and use *)

\* An approver notes the row it has verified.
LEMMA ApproveReadStep ==
    ASSUME DInv, NEW a \in Approvers, NEW v \in Versions, ApproveRead(a, v)
    PROVE  DInv'
<1>1. /\ approver' = [approver EXCEPT ![a] = [at |-> "verified", version |-> v,
                                              row |-> tenant.manifests[v]]]
      /\ UNCHANGED <<tenant, control, files, backup, copying, holder, rotation, build, used>>
  BY DEF ApproveRead, storage
<1>2. [at |-> "verified", version |-> v, row |-> tenant.manifests[v]] \in Tickets
  BY DEF ApproveRead, Authentic, DInv, Types, Tenants, Tickets
<1>3. Types'
  BY <1>1, <1>2 DEF DInv, Types
<1> QED
  BY <1>1, <1>3 DEF DInv, Registers, Pairs, BuildOK, RotationOK, Rotations

\* The manifests with a's approval of v, one of them.
ApprovedBy(M, v, a) == [M EXCEPT ![v] = [M[v] EXCEPT !.approval = a]]

\* An approval changes nothing else of its manifest.
LEMMA ApprovalOnly ==
    ASSUME NEW M \in [Versions -> Manifests \cup {None}], NEW v \in Versions, M[v] # None,
           NEW a \in Approvers
    PROVE  /\ ApprovedBy(M, v, a) \in [Versions -> Manifests \cup {None}]
           /\ \A w \in Versions :
                /\ ApprovedBy(M, v, a)[w] = None <=> M[w] = None
                /\ M[w] # None => /\ ApprovedBy(M, v, a)[w].content = M[w].content
                                  /\ ApprovedBy(M, v, a)[w].source = M[w].source
                /\ w # v => ApprovedBy(M, v, a)[w] = M[w]
<1> DEFINE m == [M[v] EXCEPT !.approval = a]
<1>1. M[v] \in Manifests
  OBVIOUS
<1>2. m \in Manifests /\ m.content = M[v].content /\ m.source = M[v].source
  BY <1>1 DEF Manifests
<1>3. m # None
  BY <1>2, ManifestAssumption
<1> HIDE DEF m
<1>4. ApprovedBy(M, v, a) = [M EXCEPT ![v] = m]
  BY DEF m, ApprovedBy
<1> QED
  BY <1>2, <1>3, <1>4

\* What an approval does to the tenant database.
LEMMA ApprovalIs ==
    ASSUME DInv, NEW a \in Approvers, ApproveCommit(a)
    PROVE  \/ tenant' = tenant
           \/ \E v \in Versions :
                /\ tenant.manifests[v] # None /\ tenant.manifests[v].approval = None
                /\ tenant' = [tenant EXCEPT !.manifests = ApprovedBy(tenant.manifests, v, a)]
<1>1. CASE Current(a) /\ approver[a].row.approval = None
  <2> DEFINE v == approver[a].version
  <2>1. v \in Versions /\ approver[a].row \in Manifests
    <3>1. approver[a] \in Tickets \cup {Idle} /\ approver[a].at = "verified"
      BY DEF DInv, Types, ApproveCommit
    <3>2. approver[a] # Idle
      BY <3>1 DEF Idle
    <3> QED
      BY <3>1, <3>2 DEF Tickets
  <2>2. tenant.manifests[v] = approver[a].row
    BY <1>1 DEF Current
  <2>3. tenant' = [tenant EXCEPT !.manifests[v].approval = a]
    BY <1>1 DEF ApproveCommit
  <2> HIDE DEF v
  <2>4. tenant' = [tenant EXCEPT !.manifests = ApprovedBy(tenant.manifests, v, a)]
    BY <2>3 DEF ApprovedBy
  <2> QED
    BY <1>1, <2>1, <2>2, <2>4, ManifestAssumption
<1>2. CASE ~(Current(a) /\ approver[a].row.approval = None)
  BY <1>2 DEF ApproveCommit
<1> QED
  BY <1>1, <1>2

\* An approval is committed, or refused.
LEMMA ApproveCommitStep ==
    ASSUME DInv, NEW a \in Approvers, ApproveCommit(a)
    PROVE  DInv'
<1>1. /\ holder = None /\ approver' = [approver EXCEPT ![a] = Idle]
      /\ UNCHANGED <<control, files, backup, copying, holder, rotation, build, used>>
  BY DEF ApproveCommit, Writable
<1>2. holder # "backup" /\ build.at # "renamed"
  BY <1>1, Alone, OperationsAssumption
<1>3. tenant \in Tenants /\ tenant.manifests \in [Versions -> Manifests \cup {None}]
  BY DEF DInv, Types, Tenants
<1>4. approver' \in [Approvers -> Tickets \cup {Idle}]
  BY <1>1 DEF DInv, Types
<1>5. CASE tenant' = tenant
  <2>1. Types'
    BY <1>1, <1>4, <1>5 DEF DInv, Types
  <2> QED
    BY <1>1, <1>5, <2>1 DEF DInv, Registers, Pairs, BuildOK, RotationOK, Rotations
<1>6. ASSUME NEW v \in Versions, tenant.manifests[v] # None,
             tenant' = [tenant EXCEPT !.manifests = ApprovedBy(tenant.manifests, v, a)]
      PROVE  DInv'
  <2> DEFINE M == tenant.manifests
             N == ApprovedBy(M, v, a)
  <2>1. /\ N \in [Versions -> Manifests \cup {None}]
        /\ \A w \in Versions :
              /\ N[w] = None <=> M[w] = None
              /\ M[w] # None => N[w].content = M[w].content /\ N[w].source = M[w].source
    BY <1>3, <1>6, ApprovalOnly
  <2>2. \A w \in Versions : M[w] # None => M[w].source \in Versions \cup {None}
    BY <1>3 DEF Manifests
  <2> HIDE DEF N
  <2>3. /\ tenant' \in Tenants /\ tenant'.manifests = N /\ tenant'.stored = tenant.stored
        /\ tenant'.fresh = tenant.fresh /\ tenant'.gone = tenant.gone
    BY <1>3, <1>6, <2>1, ManifestsChanged DEF N
  <2> HIDE DEF M
  <2>4. Types'
    BY <1>1, <1>4, <2>3 DEF DInv, Types
  <2>5. Registers'
    <3>1. Registered(M, used, files, build)
      BY DEF DInv, Registers, M
    <3>2. Registered(N, used, files, build)
      BY <2>1, <2>2, <3>1 DEF Registered
    <3> QED
      BY <1>1, <1>2, <2>3, <3>2 DEF DInv, Registers
  <2>6. Pairs'
    BY <1>1, <1>2, <2>1, <2>3 DEF DInv, Types, Pairs, Paired, M
  <2>7. BuildOK'
    <3>1. CASE build = Idle
      BY <1>1, <3>1 DEF BuildOK
    <3>2. CASE build # Idle
      <4>1. build.source \in Versions \cup {None} /\ BuildFits(build, tenant, holder, used)
        BY <3>2, BuildIs DEF Builds
      <4>2. BuildFits(build, tenant', holder, used)
        BY <1>2, <2>1, <2>3, <4>1 DEF BuildFits, M
      <4> QED
        BY <1>1, <4>2 DEF BuildOK
    <3> QED
      BY <3>1, <3>2
  <2>8. RotationOK'
    BY <1>1, <2>3 DEF DInv, RotationOK, Rotations, Rotated
  <2> QED
    BY <2>4, <2>5, <2>6, <2>7, <2>8 DEF DInv
<1> QED
  BY <1>5, <1>6, ApprovalIs

\* A job takes a registered dataset, while no backup is between its copies.
LEMMA TrainStep ==
    ASSUME DInv, NEW v \in Versions, Train(v)
    PROVE  DInv'
<1>1. /\ tenant.manifests[v] # None /\ holder # "backup" /\ control' = control \cup {v}
      /\ UNCHANGED <<tenant, files, backup, copying, holder, rotation, build, used, approver>>
  BY DEF Train, Approved
<1> QED
  BY <1>1 DEF DInv, Types, Registers, Pairs, Paired, BuildOK, RotationOK, Rotations

-----------------------------------------------------------------------------
(* Every step keeps the invariant *)

\* The empty databases.
LEMMA InitDInv == Init => DInv
<1> SUFFICES ASSUME Init PROVE DInv
  OBVIOUS
<1>1. /\ tenant = Empty /\ control = {} /\ files = [v \in Versions |-> None] /\ backup = None
      /\ holder = None /\ rotation = NoRotation /\ build = Idle /\ used = {}
      /\ approver = [a \in Approvers |-> Idle]
  BY DEF Init, StorageInit
<1>2. tenant \in Tenants /\ \A v \in Versions : tenant.manifests[v] = None
  <2>1. 1..Initial \subseteq Interactions
    BY OperationsAssumption DEF Interactions
  <2> QED
    BY <1>1, <2>1 DEF Empty, Tenants
<1>3. holder # "backup"
  BY <1>1, OperationsAssumption
<1>4. Types
  BY <1>1, <1>2, <1>3 DEF Types
<1>5. Registers /\ Pairs
  BY <1>1, <1>2, <1>3 DEF Registers, Registered, Pairs, Paired
<1>6. BuildOK /\ RotationOK
  BY <1>1, NoRotationFits DEF BuildOK, RotationOK, Rotations
<1> QED
  BY <1>4, <1>5, <1>6 DEF DInv

\* Every step keeps the invariant.
LEMMA NextDInv == DInv /\ [Next]_vars => DInv'
<1> SUFFICES ASSUME DInv, [Next]_vars PROVE DInv'
  OBVIOUS
<1>1. CASE \E v \in Versions, source \in Versions \cup {None}, timed \in Timings,
              golden \in FixtureSets : BuildSnapshot(v, source, timed, golden)
  BY <1>1, BuildSnapshotStep
<1>2. CASE BuildConstruct \/ BuildStage \/ BuildFails \/ PublishBegin
  BY <1>2, BuildConstructStep, BuildStageStep, BuildFailsStep, PublishBeginStep
<1>3. CASE \E ok \in BOOLEAN : PublishEnd(ok)
  BY <1>3, PublishEndStep
<1>4. CASE \E a \in Approvers : ApproveCommit(a) \/ \E v \in Versions : ApproveRead(a, v)
  BY <1>4, ApproveCommitStep, ApproveReadStep
<1>5. CASE \E v \in Versions : Train(v)
  BY <1>5, TrainStep
<1>6. CASE Crash
  BY <1>6, CrashStep
<1>7. CASE StorageNext /\ UNCHANGED <<build, used, approver>>
  <2> USE <1>7
  <2>1. CASE \E i \in Interactions : Save(i)
    BY <2>1, SaveStep
  <2>2. CASE \E i \in Interactions : Delete(i)
    BY <2>2, EraseStep DEF Delete
  <2>3. CASE \E s \in Subjects : DeleteSubject(s)
    <3>1. PICK s \in Subjects : Erase({i \in tenant.stored : SubjectOf[i] = s}, {s})
      BY <2>3 DEF DeleteSubject
    <3>2. {i \in tenant.stored : SubjectOf[i] = s} \subseteq tenant.stored /\ {s} \subseteq Subjects
      OBVIOUS
    <3> QED
      BY <3>1, <3>2, EraseStep
  <2>4. CASE SwitchKey
    <3>1. UNCHANGED <<tenant, control, files, backup, copying, holder, rotation>>
      BY <2>4 DEF SwitchKey
    <3>2. RotationOK' /\ tenant' \in Tenants
      BY <3>1 DEF DInv, Types, RotationOK, Rotations
    <3> QED
      BY <3>1, <3>2, StoreKept
  <2>5. CASE RotateStart \/ RotateBatch \/ RotateFail
    BY <2>5, RotateStartStep, RotateBatchStep, RotateFailStep
  <2>6. CASE BackupTenant \/ (\E ok \in BOOLEAN : BackupControl(ok)) \/ BackupPostgres
    BY <2>6, BackupTenantStep, BackupControlStep, BackupPostgresStep
  <2> QED
    BY <2>1, <2>2, <2>3, <2>4, <2>5, <2>6 DEF StorageNext
<1>8. CASE Offline /\ Restore /\ UNCHANGED <<build, used, approver>>
  BY <1>8, RestoreStep
<1>9. CASE UNCHANGED vars
  BY <1>9 DEF vars, storage, DInv, Types, Registers, Pairs, BuildOK, RotationOK, Rotations
<1> QED
  BY <1>1, <1>2, <1>3, <1>4, <1>5, <1>6, <1>7, <1>8, <1>9 DEF Next

-----------------------------------------------------------------------------
(* What a step does to the tenant database and to its copies *)

\* Only a publication, an approval or a restore changes the manifests.
LEMMA TenantMoves ==
    ASSUME DInv, [Next]_vars
    PROVE  \/ /\ tenant'.manifests = tenant.manifests
              /\ tenant.fresh \subseteq tenant.stored => tenant'.fresh \subseteq tenant'.stored
           \/ /\ build.at = "renamed"
              /\ tenant' = [tenant EXCEPT !.manifests = [tenant.manifests EXCEPT
                                                            ![build.version] = Row(build)]]
           \/ /\ holder = None
              /\ \E a \in Approvers, v \in Versions :
                    /\ tenant.manifests[v] # None /\ tenant.manifests[v].approval = None
                    /\ tenant' = [tenant EXCEPT !.manifests = ApprovedBy(tenant.manifests, v, a)]
           \/ backup # None /\ build = Idle /\ tenant' = backup.tenant
<1>0. tenant \in Tenants
  BY DEF DInv, Types
<1>1. CASE \E v \in Versions, source \in Versions \cup {None}, timed \in Timings,
              golden \in FixtureSets : BuildSnapshot(v, source, timed, golden)
  BY <1>1 DEF BuildSnapshot
<1>2. CASE BuildConstruct \/ BuildStage \/ BuildFails \/ PublishBegin
  BY <1>2 DEF BuildConstruct, BuildStage, BuildFails, PublishBegin, Renamed, storage
<1>3. CASE \E ok \in BOOLEAN : PublishEnd(ok)
  BY <1>3 DEF PublishEnd
<1>4. CASE \E a \in Approvers : ApproveCommit(a) \/ \E v \in Versions : ApproveRead(a, v)
  <2>1. CASE \E a \in Approvers : ApproveCommit(a)
    <3>1. PICK a \in Approvers : ApproveCommit(a)
      BY <2>1
    <3>2. holder = None
      BY <3>1 DEF ApproveCommit, Writable
    <3> QED
      BY <3>1, <3>2, ApprovalIs
  <2>2. CASE \E a \in Approvers, v \in Versions : ApproveRead(a, v)
    BY <2>2 DEF ApproveRead, storage
  <2> QED
    BY <1>4, <2>1, <2>2
<1>5. CASE (\E v \in Versions : Train(v)) \/ Crash
  BY <1>5 DEF Train, Crash
<1>6. CASE StorageNext
  <2>1. CASE \E i \in Interactions : Save(i)
    <3>1. PICK i, F : /\ F \subseteq tenant.fresh \cup {i}
                      /\ tenant' = [tenant EXCEPT !.stored = tenant.stored \cup {i}, !.fresh = F]
      BY <2>1 DEF Save
    <3>2. /\ tenant'.manifests = tenant.manifests
          /\ tenant'.stored = tenant.stored \cup {i} /\ tenant'.fresh = F
      BY <1>0, <3>1 DEF Tenants
    <3> QED
      BY <3>1, <3>2
  <2>2. CASE \E I, S : Erase(I, S)
    <3>1. PICK I, S : Erase(I, S)
      BY <2>2
    <3>2. /\ tenant'.manifests = tenant.manifests
          /\ tenant'.stored = tenant.stored \ I /\ tenant'.fresh = tenant.fresh \ I
      BY <1>0, <3>1 DEF Erase, Tenants
    <3> QED
      BY <3>2
  <2>3. CASE RotateBatch
    <3>1. PICK B \in Batches :
             UNCHANGED tenant \/ tenant' = [tenant EXCEPT !.fresh = tenant.fresh \cup B]
      BY <2>3 DEF RotateBatch
    <3>2. B \subseteq tenant.stored
      BY DEF Batches, Unrotated
    <3>3. tenant' # tenant => /\ tenant'.manifests = tenant.manifests
                              /\ tenant'.stored = tenant.stored
                              /\ tenant'.fresh = tenant.fresh \cup B
      BY <1>0, <3>1 DEF Tenants
    <3> QED
      BY <3>2, <3>3
  <2>4. CASE SwitchKey \/ RotateStart \/ RotateFail
    BY <2>4 DEF SwitchKey, RotateStart, RotateFail
  <2>5. CASE BackupTenant \/ (\E ok \in BOOLEAN : BackupControl(ok)) \/ BackupPostgres
    BY <2>5 DEF BackupTenant, BackupControl, BackupPostgres
  <2> QED
    BY <1>6, <2>1, <2>2, <2>3, <2>4, <2>5 DEF StorageNext, Delete, DeleteSubject
<1>7. CASE Offline /\ Restore
  BY <1>7 DEF Offline, Restore, Replaced
<1>8. CASE UNCHANGED vars
  BY <1>8 DEF vars, storage
<1> QED
  BY <1>1, <1>2, <1>3, <1>4, <1>5, <1>6, <1>7, <1>8 DEF Next

\* A copy is a tenant database of before, and a backup is one of those.
LEMMA CopiesMove ==
    ASSUME DInv, [Next]_vars
    PROVE  /\ \/ backup' = backup
              \/ backup'.tenant = tenant
              \/ holder = "backup" /\ backup'.tenant = copying
           /\ holder' = "backup" =>
                copying' = tenant \/ (holder = "backup" /\ copying' = copying)
<1>1. CASE \E v \in Versions, source \in Versions \cup {None}, timed \in Timings,
              golden \in FixtureSets : BuildSnapshot(v, source, timed, golden)
  BY <1>1 DEF BuildSnapshot
<1>2. CASE BuildConstruct \/ BuildStage \/ BuildFails
  BY <1>2 DEF BuildConstruct, BuildStage, BuildFails, storage
<1>3. CASE PublishBegin
  BY <1>3 DEF PublishBegin
<1>4. CASE \E ok \in BOOLEAN : PublishEnd(ok)
  BY <1>4, OperationsAssumption DEF PublishEnd
<1>5. CASE \E a \in Approvers : ApproveCommit(a) \/ \E v \in Versions : ApproveRead(a, v)
  BY <1>5 DEF ApproveCommit, ApproveRead, storage
<1>6. CASE (\E v \in Versions : Train(v)) \/ Crash
  BY <1>6, OperationsAssumption DEF Train, Crash
<1>7. CASE StorageNext
  <2>1. CASE \E ok \in BOOLEAN : BackupControl(ok)
    BY <2>1, OperationsAssumption DEF BackupControl
  <2>2. CASE BackupTenant \/ BackupPostgres
    BY <2>2 DEF BackupTenant, BackupPostgres
  <2>3. CASE \/ \E i \in Interactions : Save(i) \/ Delete(i)
             \/ \E s \in Subjects : DeleteSubject(s)
    BY <2>3 DEF Save, Delete, DeleteSubject, Erase
  <2>4. CASE SwitchKey \/ RotateStart \/ RotateFail
    BY <2>4 DEF SwitchKey, RotateStart, RotateFail
  <2>5. CASE RotateBatch
    BY <2>5 DEF RotateBatch
  <2> QED
    BY <1>7, <2>1, <2>2, <2>3, <2>4, <2>5 DEF StorageNext
<1>8. CASE Restore
  BY <1>8 DEF Restore
<1>9. CASE UNCHANGED vars
  BY <1>9 DEF vars, storage
<1> QED
  BY <1>1, <1>2, <1>3, <1>4, <1>5, <1>6, <1>7, <1>8, <1>9 DEF Next

-----------------------------------------------------------------------------
(* The theorems *)

\* The databases, their copies, the files, the build and the rotation fit
\* together at all times.
THEOREM Invariance == Spec => []DInv
BY InitDInv, NextDInv, PTL DEF Spec

\* A rotation that ends leaves nothing it found under another key, whatever is
\* saved, deleted, backed up or restored meanwhile.
THEOREM RotationCorrect == Spec => []RotationComplete
<1>1. DInv => RotationComplete
  BY DEF DInv, RotationOK, Rotated, RotationComplete
<1> QED
  BY <1>1, Invariance, PTL

\* What the control database was trained on has its manifest in the tenant
\* database, across every backup and restore.
THEOREM PairCorrect == Spec => []PairConsistent
<1>1. DInv => PairConsistent
  BY DEF DInv, Pairs, Paired, PairConsistent
<1> QED
  BY <1>1, Invariance, PTL

\* Every registered dataset has its complete directory.
THEOREM FilesCorrect == Spec => []ManifestHasFiles
<1>1. DInv => ManifestHasFiles
  BY DEF DInv, Registers, Registered, ManifestHasFiles
<1> QED
  BY <1>1, Invariance, PTL

\* Each example that survives to the publish transaction is published, or
\* something alike is, unless the golden set the build names contaminates it;
\* and then it is not published.
THEOREM SurvivorsCorrect == Spec => []SurvivorsKept
<1>1. DInv => SurvivorsKept
  <2> SUFFICES ASSUME DInv, build.at = "renamed", build.source = None
               PROVE  /\ Rows(build.content) \cap build.golden = {}
                      /\ \A i \in build.examples \ build.golden :
                            \E j \in Rows(build.content) : Alike(i, j)
    BY DEF SurvivorsKept
  <2>1. build # Idle
    BY DEF Idle
  <2> QED
    BY <2>1, BuildIs DEF BuildFits
<1> QED
  BY <1>1, Invariance, PTL

\* No published dataset has an interaction deleted before its publish
\* transaction.
THEOREM CleanCorrect == Spec => PublishedIsClean
<1> DEFINE A == \A v \in Versions :
                   build.at = "renamed" /\ tenant'.manifests[v] # tenant.manifests[v] =>
                      \A i \in Rows(tenant'.manifests[v].content) : ~Tombstoned(tenant', i)
<1>1. DInv /\ [Next]_vars => A
  <2> SUFFICES ASSUME DInv, [Next]_vars, NEW v \in Versions, build.at = "renamed",
                      tenant'.manifests[v] # tenant.manifests[v],
                      NEW i \in Rows(tenant'.manifests[v].content)
               PROVE  ~Tombstoned(tenant', i)
    OBVIOUS
  <2> DEFINE N == [tenant.manifests EXCEPT ![build.version] = Row(build)]
  <2>1. /\ build # Idle /\ holder = "publish" /\ Row(build) \in Manifests
        /\ build.version \in Versions
    BY RowFits
  <2>2. tenant \in Tenants /\ tenant.manifests \in [Versions -> Manifests \cup {None}]
    BY DEF DInv, Types, Tenants
  <2>3. tenant' = [tenant EXCEPT !.manifests = N]
    BY <2>1, TenantMoves, OperationsAssumption
  <2>4. N \in [Versions -> Manifests \cup {None}]
    BY <2>1, <2>2
  <2>5. N[build.version] = Row(build) /\ \A w \in Versions : w # build.version => N[w] = tenant.manifests[w]
    BY <2>1, <2>2
  <2> HIDE DEF N
  <2>6. tenant'.manifests = N /\ tenant'.gone = tenant.gone /\ tenant'.erased = tenant.erased
    BY <2>2, <2>3, <2>4, ManifestsChanged
  <2>7. tenant'.manifests[v] = Row(build)
    BY <2>5, <2>6
  <2>8. Row(build).content = build.content
    BY DEF Row
  <2>9. ~Tombstoned(tenant, i)
    BY <2>1, <2>7, <2>8, BuildIs DEF BuildFits
  <2> QED
    BY <2>6, <2>9 DEF Tombstoned
<1>2. DInv /\ [Next]_vars => [A]_vars
  BY <1>1
<1> HIDE DEF A
<1>3. Spec => [][A]_vars
  BY <1>2, Invariance, PTL DEF Spec
<1> QED
  BY <1>3 DEF A, PublishedIsClean

\* No approval replaces another's actor.
THEOREM ApprovalCorrect == Spec => ApprovalStands
<1> DEFINE A == \/ backup # None /\ tenant' = backup.tenant
                \/ \A v \in Versions : Approved(v) => tenant'.manifests[v] = tenant.manifests[v]
<1>1. DInv /\ [Next]_vars => A
  <2> SUFFICES ASSUME DInv, [Next]_vars, ~(backup # None /\ tenant' = backup.tenant),
                      NEW v \in Versions, Approved(v)
               PROVE  tenant'.manifests[v] = tenant.manifests[v]
    OBVIOUS
  <2>1. /\ tenant \in Tenants /\ tenant.manifests \in [Versions -> Manifests \cup {None}]
        /\ tenant.manifests[v] # None /\ tenant.manifests[v].approval # None
    BY DEF DInv, Types, Tenants, Approved
  <2>2. CASE tenant'.manifests = tenant.manifests
    BY <2>2
  <2>3. CASE /\ build.at = "renamed"
             /\ tenant' = [tenant EXCEPT !.manifests = [tenant.manifests EXCEPT
                                                           ![build.version] = Row(build)]]
    <3> DEFINE N == [tenant.manifests EXCEPT ![build.version] = Row(build)]
    <3>1. /\ Row(build) \in Manifests /\ build.version \in Versions
          /\ tenant.manifests[build.version] = None
      BY <2>3, RowFits
    <3>2. N \in [Versions -> Manifests \cup {None}] /\ N[v] = tenant.manifests[v]
      BY <2>1, <3>1
    <3> HIDE DEF N
    <3>3. tenant'.manifests = N
      BY <2>1, <2>3, <3>2, ManifestsChanged DEF N
    <3> QED
      BY <3>2, <3>3
  <2>4. ASSUME NEW a \in Approvers, NEW w \in Versions,
               tenant.manifests[w] # None, tenant.manifests[w].approval = None,
               tenant' = [tenant EXCEPT !.manifests = ApprovedBy(tenant.manifests, w, a)]
        PROVE  tenant'.manifests[v] = tenant.manifests[v]
    <3>1. /\ ApprovedBy(tenant.manifests, w, a) \in [Versions -> Manifests \cup {None}]
          /\ ApprovedBy(tenant.manifests, w, a)[v] = tenant.manifests[v]
      BY <2>1, <2>4, ApprovalOnly
    <3>2. tenant'.manifests = ApprovedBy(tenant.manifests, w, a)
      BY <2>1, <2>4, <3>1, ManifestsChanged
    <3> QED
      BY <3>1, <3>2
  <2> QED
    BY <2>2, <2>3, <2>4, TenantMoves
<1>2. DInv /\ [Next]_vars => [A]_vars
  BY <1>1
<1> HIDE DEF A
<1>3. Spec => [][A]_vars
  BY <1>2, Invariance, PTL DEF Spec
<1> QED
  BY <1>3 DEF A, ApprovalStands

\* Only what is stored is under the new key, in every copy.
FreshStored ==
    /\ tenant.fresh \subseteq tenant.stored
    /\ backup # None => backup.tenant.fresh \subseteq backup.tenant.stored
    /\ holder = "backup" => copying.fresh \subseteq copying.stored

\* Every step keeps that.
LEMMA FreshStoredKept == DInv /\ FreshStored /\ [Next]_vars => FreshStored'
<1> SUFFICES ASSUME DInv, FreshStored, [Next]_vars PROVE FreshStored'
  OBVIOUS
<1>1. tenant \in Tenants /\ tenant.manifests \in [Versions -> Manifests \cup {None}]
  BY DEF DInv, Types, Tenants
<1>2. tenant.fresh \subseteq tenant.stored
  BY DEF FreshStored
<1>3. tenant'.fresh \subseteq tenant'.stored
  <2>1. CASE /\ build.at = "renamed"
             /\ tenant' = [tenant EXCEPT !.manifests = [tenant.manifests EXCEPT
                                                           ![build.version] = Row(build)]]
    <3> DEFINE N == [tenant.manifests EXCEPT ![build.version] = Row(build)]
    <3>1. N \in [Versions -> Manifests \cup {None}]
      BY <1>1, <2>1, RowFits
    <3> HIDE DEF N
    <3> QED
      BY <1>1, <1>2, <2>1, <3>1, ManifestsChanged DEF N
  <2>2. ASSUME NEW a \in Approvers, NEW v \in Versions, tenant.manifests[v] # None,
               tenant' = [tenant EXCEPT !.manifests = ApprovedBy(tenant.manifests, v, a)]
        PROVE  tenant'.fresh \subseteq tenant'.stored
    <3>1. ApprovedBy(tenant.manifests, v, a) \in [Versions -> Manifests \cup {None}]
      BY <1>1, <2>2, ApprovalOnly
    <3> QED
      BY <1>1, <1>2, <2>2, <3>1, ManifestsChanged
  <2>3. CASE backup # None /\ tenant' = backup.tenant
    BY <2>3 DEF FreshStored
  <2> QED
    BY <1>2, <2>1, <2>2, <2>3, TenantMoves
<1>4. /\ backup' # None => backup'.tenant.fresh \subseteq backup'.tenant.stored
      /\ holder' = "backup" => copying'.fresh \subseteq copying'.stored
  BY CopiesMove DEF FreshStored
<1> QED
  BY <1>3, <1>4 DEF FreshStored

\* Every variable has its type, and only stored payloads are under the new key.
THEOREM TypeCorrect == Spec => []TypeOK
<1>1. Init => FreshStored
  <2> SUFFICES ASSUME Init PROVE FreshStored
    OBVIOUS
  <2>1. tenant.fresh = {} /\ backup = None /\ holder = None
    BY DEF Init, StorageInit, Empty
  <2> QED
    BY <2>1, OperationsAssumption DEF FreshStored
<1>2. DInv /\ FreshStored => TypeOK
  BY DEF DInv, Types, Tenants, Builds, FreshStored, TypeOK
<1> QED
  BY <1>1, <1>2, FreshStoredKept, Invariance, PTL DEF Spec

-----------------------------------------------------------------------------
(* Splits *)

\* No key is on two sides of the splits of a dataset.
Apart(content) ==
    \A s, t \in Splits : s # t =>
        \A i \in content[s], j \in content[t] : KeysOf(i) \cap KeysOf(j) = {}

\* Every order of the components has each of them once.
LEMMA OrderIsInjective ==
    ASSUME NEW I, I \subseteq Interactions,
           NEW order \in [1..Cardinality(Components(I)) -> Components(I)],
           {order[k] : k \in DOMAIN order} = Components(I)
    PROVE  \A k, l \in DOMAIN order : order[k] = order[l] => k = l
<1> DEFINE components == Components(I)
           n == Cardinality(components)
           R(j) == Root(Grouped(I), j)
           Of(i) == {j \in I : R(j) = R(i)}
           f == [i \in I |-> Of(i)]
<1>1. IsFiniteSet(I)
  <2>1. IsFiniteSet(Interactions)
    BY OperationsAssumption, FS_Interval DEF Interactions
  <2> QED
    BY <2>1, FS_Subset
<1>2. components = {Of(i) : i \in I}
  <2>1. components = {{j \in I : R(j) = r} : r \in {R(i) : i \in I}}
    BY DEF Components
  <2> HIDE DEF components, R
  <2> QED
    BY <2>1
<1> HIDE DEF components, Of
<1>3. f \in Surjection(I, components)
  BY <1>2 DEF Surjection
<1>4. IsFiniteSet(components)
  BY <1>1, <1>3, FS_Surjection
<1>5. n \in Nat
  BY <1>4, FS_CardinalityType
<1> HIDE DEF n
<1>6. IsFiniteSet(1..n) /\ Cardinality(1..n) = n
  <2>1. 1 \in Int /\ n \in Int
    BY <1>5
  <2>2. IsFiniteSet(1..n) /\ Cardinality(1..n) = IF 1 > n THEN 0 ELSE n - 1 + 1
    BY <2>1, FS_Interval
  <2> QED
    BY <1>5, <2>2
<1>7. order \in Surjection(1..n, components)
  BY DEF Surjection, n, components
<1>8. order \in Injection(1..n, components)
  BY <1>6, <1>7, FS_Surjection DEF n
<1> QED
  BY <1>8 DEF Injection, IsInjective

\* A split that places whole components keeps the keys apart.
LEMMA SplitsApart ==
    ASSUME NEW I, I \subseteq Interactions, NEW timed,
           NEW content \in SplitsOf(I, timed)
    PROVE  Apart(content)
<1> DEFINE components == Components(I)
           Before(order, k) == Cardinality(UNION {order[j] : j \in 1..(k - 1)})
           Place(order, k) == IF timed THEN ByTime(order[k])
                              ELSE ByShare(Before(order, k), Cardinality(I))
<1>1. PICK order \in [1..Cardinality(components) -> components] :
          /\ {order[k] : k \in DOMAIN order} = components
          /\ content = [s \in Splits |->
                          UNION {order[k] : k \in {k \in DOMAIN order : Place(order, k) = s}}]
  BY DEF SplitsOf
<1>2. \A k, l \in DOMAIN order : order[k] = order[l] => k = l
  BY <1>1, OrderIsInjective
<1>3. \A C, D \in components : C # D => \A i \in C, j \in D : KeysOf(i) \cap KeysOf(j) = {}
  BY UnionFindCorrect DEF ComponentsApart
<1> HIDE DEF Place, components
<1>4. ASSUME NEW s \in Splits, NEW t \in Splits, s # t, NEW i \in content[s], NEW j \in content[t]
      PROVE  KeysOf(i) \cap KeysOf(j) = {}
  <2>1. PICK k \in DOMAIN order : Place(order, k) = s /\ i \in order[k]
    BY <1>1
  <2>2. PICK l \in DOMAIN order : Place(order, l) = t /\ j \in order[l]
    BY <1>1
  <2>3. k # l
    BY <1>4, <2>1, <2>2
  <2>4. order[k] # order[l] /\ order[k] \in components /\ order[l] \in components
    BY <1>1, <1>2, <2>3
  <2> QED
    BY <1>3, <2>1, <2>2, <2>4
<1> QED
  BY <1>4 DEF Apart

\* The registered datasets, their copies and what a build has staged are split
\* by components.
SplitOK ==
    /\ \A v \in Versions : tenant.manifests[v] # None => Apart(tenant.manifests[v].content)
    /\ backup # None => \A v \in Versions : backup.tenant.manifests[v] # None =>
                           Apart(backup.tenant.manifests[v].content)
    /\ holder = "backup" => \A v \in Versions : copying.manifests[v] # None =>
                               Apart(copying.manifests[v].content)
    /\ build.at \in {"staged", "renamed"} => Apart(build.content)

\* A part of each split keeps apart too.
LEMMA ApartDown ==
    ASSUME NEW c, NEW d, Apart(d), \A s \in Splits : c[s] \subseteq d[s]
    PROVE  Apart(c)
BY DEF Apart

\* The manifests of the tenant database stay split.
LEMMA TenantSplit ==
    ASSUME DInv, SplitOK, [Next]_vars
    PROVE  \A v \in Versions : tenant'.manifests[v] # None => Apart(tenant'.manifests[v].content)
<1>1. tenant \in Tenants /\ tenant.manifests \in [Versions -> Manifests \cup {None}]
  BY DEF DInv, Types, Tenants
<1>2. \A v \in Versions : tenant.manifests[v] # None => Apart(tenant.manifests[v].content)
  BY DEF SplitOK
<1>3. CASE /\ build.at = "renamed"
           /\ tenant' = [tenant EXCEPT !.manifests = [tenant.manifests EXCEPT
                                                         ![build.version] = Row(build)]]
  <2> DEFINE N == [tenant.manifests EXCEPT ![build.version] = Row(build)]
  <2>1. Row(build) \in Manifests /\ build.version \in Versions
    BY <1>3, RowFits
  <2>2. /\ N \in [Versions -> Manifests \cup {None}] /\ N[build.version] = Row(build)
        /\ \A v \in Versions : v # build.version => N[v] = tenant.manifests[v]
    BY <1>1, <2>1
  <2> HIDE DEF N
  <2>3. tenant'.manifests = N
    BY <1>1, <1>3, <2>2, ManifestsChanged DEF N
  <2>4. Apart(Row(build).content)
    BY <1>3 DEF Row, SplitOK
  <2> QED
    BY <1>2, <2>2, <2>3, <2>4
<1>4. ASSUME NEW a \in Approvers, NEW w \in Versions, tenant.manifests[w] # None,
             tenant' = [tenant EXCEPT !.manifests = ApprovedBy(tenant.manifests, w, a)]
      PROVE  \A v \in Versions : tenant'.manifests[v] # None => Apart(tenant'.manifests[v].content)
  <2>1. tenant'.manifests = ApprovedBy(tenant.manifests, w, a)
    BY <1>1, <1>4, ApprovalOnly, ManifestsChanged
  <2> QED
    BY <1>1, <1>2, <1>4, <2>1, ApprovalOnly
<1>5. CASE backup # None /\ tenant' = backup.tenant
  BY <1>5 DEF SplitOK
<1> QED
  BY <1>2, <1>3, <1>4, <1>5, TenantMoves

\* What a build has staged is from _stage, or as before.
LEMMA BuildContentMoves ==
    ASSUME DInv, [Next]_vars, build'.at \in {"staged", "renamed"}
    PROVE  \/ build.at = "staging" /\ build'.content \in Staged(build)
           \/ build.at \in {"staged", "renamed"} /\ build'.content = build.content
<1>0. build = Idle \/ build \in Builds
  BY DEF DInv, Types
<1>1. CASE \E v \in Versions, source \in Versions \cup {None}, timed \in Timings,
              golden \in FixtureSets : BuildSnapshot(v, source, timed, golden)
  BY <1>1 DEF BuildSnapshot
<1>2. CASE BuildConstruct
  <2>1. build # Idle
    BY <1>2 DEF BuildConstruct, Idle
  <2>2. PICK E : build' = [build EXCEPT !.at = "staging", !.examples = E]
    BY <1>2 DEF BuildConstruct
  <2>3. build'.at = "staging"
    BY <1>0, <2>1, <2>2 DEF Builds
  <2> QED
    BY <2>3
<1>3. CASE BuildStage
  <2>1. build.at = "staging" /\ build \in Builds
    BY <1>0, <1>3 DEF BuildStage, Idle
  <2>2. PICK content \in Staged(build) :
           build' = Idle \/ build' = [build EXCEPT !.at = "staged", !.content = content]
    BY <1>3 DEF BuildStage
  <2>3. build' # Idle
    BY DEF Idle
  <2>4. build'.content = content
    BY <2>1, <2>2, <2>3 DEF Builds
  <2> QED
    BY <2>1, <2>4
<1>4. CASE PublishBegin
  <2>1. build.at = "staged" /\ build \in Builds
    BY <1>0, <1>4 DEF PublishBegin, Idle
  <2>2. build' # Idle
    BY DEF Idle
  <2>3. build'.content = build.content
    BY <1>4, <2>1, <2>2 DEF PublishBegin, Builds
  <2> QED
    BY <2>1, <2>3
<1>5. CASE BuildFails \/ (\E ok \in BOOLEAN : PublishEnd(ok)) \/ Crash
  BY <1>5 DEF BuildFails, PublishEnd, Crash, Idle
<1>6. CASE UNCHANGED build
  BY <1>6
<1> QED
  BY <1>1, <1>2, <1>3, <1>4, <1>5, <1>6 DEF Next, ApproveCommit, ApproveRead, Train, vars

\* Every step keeps the splits apart.
LEMMA SplitOKKept == DInv /\ SplitOK /\ [Next]_vars => SplitOK'
<1> SUFFICES ASSUME DInv, SplitOK, [Next]_vars PROVE SplitOK'
  OBVIOUS
<1>1. \A v \in Versions : tenant'.manifests[v] # None => Apart(tenant'.manifests[v].content)
  BY TenantSplit
<1>2. /\ backup' # None => \A v \in Versions : backup'.tenant.manifests[v] # None =>
                              Apart(backup'.tenant.manifests[v].content)
      /\ holder' = "backup" => \A v \in Versions : copying'.manifests[v] # None =>
                                  Apart(copying'.manifests[v].content)
  BY CopiesMove DEF SplitOK
<1>3. ASSUME build'.at \in {"staged", "renamed"} PROVE Apart(build'.content)
  <2>1. CASE build.at \in {"staged", "renamed"} /\ build'.content = build.content
    BY <2>1 DEF SplitOK
  <2>2. CASE build.at = "staging" /\ build'.content \in Staged(build)
    <3>1. build \in Builds /\ (build.source # None => tenant.manifests[build.source] # None)
      <4>1. build # Idle
        BY <2>2 DEF Idle
      <4> QED
        BY <2>2, <4>1, BuildIs DEF BuildFits
    <3>2. CASE build.source = None
      <4>1. build'.content \in SplitsOf(Curated(build.examples, build.golden), build.timed)
        BY <2>2, <3>2 DEF Staged, Accepted
      <4>2. build.examples \subseteq Interactions
        BY <3>1 DEF Builds
      <4>3. Curated(build.examples, build.golden) \subseteq Interactions
        BY <4>2, CuratedIs
      <4> QED
        BY <4>1, <4>3, SplitsApart
    <3>3. CASE build.source # None
      <4>1. \A s \in Splits : build'.content[s] \subseteq tenant.manifests[build.source].content[s]
        BY <2>2, <3>3, StagedFits
      <4>2. Apart(tenant.manifests[build.source].content)
        BY <3>1, <3>3 DEF SplitOK, Builds
      <4> QED
        BY <4>1, <4>2, ApartDown
    <3> QED
      BY <3>2, <3>3
  <2> QED
    BY <1>3, <2>1, <2>2, BuildContentMoves
<1> QED
  BY <1>1, <1>2, <1>3 DEF SplitOK

\* No subject and no family is on two sides of a split of any registered
\* dataset, seeded or by time, staged again after a deletion, distilled, or
\* restored.
THEOREM SplitsCorrect == Spec => []SplitsDisjoint
<1>1. Init => SplitOK
  <2> SUFFICES ASSUME Init PROVE SplitOK
    OBVIOUS
  <2>1. /\ \A v \in Versions : tenant.manifests[v] = None
        /\ backup = None /\ holder = None /\ build.at = "idle"
    BY DEF Init, StorageInit, Empty, Idle
  <2> QED
    BY <2>1, OperationsAssumption DEF SplitOK
<1>2. DInv /\ SplitOK /\ [Next]_vars => SplitOK'
  BY SplitOKKept
<1>3. SplitOK => SplitsDisjoint
  BY DEF SplitOK, Apart, SplitsDisjoint
<1> QED
  BY <1>1, <1>2, <1>3, Invariance, PTL DEF Spec

\* What a dataset holds out stays held out of what is distilled from it: the
\* distilled train split is part of the source's, and those splits are disjoint.
THEOREM HeldOutCorrect == Spec => []HeldOutStaysOut
<1>1. DInv /\ SplitsDisjoint => HeldOutStaysOut
  <2> SUFFICES ASSUME DInv, SplitsDisjoint, NEW v \in Versions,
                      tenant.manifests[v] # None, tenant.manifests[v].source # None
               PROVE  LET source == tenant.manifests[tenant.manifests[v].source].content IN
                      \A i \in tenant.manifests[v].content["train"],
                         j \in source["validation"] \cup source["test"] :
                            KeysOf(i) \cap KeysOf(j) = {}
    BY DEF HeldOutStaysOut
  <2> DEFINE w == tenant.manifests[v].source
  <2>1. w \in Versions
    BY DEF DInv, Types, Tenants, Manifests
  <2>2. /\ tenant.manifests[w] # None
        /\ tenant.manifests[v].content["train"] \subseteq tenant.manifests[w].content["train"]
    BY DEF DInv, Registers, Registered, Splits
  <2> HIDE DEF w
  <2>3. Apart(tenant.manifests[w].content)
    BY <2>1, <2>2 DEF SplitsDisjoint, Apart
  <2>4. /\ \A i \in tenant.manifests[w].content["train"], j \in tenant.manifests[w].content["validation"] :
               KeysOf(i) \cap KeysOf(j) = {}
        /\ \A i \in tenant.manifests[w].content["train"], j \in tenant.manifests[w].content["test"] :
               KeysOf(i) \cap KeysOf(j) = {}
    BY <2>3 DEF Apart, Splits
  <2> QED
    BY <2>2, <2>4 DEF w
<1>2. Spec => []SplitsDisjoint
  BY SplitsCorrect
<1> QED
  BY <1>1, <1>2, Invariance, PTL
=============================================================================
