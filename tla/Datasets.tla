------------------------------ MODULE Datasets ------------------------------
(***************************************************************************)
(* The dataset factory: datasets/builder.py build (a snapshot, phases      *)
(* without locks, a publish transaction that looks for deletions again),   *)
(* curation.py, distillation/data.py, the approval of artifacts.py and the *)
(* use of an approved dataset by training, over the databases, backups and *)
(* files of Operations.                                                    *)
(***************************************************************************)
EXTENDS Operations

CONSTANTS
    FamiliesOf,      \* FamiliesOf[i]: the document families of i's sources
    TextOf,          \* TextOf[i]: a number for the text of its example
    Near,            \* sets of two texts that are near duplicates
    FixtureSets,     \* the golden sets a build may name, each as the interactions
                     \* whose input is too much like one of its texts
    Doubtful,        \* bound: the interactions whose examples may be rejected
    Timings,         \* the split strategies: TRUE for time_split, FALSE for seeded
    TrainEnd, ValidationEnd,      \* time_split cutoffs
    TrainShare, ValidationShare,  \* percentages, 80 and 90 in the code
    Minimum,         \* minimum_examples
    Approvers

ASSUME DatasetsAssumption ==
    /\ Near \subseteq {{TextOf[i], TextOf[j]} : i, j \in Interactions}
    /\ FixtureSets \subseteq SUBSET Interactions
    /\ Timings \subseteq BOOLEAN
    /\ \A i \in Interactions : IsFiniteSet(FamiliesOf[i])

VARIABLES
    build,      \* the build in progress
    used,       \* versions handed out (uid)
    approver    \* the approval each operator is at

vars == <<storage, build, used, approver>>

Splits == {"train", "validation", "test"}
Contents == [Splits -> SUBSET Interactions]
Rows(content) == UNION {content[s] : s \in Splits}
Idle == [at |-> "idle"]

\* A manifest: what it holds, the dataset it was distilled from, who approved it.
Manifests == [content : Contents, source : Versions \cup {None}, approval : Approvers \cup {None}]

ASSUME ManifestAssumption == None \notin Manifests

TypeOK ==
    /\ tenant.stored \subseteq Interactions /\ tenant.fresh \subseteq tenant.stored
    /\ tenant.gone \subseteq Interactions /\ tenant.erased \subseteq Subjects
    /\ tenant.manifests \in [Versions -> Manifests \cup {None}]
    /\ control \subseteq Versions
    /\ files \in [Versions -> Contents \cup {None}]
    /\ holder \in {"backup", "publish", None}
    /\ build = Idle \/ build.at \in {"constructing", "staging", "staged", "renamed"}
    /\ used \subseteq Versions

Init ==
    /\ StorageInit
    /\ build = Idle /\ used = {}
    /\ approver = [a \in Approvers |-> Idle]

-----------------------------------------------------------------------------
(* Selection, construction and curation *)

Eligible == {i \in tenant.stored : ~Tombstoned(tenant, i)}

\* An exact duplicate, or similar beyond the threshold.
Alike(i, j) == TextOf[i] = TextOf[j] \/ {TextOf[i], TextOf[j]} \in Near

\* curate, in order: an example stays unless an earlier one that stayed is alike
\* or the golden set contaminates it.  What is dropped stands for nothing later.
Curated(I, golden) ==
    CHOOSE kept \in SUBSET I :
        \A i \in I : i \in kept <=> i \notin golden /\ ~ \E j \in kept : j < i /\ Alike(i, j)

\* The grouping keys of an example.
KeysOf(i) ==
    {<<"family", f>> : f \in FamiliesOf[i]} \cup
    (IF SubjectOf[i] = None THEN {} ELSE {<<"subject", SubjectOf[i]>>})

\* root: the representative of i.  Halving the path to it changes no root.
Root(parents, i) ==
    LET root[j \in DOMAIN parents] == IF parents[j] = j THEN j ELSE root[parents[j]]
    IN  root[i]

\* Mutant of Linked: the example is linked instead of its root.
LinkedDirectly(parents, i, j) == [parents EXCEPT ![i] = Root(parents, j)]

\* parents[root(i)] = root(j)
Linked(parents, i, j) == [parents EXCEPT ![Root(parents, i)] = Root(parents, j)]

\* One key of one example: seen[k] is the last example seen with it.
Visit(g, i, k) ==
    [parents |-> IF g.seen[k] = None THEN g.parents ELSE Linked(g.parents, i, g.seen[k]),
     seen |-> [g.seen EXCEPT ![k] = i]]

\* All keys of one example.
Visited(g, i) ==
    LET keys == SetToSeq(KeysOf(i))
        after[n \in 0..Cardinality(KeysOf(i))] ==
            IF n = 0 THEN g ELSE Visit(after[n - 1], i, keys[n])
    IN  after[Cardinality(KeysOf(i))]

\* The union-find of split_examples over both grouping keys, example by example.
Grouped(I) ==
    LET start == [parents |-> [i \in I |-> i],
                  seen |-> [k \in UNION {KeysOf(i) : i \in I} |-> None]]
        after[n \in 0..Total] ==
            IF n = 0 THEN start
            ELSE IF n \in I THEN Visited(after[n - 1], n) ELSE after[n - 1]
    IN  after[Total].parents

Components(I) ==
    LET parents == Grouped(I)
    IN  {{j \in I : Root(parents, j) = r} : r \in {Root(parents, i) : i \in I}}

\* The partition of a component by its latest example.
ByTime(C) ==
    IF Max(C) < TrainEnd THEN "train" ELSE IF Max(C) < ValidationEnd THEN "validation" ELSE "test"

\* The partition of a component when n of total examples are assigned.
ByShare(n, total) ==
    IF n * 100 < TrainShare * total THEN "train"
    ELSE IF n * 100 < ValidationShare * total THEN "validation" ELSE "test"

\* split_examples: every result some shuffle of the components gives.
SplitsOf(I, timed) ==
    LET components == Components(I)
        Before(order, k) == Cardinality(UNION {order[j] : j \in 1..(k - 1)})
        Place(order, k) == IF timed THEN ByTime(order[k])
                           ELSE ByShare(Before(order, k), Cardinality(I))
    IN  {[s \in Splits |-> UNION {order[k] : k \in {k \in DOMAIN order : Place(order, k) = s}}] :
            order \in {o \in [1..Cardinality(components) -> components] :
                          {o[k] : k \in DOMAIN o} = components}}

-----------------------------------------------------------------------------
(* build *)

\* _snapshot: one read transaction; the version is fresh.
BuildSnapshot(v, source, timed, golden) ==
    /\ build = Idle /\ v \notin used /\ Spend("builds")
    /\ used' = used \cup {v}
    /\ build' = [at |-> "constructing", version |-> v, source |-> source, timed |-> timed,
                 golden |-> golden, candidates |-> Eligible, examples |-> {}, content |-> None]
    /\ UNCHANGED <<tenant, control, files, backup, copying, holder, keyring, rotation, approver>>

Approved(v) == tenant.manifests[v] # None /\ tenant.manifests[v].approval # None

\* verify_manifest and read_shards: the row, its files and every shard belong
\* together.
Authentic(v) == tenant.manifests[v] # None /\ files[v] = tenant.manifests[v].content

\* TeacherExamples.source: an approved dataset that was not distilled itself.
Source(v) == Approved(v) /\ tenant.manifests[v].source = None /\ Authentic(v)

\* Constructor.build: an example, unless its payloads, its sources or its target
\* exclude the interaction.
Built(b, good) == b.candidates \cap good

\* The teacher answers for the train split; good are the answers that pass the
\* filters, are no duplicates of another and not like a golden text.  What is
\* held out stays as it is.
Taught(content, good) ==
    (content["train"] \cap good) \cup content["validation"] \cup content["test"]

\* TeacherExamples._build: the rows of the source that are still eligible.  The
\* rows _mix adds bear the interaction of a train row and come and go with it.
Distilled(b, good) == b.candidates \cap Taught(tenant.manifests[b.source].content, good)

\* Phase 2, without a lock.
BuildConstruct ==
    /\ build.at = "constructing"
    /\ build.source # None => Source(build.source)
    /\ \E bad \in SUBSET Doubtful :
          build' = [build EXCEPT !.at = "staging",
                                 !.examples = IF build.source = None
                                              THEN Built(build, Interactions \ bad)
                                              ELSE Distilled(build, Interactions \ bad)]
    /\ UNCHANGED <<storage, used, approver>>

\* Any error before the publish transaction ends the build and removes its
\* staging directory.
BuildFails ==
    /\ build.at \in {"constructing", "staging", "staged"}
    /\ build' = Idle
    /\ UNCHANGED <<storage, used, approver>>

\* Mutant of Accepted: examples are only removed from what was staged before.
AcceptedOnce(b) ==
    IF b.content = None THEN Curated(b.examples, b.golden) ELSE Rows(b.content) \cap b.examples

\* The examples _stage accepts; curation starts from all that are left.
Accepted(b) == Curated(b.examples, b.golden)

\* Mutant of Staged: a distilled dataset is split afresh.
StagedAfresh(b) == SplitsOf(IF b.source = None THEN Accepted(b) ELSE b.examples, b.timed)

\* The contents _stage may write; a distilled dataset keeps the splits of its
\* source.
Staged(b) ==
    IF b.source = None THEN SplitsOf(Accepted(b), b.timed)
    ELSE {[s \in Splits |-> tenant.manifests[b.source].content[s] \cap b.examples]}

\* _stage writes the staging directory, or refuses a train split that is too
\* small and removes it.
BuildStage ==
    /\ build.at = "staging"
    /\ \E content \in Staged(build) :
          build' = IF Cardinality(content["train"]) < Minimum THEN Idle
                   ELSE [build EXCEPT !.at = "staged", !.content = content]
    /\ UNCHANGED <<storage, used, approver>>

\* Mutant of Deleted: the snapshot, which has none of them, is asked.
DeletedBefore == {}

\* _deleted, in the publish transaction.
Deleted == {i \in build.candidates : Tombstoned(tenant, i)}

Row(b) == [content |-> b.content, source |-> b.source, approval |-> None]

\* Mutant of Renamed: the row is committed before the directory is renamed.
RenamedLast ==
    /\ tenant' = [tenant EXCEPT !.manifests[build.version] = Row(build)]
    /\ UNCHANGED files

\* The directory is renamed inside the transaction.
Renamed ==
    /\ files' = [files EXCEPT ![build.version] = build.content]
    /\ UNCHANGED tenant

\* Phase 3, up to the rename.  A deletion since the snapshot sends the build
\* back to staging without its examples; a source that is no longer approved
\* ends it.
PublishBegin ==
    /\ Writable /\ build.at = "staged"
    /\ IF build.source # None /\ ~Source(build.source)
       THEN build' = Idle /\ UNCHANGED <<holder, tenant, files>>
       ELSE IF Deleted # {}
       THEN /\ build' = [build EXCEPT !.at = "staging", !.candidates = @ \ Deleted,
                                      !.examples = @ \ Deleted]
            /\ UNCHANGED <<holder, tenant, files>>
       ELSE build' = [build EXCEPT !.at = "renamed"] /\ holder' = "publish" /\ Renamed
    /\ UNCHANGED <<control, backup, copying, keyring, rotation, budget, used, approver>>

\* The transaction commits the row and its events, or fails and the directory
\* is removed with it.
PublishEnd(ok) ==
    /\ build.at = "renamed"
    /\ IF ok THEN /\ tenant' = [tenant EXCEPT !.manifests[build.version] = Row(build)]
                  /\ files' = [files EXCEPT ![build.version] = build.content]
       ELSE files' = [files EXCEPT ![build.version] = None] /\ UNCHANGED tenant
    /\ build' = Idle /\ holder' = None
    /\ UNCHANGED <<control, backup, copying, keyring, rotation, budget, used, approver>>

-----------------------------------------------------------------------------
(* Approval and use *)

\* approve reads the manifest and authenticates every shard against it.
ApproveRead(a, v) ==
    /\ approver[a] = Idle /\ Authentic(v)
    /\ approver' = [approver EXCEPT ![a] = [at |-> "verified", version |-> v,
                                            row |-> tenant.manifests[v]]]
    /\ UNCHANGED <<storage, build, used>>

\* Mutant of Current: the manifest is not compared with the one verified.
CurrentAny(a) == tenant.manifests[approver[a].version] # None

\* current == manifest
Current(a) == tenant.manifests[approver[a].version] = approver[a].row

\* Then one transaction: refused if the row changed, kept if it was approved.
ApproveCommit(a) ==
    LET v == approver[a].version IN
    /\ Writable /\ approver[a].at = "verified"
    /\ tenant' = IF Current(a) /\ approver[a].row.approval = None
                 THEN [tenant EXCEPT !.manifests[v].approval = a] ELSE tenant
    /\ approver' = [approver EXCEPT ![a] = Idle]
    /\ UNCHANGED <<control, files, backup, copying, holder, keyring, rotation, budget,
                   build, used>>

\* validate_dataset: the source and every row's eligibility, again.
StillEligible(v) == Source(tenant.manifests[v].source) /\ Rows(files[v]) \subseteq Eligible

\* TrainingOrchestrator._eligible, and the job that takes the dataset.
Train(v) ==
    /\ Approved(v) /\ Authentic(v) /\ holder # "backup"
    /\ tenant.manifests[v].source # None => StillEligible(v)
    /\ control' = control \cup {v}
    /\ UNCHANGED <<tenant, files, backup, copying, holder, keyring, rotation, budget,
                   build, used, approver>>

\* The process dies: builds, approvals, rotation and backup with it.  An open
\* transaction rolls back; a renamed directory stays without its row.
Crash ==
    /\ build' = Idle /\ approver' = [a \in Approvers |-> Idle]
    /\ rotation' = NoRotation /\ copying' = None /\ holder' = None
    /\ UNCHANGED <<tenant, control, files, backup, keyring, budget, used>>

Offline == build = Idle /\ \A a \in Approvers : approver[a] = Idle

Next ==
    \/ \E v \in Versions, source \in Versions \cup {None}, timed \in Timings, golden \in FixtureSets :
          BuildSnapshot(v, source, timed, golden)
    \/ BuildConstruct \/ BuildStage \/ BuildFails \/ PublishBegin \/ \E ok \in BOOLEAN : PublishEnd(ok)
    \/ \E a \in Approvers : ApproveCommit(a) \/ \E v \in Versions : ApproveRead(a, v)
    \/ \E v \in Versions : Train(v)
    \/ Crash
    \/ StorageNext /\ UNCHANGED <<build, used, approver>>
    \/ Offline /\ Restore /\ UNCHANGED <<build, used, approver>>

Spec == Init /\ [][Next]_vars

-----------------------------------------------------------------------------
(* Properties *)

\* A dataset is never published with an interaction that was deleted, itself
\* or through its subject, before the publish transaction: not one selected
\* before the deletion, not one that entered when another was deleted.
PublishedIsClean ==
    [][\A v \in Versions : build.at = "renamed" /\ tenant'.manifests[v] # tenant.manifests[v] =>
          \A i \in Rows(tenant'.manifests[v].content) : ~Tombstoned(tenant', i)]_vars

\* Every registered dataset has its complete directory, also after a crash
\* between rename and commit, a failed publish, a backup and a restore.
ManifestHasFiles ==
    \A v \in Versions : tenant.manifests[v] # None => files[v] = tenant.manifests[v].content

\* No subject and no document family is on two sides of a split, however they
\* are linked through other examples.
SplitsDisjoint ==
    \A v \in Versions : tenant.manifests[v] # None =>
        LET content == tenant.manifests[v].content IN
        \A s, t \in Splits : s # t =>
            \A i \in content[s], j \in content[t] : KeysOf(i) \cap KeysOf(j) = {}

\* What a dataset holds out stays held out of every dataset distilled from it.
HeldOutStaysOut ==
    \A v \in Versions : tenant.manifests[v] # None /\ tenant.manifests[v].source # None =>
        LET source == tenant.manifests[tenant.manifests[v].source].content IN
        \A i \in tenant.manifests[v].content["train"], j \in source["validation"] \cup source["test"] :
            KeysOf(i) \cap KeysOf(j) = {}

\* "Re-curating also promotes a surviving duplicate when its earlier exemplar
\* was deleted": each example that survives to the publish transaction, and that
\* the build's golden set does not contaminate, is published, or something alike
\* stands in its place; a contaminated one is never published nor stands for
\* another.
SurvivorsKept ==
    build.at = "renamed" /\ build.source = None =>
        /\ Rows(build.content) \cap build.golden = {}
        /\ \A i \in build.examples \ build.golden : \E j \in Rows(build.content) : Alike(i, j)

\* An approval stands: a concurrent approval never replaces its actor.
ApprovalStands ==
    [][\/ backup # None /\ tenant' = backup.tenant
       \/ \A v \in Versions : Approved(v) => tenant'.manifests[v] = tenant.manifests[v]]_vars
=============================================================================
