----------------------------- MODULE Operations -----------------------------
(***************************************************************************)
(* storage/operations.py, storage/postgres_operations.py and the cipher of *)
(* storage/crypto.py: paired backups of the tenant and the control         *)
(* database, their offline restore, and the rotation of the payload key in *)
(* batches, beside saves and deletions.                                    *)
(*                                                                         *)
(* Interactions are numbered in the order of their payload references      *)
(* (uid is time sortable).  A write transaction of a database excludes the *)
(* others, so each is one step; a step that holds the databases across     *)
(* steps is the holder.                                                    *)
(***************************************************************************)
EXTENDS Integers, Sequences, FiniteSets, FiniteSetsExt, SequencesExt

CONSTANTS
    Total,        \* interactions are 1..Total
    Initial,      \* the first Initial of them are stored at the start, under the old key
    SubjectOf,    \* SubjectOf[i], or None
    Versions,     \* dataset versions
    BatchSize,    \* rotate_key batch_size
    Budgets,      \* bounds: how many deletions, rotations, backups and builds a behaviour has
    None

Interactions == 1..Total
Subjects == {SubjectOf[i] : i \in Interactions} \ {None}

ASSUME OperationsAssumption ==
    /\ Total \in Nat /\ Initial \in 0..Total
    /\ BatchSize \in Nat \ {0}
    /\ Budgets \subseteq [deletions : Nat, rotations : Nat, backups : Nat, builds : Nat]
    /\ None \notin Versions \cup {"backup", "publish"}
    /\ None \notin Interactions

VARIABLES
    tenant,      \* the tenant database
    control,     \* the control database: dataset versions that models are trained on
    files,       \* the dataset directory of each version, or None
    backup,      \* the last published backup, or None
    copying,     \* backup_pair's copy of the tenant database, or None
    holder,      \* who holds a write transaction across steps: "backup", "publish" or None
    keyring,     \* the current key of the serving process: "old" or "new"
    rotation,    \* the run of rotate_key
    budget       \* what is left of the bounds

storage == <<tenant, control, files, backup, copying, holder, keyring, rotation, budget>>

\* stored: interactions with their payloads.  fresh: those under the new key.
\* gone, erased: tombstones of interactions and of subjects.
\* manifests: the row of each published dataset, or None.
Empty == [stored |-> 1..Initial, fresh |-> {}, gone |-> {}, erased |-> {},
          manifests |-> [v \in Versions |-> None]]

NoRotation == [at |-> "idle", ceiling |-> 0, cursor |-> 0, present |-> {}]

StorageInit ==
    /\ tenant = Empty
    /\ control = {}
    /\ files = [v \in Versions |-> None]
    /\ backup = None /\ copying = None /\ holder = None
    /\ keyring = "old"
    /\ rotation = NoRotation
    /\ budget \in Budgets

Spend(what) == budget[what] > 0 /\ budget' = [budget EXCEPT ![what] = @ - 1]

\* A write transaction of the tenant database can begin.
Writable == holder = None

Tombstoned(t, i) == i \in t.gone \/ SubjectOf[i] \in t.erased

-----------------------------------------------------------------------------
(* Saves and deletions *)

\* A save commits, encrypted under the key of the process.
Save(i) ==
    /\ Writable /\ i = Initial + 1 + Cardinality({j \in tenant.stored \cup tenant.gone : j > Initial})
    /\ i <= Total /\ ~Tombstoned(tenant, i)
    /\ tenant' = [tenant EXCEPT !.stored = @ \cup {i},
                                !.fresh = IF keyring = "new" THEN @ \cup {i} ELSE @]
    /\ UNCHANGED <<control, files, backup, copying, holder, keyring, rotation, budget>>

\* Deletion of interactions or of a subject: payloads go, tombstones stay.
Erase(I, S) ==
    /\ Writable /\ Spend("deletions")
    /\ tenant' = [tenant EXCEPT !.stored = @ \ I, !.fresh = @ \ I,
                                !.gone = @ \cup I, !.erased = @ \cup S]
    /\ UNCHANGED <<control, files, backup, copying, holder, keyring, rotation>>

Delete(i) == i \in tenant.stored /\ Erase({i}, {})
DeleteSubject(s) ==
    /\ s \notin tenant.erased
    /\ Erase({i \in tenant.stored : SubjectOf[i] = s}, {s})

-----------------------------------------------------------------------------
(* Key rotation *)

\* The process is restarted with the new key as the current one.
SwitchKey ==
    /\ keyring = "old" /\ keyring' = "new"
    /\ UNCHANGED <<tenant, control, files, backup, copying, holder, rotation, budget>>

\* rotate_key reads its ceiling.  present: history, what was stored then.
RotateStart ==
    /\ rotation.at # "running" /\ Spend("rotations")
    /\ rotation' = [at |-> "running", cursor |-> 0, present |-> tenant.stored,
                    ceiling |-> IF tenant.stored = {} THEN 0 ELSE Max(tenant.stored)]
    /\ UNCHANGED <<tenant, control, files, backup, copying, holder, keyring>>

Unrotated ==
    {i \in tenant.stored \ tenant.fresh : rotation.cursor < i /\ i <= rotation.ceiling}

\* Mutant of Batches: the batch is not ordered by reference.
BatchesUnordered ==
    {B \in SUBSET Unrotated :
        Cardinality(B) = IF Cardinality(Unrotated) < BatchSize THEN Cardinality(Unrotated)
                         ELSE BatchSize}

\* ORDER BY reference LIMIT batch_size
Batches ==
    {B \in SUBSET Unrotated :
        /\ Cardinality(B) = IF Cardinality(Unrotated) < BatchSize THEN Cardinality(Unrotated)
                            ELSE BatchSize
        /\ \A i \in B, j \in Unrotated \ B : i < j}

\* One transaction re-encrypts a batch and moves the cursor; an empty batch
\* ends the command.
RotateBatch ==
    /\ Writable /\ rotation.at = "running"
    /\ \E B \in Batches :
          IF B = {}
          THEN rotation' = [rotation EXCEPT !.at = "done"] /\ UNCHANGED tenant
          ELSE /\ tenant' = [tenant EXCEPT !.fresh = @ \cup B]
               /\ rotation' = [rotation EXCEPT !.cursor = Max(B)]
    /\ UNCHANGED <<control, files, backup, copying, holder, keyring, budget>>

\* A batch fails and rolls back; the command ends and may be run again.
RotateFail ==
    /\ rotation.at = "running"
    /\ rotation' = NoRotation
    /\ UNCHANGED <<tenant, control, files, backup, copying, holder, keyring, budget>>

-----------------------------------------------------------------------------
(* Backup and restore *)

\* backup_pair begins both write transactions and copies the tenant database.
BackupTenant ==
    /\ Writable /\ Spend("backups")
    /\ copying' = tenant /\ holder' = "backup"
    /\ UNCHANGED <<tenant, control, files, backup, keyring, rotation>>

\* It copies the control database, ends both transactions and publishes the
\* pair with one rename, or fails and removes its staging directory.
BackupControl(ok) ==
    /\ holder = "backup"
    /\ backup' = IF ok THEN [tenant |-> copying, control |-> control] ELSE backup
    /\ copying' = None /\ holder' = None
    /\ UNCHANGED <<tenant, control, files, keyring, rotation, budget>>

\* backup_postgres dumps both schemas at one exported snapshot.
BackupPostgres ==
    /\ Spend("backups")
    /\ backup' = [tenant |-> tenant, control |-> control]
    /\ UNCHANGED <<tenant, control, files, copying, holder, keyring, rotation>>

\* Mutant of Replaced: the control database is left as it is.
ReplacedTenant == tenant' = backup.tenant /\ UNCHANGED control

\* restore_pair and restore_postgres validate the whole pair and replace both
\* databases in one transaction; a failure changes neither.
Replaced == tenant' = backup.tenant /\ control' = backup.control

\* Restore is offline: rotation and backup are not running.
Restore ==
    /\ backup # None /\ holder = None /\ rotation.at # "running"
    /\ Replaced
    /\ rotation' = NoRotation
    /\ UNCHANGED <<files, backup, copying, holder, keyring, budget>>

StorageNext ==
    \/ \E i \in Interactions : Save(i) \/ Delete(i)
    \/ \E s \in Subjects : DeleteSubject(s)
    \/ SwitchKey \/ RotateStart \/ RotateBatch \/ RotateFail
    \/ BackupTenant \/ (\E ok \in BOOLEAN : BackupControl(ok)) \/ BackupPostgres

-----------------------------------------------------------------------------
(* Properties *)

\* docs/runbooks/key-rotation.md: rotation "processes live blobs present at
\* the start of the command".  Whatever is saved, deleted, backed up or failed
\* meanwhile, a rotation that ends leaves none of them under another key.
RotationComplete ==
    rotation.at = "done" => rotation.present \cap tenant.stored \subseteq tenant.fresh

\* The two databases stay a pair, across backup and restore: what the control
\* database was trained on has its manifest in the tenant database.
PairConsistent == \A v \in control : tenant.manifests[v] # None
=============================================================================
