----------------------------- MODULE MCDatasets -----------------------------
(* Four interactions, the last one saved later: 2 is nearly the text of 1; 4 *)
(* shares one family with 2 and another with 3.                             *)
EXTENDS Datasets, TLC

CONSTANTS s1, a, b, v1, v2, p1, p2

SubjectOfDef == <<s1, None, None, None>>
FamiliesOfDef == <<{}, {a}, {b}, {a, b}>>
TextOfDef == <<1, 2, 3, 4>>
NearDef == {{1, 2}}

\* A golden set unlike everything, and one that is like interaction 1.
FixtureSetsDef == {{}, {1}}

\* Races of builds and approvals; a pair restored; a rotation.
BudgetsDef == {
    [deletions |-> 2, rotations |-> 0, backups |-> 0, builds |-> 2],
    [deletions |-> 1, rotations |-> 0, backups |-> 1, builds |-> 1],
    [deletions |-> 1, rotations |-> 2, backups |-> 1, builds |-> 0]}

Symmetry == Permutations(Versions) \cup Permutations(Approvers)
=============================================================================
