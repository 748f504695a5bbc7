------------------------- MODULE MCModelReconciler -------------------------
(***************************************************************************)
(* Instances of ModelReconciler for TLC: two revisions of one model, and a *)
(* second model that the operator installs by hand.                        *)
(***************************************************************************)
EXTENDS ModelReconciler

CONSTANTS t1, t2, m1, m2, r1, r2, h1, h2

First  == [model |-> m1, revision |-> r1]
Second == [model |-> m1, revision |-> r2]
ByHand == [model |-> m2, revision |-> r1]

\* A task is pinned, repointed to another revision, unpinned.
OneTask == {[NoPins EXCEPT ![t1] = p] : p \in {NoPin, First, Second}}

\* The same, while a second task is pinned to the model installed by hand.
TwoTasks ==
    { NoPins,
      [NoPins EXCEPT ![t1] = First],
      [NoPins EXCEPT ![t1] = Second, ![t2] = ByHand] }

HandInstalls == {ByHand}
=============================================================================
