---------------------------- MODULE MCTaskQueue ----------------------------
(***************************************************************************)
(* Constants for model checking TaskQueue: policy sets and symmetry.       *)
(***************************************************************************)
EXTENDS TaskQueueRefinement, TLC

Policy(backlog, quota, maxInflight) ==
  [backlog |-> backlog, quota |-> quota, maxInflight |-> maxInflight]

Unlimited == {Policy("None", 0, 1)}
UnlimitedWide == {Policy("None", 0, 2)}
Limited == {Policy("Reject", 2, 1), Policy("Block", 3, 1), Policy("EvictOldest", 3, 1)}

Blocking == {Policy("Block", 1, 1)}

ThreadSymmetry == Permutations(Threads)
=============================================================================
