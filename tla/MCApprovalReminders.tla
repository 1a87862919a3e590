-------------------------- MODULE MCApprovalReminders --------------------------
(***************************************************************************)
(* Two runs at once, two Finance users, so that a group may be reached in  *)
(* part; FirstAfter and RepeatEvery differ.  Runs, and users of a role, are *)
(* interchangeable as long as only invariants are checked.                 *)
(***************************************************************************)
EXTENDS ApprovalReminders, TLC

Interchangeable == Permutations(Runs) \cup Permutations(Finance) \cup Permutations(Approvers)
=============================================================================
