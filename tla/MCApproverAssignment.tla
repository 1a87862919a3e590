------------------------- MODULE MCApproverAssignment -------------------------
(***************************************************************************)
(* Three approvers, so that one can lose his turn to a claim that moved    *)
(* between two others, and three claims, so that loads can differ by more  *)
(* than the one claim dealing allows.                                      *)
(***************************************************************************)
EXTENDS ApproverAssignment, TLC

CONSTANTS c1, c2, c3

MCClaims == {c1, c2, c3}

Interchangeable == Permutations(MCClaims)
=============================================================================
