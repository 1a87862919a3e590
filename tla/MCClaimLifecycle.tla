--------------------------- MODULE MCClaimLifecycle ---------------------------
(***************************************************************************)
(* One claim, two line items, a claimant, two approvers and a Finance      *)
(* user.  The posted amounts are: zero, less than half a cent, and one     *)
(* and two units; the threshold lies between one and two units' cents, so  *)
(* that single edits cross it both ways, and the sum of two large items    *)
(* does not fit the total column.                                          *)
(***************************************************************************)
EXTENDS ClaimDashboards

CONSTANTS claimant, approver1, approver2, finance

MCUsers == {claimant, approver1, approver2, finance}

MCRole == [u \in MCUsers |->
  IF u = claimant THEN "CLAIMANT" ELSE IF u = finance THEN "FINANCE" ELSE "APPROVER"]

MCAmounts == {0, 4, 1000, 2000}
=============================================================================
