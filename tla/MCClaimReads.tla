----------------------------- MODULE MCClaimReads -----------------------------
(***************************************************************************)
(* Three claims, of which the two older ones were created in the same      *)
(* millisecond.  A list shows one row to a page and starts with two claims *)
(* in review; an export reads batches of two, and where three claims match *)
(* at its start, the third is missed if one of the first two leaves.       *)
(***************************************************************************)
EXTENDS ClaimReads

CONSTANTS claimant, approver1, approver2, finance

MCUsers == {claimant, approver1, approver2, finance}

MCRole == [u \in MCUsers |->
  IF u = claimant THEN "CLAIMANT" ELSE IF u = finance THEN "FINANCE" ELSE "APPROVER"]

MCCreated == <<1, 1, 2>>

Row(status, approver, signedBy) ==
  [status |-> status, claimant |-> claimant, assignedApprover |-> approver,
   decidedBy |-> None, approverApprovedBy |-> signedBy]

Draft   == Row("DRAFT", None, None)
Pending == Row("PENDING_APPROVAL", approver1, None)
Asked   == Row("INFO_REQUESTED", approver1, None)
Signed  == Row("PENDING_FINANCE_APPROVAL", approver1, approver1)

MCTables ==
  [list   |-> {<<AbsentClaim, Asked, Pending>>},
   export |-> {<<Draft, Pending, Asked>>, <<Signed, Pending, AbsentClaim>>,
               <<Pending, Pending, Pending>>}]

MCViews ==
  {[status |-> s, approver |-> None] : s \in {AllStatuses, "PENDING_APPROVAL"}}
=============================================================================
