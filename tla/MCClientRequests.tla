--------------------------- MODULE MCClientRequests ---------------------------
(***************************************************************************)
(* One tab of whichever user, with two handlers; everybody else acts from  *)
(* elsewhere.  An item is worth 1.                                         *)
(***************************************************************************)
EXTENDS ClientRequests

CONSTANTS claimant, approver1, approver2, finance

\* The handlers differ in nothing but their names.
Symmetry == Permutations(Handlers)

MCUsers == {claimant, approver1, approver2, finance}

MCRole == [u \in MCUsers |->
  CASE u = claimant -> "CLAIMANT" [] u = finance -> "FINANCE" [] OTHER -> "APPROVER"]

Row(status, assigned, signed) ==
  [status |-> status, claimant |-> claimant, assignedApprover |-> assigned,
   approverApprovedBy |-> signed, decidedBy |-> None]

\* An empty draft, claims in each stage of review, and a rejected one.
MCStarts ==
  {[claim |-> Row("DRAFT", None, None), items |-> <<>>, receipts |-> {}],
   [claim |-> Row("PENDING_APPROVAL", approver1, None), items |-> <<0>>, receipts |-> {}],
   [claim |-> Row("INFO_REQUESTED", approver1, None), items |-> <<0>>,
    receipts |-> {[item |-> 0, for |-> 0, at |-> 0]}],
   [claim |-> Row("PENDING_FINANCE_APPROVAL", approver1, approver1), items |-> <<0>>,
    receipts |-> {}],
   [claim |-> [Row("REJECTED", approver1, None) EXCEPT !.decidedBy = approver1],
    items |-> <<0>>, receipts |-> {}]}
=============================================================================
