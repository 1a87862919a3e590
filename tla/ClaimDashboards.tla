--------------------------- MODULE ClaimDashboards ---------------------------
(***************************************************************************)
(* The dashboards of dashboardService.ts, as the sets of claims their      *)
(* figures count.  The rows hold no dates: what was decided and what was   *)
(* signed today are arguments of "approved today".  The amounts are left   *)
(* out.                                                                    *)
(***************************************************************************)
EXTENDS ClaimLifecycle, ClaimQueries

\* getClaimantDashboard() and getFinanceDashboard() count what is in scope.
VisibleTo(u) == {c \in ClaimIds : InScope(u, claims[c])}

\* getApproverDashboard()
AssignedTo(u) == {c \in ClaimIds : claims[c].assignedApprover = u}

\* Mutant: a claim at the Finance stage is its first approver's to act on.
ActionableInReview(u) == {c \in AssignedTo(u) : IsInReview(claims[c].status)}

Actionable(u) ==
  {c \in AssignedTo(u) : IsInReview(claims[c].status) /\ ~IsAtFinanceStage(claims[c])}

AwaitingFinance(u) == {c \in AssignedTo(u) : claims[c].status = "PENDING_FINANCE_APPROVAL"}

\* approvedToday, of the claims with a decidedAt and an approverApprovedAt of today.
ApprovedToday(u, decidedToday, signedToday) ==
  {c \in AssignedTo(u) :
     \/ claims[c].status = "APPROVED" /\ claims[c].decidedBy = u /\ c \in decidedToday
     \/ claims[c].approverApprovedBy = u /\ c \in signedToday}

RejectedBy(u) ==
  {c \in AssignedTo(u) : claims[c].status = "REJECTED" /\ claims[c].decidedBy = u}

-----------------------------------------------------------------------------
(* Properties.                                                             *)

(* Until the claim is submitted again, what an approver signed or decided  *)
(* stays in that approver's scope, and in the figure that reports it:      *)
(* "rejected" for as long, "approved today" on the day of the decision or  *)
(* of the sign-off only (dashboardService.ts:49-50): from the next day on  *)
(* an approved claim is in no figure of this dashboard.  Scope and figures *)
(* go by assignedApproverId, which questions, delegation and resubmission  *)
(* change (dashboardService.ts:40).                                        *)
OwnDecisionsStayInScope ==
  \A c \in ClaimIds, a \in Approvers :
    /\ a \in {claims[c].approverApprovedBy, claims[c].decidedBy} => c \in VisibleTo(a)
    /\ claims[c].approverApprovedBy = a => c \in ApprovedToday(a, {}, {c})
    /\ claims[c].decidedBy = a => c \in RejectedBy(a) \cup ApprovedToday(a, {c}, {})

(* A claim in review is work for exactly one side.  Before the Finance     *)
(* stage it is on one approver's dashboard, who may decide on it, sees it  *)
(* and has not signed it; at the Finance stage it is on no approver's,     *)
(* Finance sees it, and if nobody is asked anything it is counted as       *)
(* awaiting Finance for the approver who signed (dashboardService.ts:42).  *)
ReviewIsOnOneDashboard ==
  \A c \in ClaimIds :
    IsInReview(claims[c].status) =>
      /\ \A u \in Users : Role[u] = "FINANCE" => c \in VisibleTo(u)
      /\ IF IsAtFinanceStage(claims[c])
         THEN /\ \A a \in Users : c \notin Actionable(a)
              /\ \E a \in Approvers :
                   /\ claims[c].approverApprovedBy = a
                   /\ claims[c].status = "PENDING_FINANCE_APPROVAL" => c \in AwaitingFinance(a)
         ELSE \E a \in Approvers :
                /\ c \in Actionable(a) /\ c \in VisibleTo(a) /\ claims[c].approverApprovedBy # a
                /\ IsDecidableBy(claims[c], a)
                /\ \A b \in Users \ {a} : c \notin Actionable(b)

(* What they follow from, beside the invariant of ClaimLifecycle: whoever  *)
(* signed or decided a claim as its approver is still its approver.        *)
SignerInv(r) ==
  /\ r.approverApprovedBy # None => r.approverApprovedBy = r.assignedApprover
  /\ r.decidedBy \in Approvers => r.decidedBy = r.assignedApprover

SignersInv == \A c \in ClaimIds : SignerInv(claims[c])

LegalDatabase == IInv /\ SignersInv
=============================================================================
