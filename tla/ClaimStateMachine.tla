-------------------------- MODULE ClaimStateMachine --------------------------
(***************************************************************************)
(* The guards of backend/src/services/claimStateMachine.ts: which status   *)
(* a claim may be in, and who may act on it, for every operation that      *)
(* changes it.  The services consult nothing else before they write        *)
(* claim.status, so the other modules take their guards from here.         *)
(***************************************************************************)
EXTENDS Integers

CONSTANTS
  Users,      \* ids of the rows of table User
  Role,       \* Role[u]: the role of user u; no endpoint changes it
  None,       \* SQL NULL
  Threshold   \* FINANCE_APPROVAL_THRESHOLD, in cents

Roles == {"CLAIMANT", "APPROVER", "FINANCE"}

ASSUME RoleAssumption      == Role \in [Users -> Roles]
ASSUME NoneAssumption      == None \notin Users /\ None \notin Int
ASSUME ThresholdAssumption == Threshold \in Nat

\* enum ClaimStatus; ABSENT stands for a claim id that has no row yet.
Statuses == {"ABSENT", "DRAFT", "PENDING_APPROVAL", "PENDING_FINANCE_APPROVAL",
             "INFO_REQUESTED", "APPROVED", "REJECTED", "CANCELLED"}

IsEditableStatus(status) == status \in {"DRAFT", "REJECTED", "PENDING_APPROVAL"}

IsSubmittableStatus(status) == status \in {"DRAFT", "REJECTED"}

IsInReview(status) ==
  status \in {"PENDING_APPROVAL", "PENDING_FINANCE_APPROVAL", "INFO_REQUESTED"}

IsCancellable(claim) ==
  \/ claim.status = "DRAFT"
  \/ claim.status = "PENDING_APPROVAL" /\ claim.decidedBy = None

RequiresFinanceApproval(total) == total > Threshold

IsAtFinanceStage(claim) ==
  \/ claim.status = "PENDING_FINANCE_APPROVAL"
  \/ claim.status = "INFO_REQUESTED" /\ claim.approverApprovedBy # None

\* authorizeDecisionMaker, the role gate of the decision and delegation routes.
IsDecisionMaker(u) == Role[u] \in {"APPROVER", "FINANCE"}

\* Mutant: the Finance short cut comes before the status check.
IsDecidableByFinanceAlways(claim, u) ==
  \/ Role[u] = "FINANCE" /\ claim.status \notin {"ABSENT", "DRAFT"}
  \/ IsInReview(claim.status) /\ ~IsAtFinanceStage(claim) /\ claim.assignedApprover = u

\* Mutant: the approver keeps deciding after having signed.
IsDecidableByApproverAlways(claim, u) ==
  IsInReview(claim.status) /\ (Role[u] = "FINANCE" \/ claim.assignedApprover = u)

IsDecidableBy(claim, u) ==
  /\ IsInReview(claim.status)
  /\ \/ Role[u] = "FINANCE"
     \/ ~IsAtFinanceStage(claim) /\ claim.assignedApprover = u

\* Mutant: what Finance asks about can still be handed to another approver.
IsReassignableWhenAsked(claim) ==
  \/ claim.status = "PENDING_APPROVAL" /\ claim.approverApprovedBy = None
  \/ claim.status = "INFO_REQUESTED"

IsReassignable(claim) ==
  /\ claim.status \in {"PENDING_APPROVAL", "INFO_REQUESTED"}
  /\ claim.approverApprovedBy = None

IsReassignableBy(claim, u) ==
  /\ Role[u] = "FINANCE" \/ claim.assignedApprover = u
  /\ IsReassignable(claim)

IsRespondableBy(claim, u) == IsInReview(claim.status) /\ claim.claimant = u

-----------------------------------------------------------------------------
(* What ApprovalWorkflow sees of a claim.                                  *)

StageOf(claim) ==
  CASE claim.status \in {"ABSENT", "DRAFT"} -> "open"
    [] IsAtFinanceStage(claim)              -> "finance"
    [] claim.status = "APPROVED"            -> "accepted"
    [] claim.status = "REJECTED"            -> "returned"
    [] claim.status = "CANCELLED"           -> "withdrawn"
    [] OTHER                                -> "approver"

\* An approval of Finance is Finance's signature, any other the approver's.
SignaturesOf(claim) ==
  (IF claim.approverApprovedBy # None THEN {"APPROVER"} ELSE {})
    \cup (IF claim.status = "APPROVED" THEN {Role[claim.decidedBy]} ELSE {})
=============================================================================
