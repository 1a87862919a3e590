---------------------------- MODULE ClaimLifecycle ----------------------------
(***************************************************************************)
(* The life of expense claims, one action per service operation of         *)
(* claimMutationService.ts and claimReassignmentService.ts.  Each of them  *)
(* runs in one database transaction that holds the claim's row lock, so    *)
(* here an operation is one atomic step that either commits all its writes *)
(* or does not happen; ClaimTransactions takes the transactions apart.     *)
(*                                                                         *)
(* A request is authenticated before its transaction starts, so its actor  *)
(* may be deactivated by the time it commits: an actor is any user.        *)
(***************************************************************************)
EXTENDS ClaimStateMachine, FiniteSets, Functions

CONSTANTS
  ClaimIds,   \* rows of table Claim
  ItemIds,    \* line items one claim can hold
  Amounts,    \* amounts a client may post, in tenths of a cent
  MaxMoney,   \* largest value of a Decimal(10,2) column, in cents
  MaxCycle    \* bound on submissionCycle

ASSUME AmountsAssumption == Amounts \subseteq Int
ASSUME MoneyAssumption   == MaxMoney \in Nat
ASSUME CycleAssumption   == MaxCycle \in Nat \ {0}

VARIABLES
  claims,     \* table Claim
  items,      \* table ClaimItem: items[c][i] is an amount in cents, None if absent
  thread,     \* table ClaimMessage: what the messages of each claim amount to
  audit,      \* table AuditLog: the newest row of each claim
  active      \* the approvers with isActive = true

vars == <<claims, items, thread, audit, active>>

-----------------------------------------------------------------------------
(* Data.                                                                   *)

MoneyColumn == 0..MaxMoney

UserRefs == Users \cup {None}

Approvers == {a \in Users : Role[a] = "APPROVER"}

\* `clock` is whose wait assignedAt/lastRemindedAt/reminderCount measure: the
\* reviewer that held the claim when startReviewClock() last reset them.
ClaimRows ==
  [status: Statuses, claimant: UserRefs, assignedApprover: UserRefs,
   decidedBy: UserRefs, approverApprovedBy: UserRefs, rejectedBy: UserRefs,
   submissionCycle: 1..MaxCycle, total: MoneyColumn,
   clock: UserRefs \cup {"FINANCE"}]

AuditActions ==
  {"NONE", "CLAIM_CREATED", "CLAIM_UPDATED", "ITEM_ADDED", "ITEM_UPDATED",
   "ITEM_DELETED", "CLAIM_SUBMITTED", "CLAIM_RESUBMITTED", "CLAIM_CANCELLED",
   "CLAIM_ESCALATED", "CLAIM_APPROVED", "CLAIM_REJECTED",
   "CLAIM_INFO_REQUESTED", "CLAIM_INFO_RESPONDED", "CLAIM_REASSIGNED"}

AuditRows == [action: AuditActions, actor: UserRefs, old: Statuses, new: Statuses]

\* `info` is the type of the newest message of the question/answer thread,
\* `notice` whether the claimant was ever told that the approver changed.
Threads == [info: {"NONE", "INFO_REQUEST", "RESPONSE"}, notice: BOOLEAN]

NewClaim(u) ==
  [status |-> "DRAFT", claimant |-> u, assignedApprover |-> None,
   decidedBy |-> None, approverApprovedBy |-> None, rejectedBy |-> None,
   submissionCycle |-> 1, total |-> 0, clock |-> None]

ItemsOf(its) == {i \in ItemIds : its[i] # None}

\* What a Decimal(10,2) column keeps of a posted amount: it rounds to the cent.
Stored(amount) == (amount + 5) \div 10

SumAmounts(its) == SumFunctionOnSet(its, ItemsOf(its))

\* The reviewer whose queue the claim is in.
Reviewer(claim) == IF IsAtFinanceStage(claim) THEN "FINANCE" ELSE claim.assignedApprover

StartReviewClock(claim) == [claim EXCEPT !.clock = Reviewer(claim)]

RecordAudit(c, action, u, new) ==
  audit' = [audit EXCEPT
    ![c] = [action |-> action, actor |-> u, old |-> claims[c].status, new |-> new]]

\* Common to the operations on the row of one claim: the new row and its audit row.
Write(c, row, action, u) ==
  /\ claims' = [claims EXCEPT ![c] = row]
  /\ RecordAudit(c, action, u, row.status)
  /\ UNCHANGED active

-----------------------------------------------------------------------------
(* Claims and line items, by their claimant.                               *)

CreateClaim(u, c) ==
  /\ Role[u] = "CLAIMANT"
  /\ claims[c].status = "ABSENT"
  /\ Write(c, NewClaim(u), "CLAIM_CREATED", u)
  /\ UNCHANGED <<items, thread>>

IsOwnedEditable(u, c) == claims[c].claimant = u /\ IsEditableStatus(claims[c].status)

UpdateClaim(u, c) ==
  /\ IsOwnedEditable(u, c)
  /\ Write(c, claims[c], "CLAIM_UPDATED", u)
  /\ UNCHANGED <<items, thread>>

\* recalculateClaimTotal() reads the items back and writes their sum; a sum the
\* column cannot hold fails the statement and with it the transaction.
\* Mutant: the sum is not held against the column.
SaveItemsUnbounded(c, its, action, u) ==
  /\ items' = [items EXCEPT ![c] = its]
  /\ Write(c, [claims[c] EXCEPT !.total = SumAmounts(its)], action, u)
  /\ UNCHANGED thread

\* Mutant: only adding and removing items recalculates the total.
SaveItemsStaleTotal(c, its, action, u) ==
  /\ SumAmounts(its) \in MoneyColumn
  /\ items' = [items EXCEPT ![c] = its]
  /\ Write(c, IF action = "ITEM_UPDATED" THEN claims[c]
               ELSE [claims[c] EXCEPT !.total = SumAmounts(its)], action, u)
  /\ UNCHANGED thread

SaveItems(c, its, action, u) ==
  /\ SumAmounts(its) \in MoneyColumn
  /\ items' = [items EXCEPT ![c] = its]
  /\ Write(c, [claims[c] EXCEPT !.total = SumAmounts(its)], action, u)
  /\ UNCHANGED thread

AddItem(u, c, i, amount) ==
  /\ amount > 0
  /\ IsOwnedEditable(u, c)
  /\ items[c][i] = None
  /\ Stored(amount) \in MoneyColumn
  /\ SaveItems(c, [items[c] EXCEPT ![i] = Stored(amount)], "ITEM_ADDED", u)

UpdateItem(u, c, i, amount) ==
  /\ amount > 0
  /\ IsOwnedEditable(u, c)
  /\ items[c][i] # None
  /\ Stored(amount) \in MoneyColumn
  /\ SaveItems(c, [items[c] EXCEPT ![i] = Stored(amount)], "ITEM_UPDATED", u)

\* Mutant: the last item of a submitted claim can go.
DeleteItemAny(u, c, i) ==
  /\ IsOwnedEditable(u, c)
  /\ items[c][i] # None
  /\ SaveItems(c, [items[c] EXCEPT ![i] = None], "ITEM_DELETED", u)

DeleteItem(u, c, i) ==
  /\ IsOwnedEditable(u, c)
  /\ items[c][i] # None
  /\ claims[c].status = "PENDING_APPROVAL" => ItemsOf(items[c]) # {i}
  /\ SaveItems(c, [items[c] EXCEPT ![i] = None], "ITEM_DELETED", u)

-----------------------------------------------------------------------------
(* Submission.                                                             *)

\* The open claims pickLeastLoadedApprover() counts for an approver are those
\* that could still be taken away from them.
Load(a) == Cardinality({c \in ClaimIds :
             claims[c].assignedApprover = a /\ IsReassignable(claims[c])})

\* Among equals ApproverAssignment says who it is; here, any.
LeastLoadedApprovers ==
  {a \in active : \A b \in active : Load(a) <= Load(b)}

ResolvedApprovers(claim, isResubmit) ==
  IF isResubmit /\ claim.assignedApprover \in active
  THEN {claim.assignedApprover}
  ELSE LeastLoadedApprovers

\* Mutant: the previous round's decision is kept.
SubmittedRowKeepsDecision(c, approver, isResubmit) ==
  StartReviewClock(
    [claims[c] EXCEPT
       !.status = "PENDING_APPROVAL", !.assignedApprover = approver,
       !.approverApprovedBy = None, !.total = SumAmounts(items[c]),
       !.submissionCycle = IF isResubmit THEN @ + 1 ELSE @])

\* Mutant: the previous round's sign-off is kept.
SubmittedRowKeepsSignature(c, approver, isResubmit) ==
  StartReviewClock(
    [claims[c] EXCEPT
       !.status = "PENDING_APPROVAL", !.assignedApprover = approver,
       !.decidedBy = None, !.rejectedBy = None, !.total = SumAmounts(items[c]),
       !.submissionCycle = IF isResubmit THEN @ + 1 ELSE @])

SubmittedRow(c, approver, isResubmit) ==
  StartReviewClock(
    [claims[c] EXCEPT
       !.status = "PENDING_APPROVAL", !.assignedApprover = approver,
       !.decidedBy = None, !.approverApprovedBy = None, !.rejectedBy = None,
       !.total = SumAmounts(items[c]),
       !.submissionCycle = IF isResubmit THEN @ + 1 ELSE @])

RunSubmission(u, c, isResubmit) ==
  /\ claims[c].claimant = u
  /\ IsSubmittableStatus(claims[c].status)
  /\ ItemsOf(items[c]) # {}
  /\ \A i \in ItemsOf(items[c]) : items[c][i] > 0
  /\ SumAmounts(items[c]) \in MoneyColumn
  /\ isResubmit => claims[c].submissionCycle < MaxCycle
  /\ \E approver \in ResolvedApprovers(claims[c], isResubmit) :
       Write(c, SubmittedRow(c, approver, isResubmit),
             IF isResubmit THEN "CLAIM_RESUBMITTED" ELSE "CLAIM_SUBMITTED", u)
  /\ UNCHANGED <<items, thread>>

SubmitClaim(u, c)   == RunSubmission(u, c, FALSE)
ResubmitClaim(u, c) == RunSubmission(u, c, TRUE)

CancelClaim(u, c) ==
  /\ claims[c].claimant = u
  /\ IsCancellable(claims[c])
  /\ Write(c, [claims[c] EXCEPT !.status = "CANCELLED"], "CLAIM_CANCELLED", u)
  /\ UNCHANGED <<items, thread>>

-----------------------------------------------------------------------------
(* Decisions.                                                              *)

\* Mutant: an approval given while a question is open skips the threshold.
NeedsEscalationIfPending(c, u) ==
  /\ Role[u] # "FINANCE"
  /\ claims[c].status = "PENDING_APPROVAL"
  /\ RequiresFinanceApproval(claims[c].total)

NeedsEscalation(c, u) ==
  /\ Role[u] # "FINANCE"
  /\ ~IsAtFinanceStage(claims[c])
  /\ RequiresFinanceApproval(claims[c].total)

\* Mutant: the approver's clock goes on running for Finance.
EscalateClaimSameClock(u, c) ==
  /\ IsDecisionMaker(u) /\ IsDecidableBy(claims[c], u)
  /\ NeedsEscalation(c, u)
  /\ Write(c, [claims[c] EXCEPT !.status = "PENDING_FINANCE_APPROVAL",
                                !.approverApprovedBy = u],
           "CLAIM_ESCALATED", u)
  /\ UNCHANGED <<items, thread>>

EscalateClaim(u, c) ==
  /\ IsDecisionMaker(u) /\ IsDecidableBy(claims[c], u)
  /\ NeedsEscalation(c, u)
  /\ Write(c, StartReviewClock([claims[c] EXCEPT !.status = "PENDING_FINANCE_APPROVAL",
                                                 !.approverApprovedBy = u]),
           "CLAIM_ESCALATED", u)
  /\ UNCHANGED <<items, thread>>

ApproveClaim(u, c) ==
  /\ IsDecisionMaker(u) /\ IsDecidableBy(claims[c], u)
  /\ ~NeedsEscalation(c, u)
  /\ Write(c, [claims[c] EXCEPT !.status = "APPROVED", !.decidedBy = u],
           "CLAIM_APPROVED", u)
  /\ UNCHANGED <<items, thread>>

RejectClaim(u, c) ==
  /\ IsDecisionMaker(u) /\ IsDecidableBy(claims[c], u)
  /\ Write(c, [claims[c] EXCEPT !.status = "REJECTED", !.decidedBy = u, !.rejectedBy = u],
           "CLAIM_REJECTED", u)
  /\ UNCHANGED <<items, thread>>

RequestInfo(u, c) ==
  /\ IsDecisionMaker(u) /\ IsDecidableBy(claims[c], u)
  /\ Write(c, [claims[c] EXCEPT !.status = "INFO_REQUESTED"], "CLAIM_INFO_REQUESTED", u)
  /\ thread' = [thread EXCEPT ![c].info = "INFO_REQUEST"]
  /\ UNCHANGED items

\* A response to a question hands the claim back to the level that holds it and
\* restarts that level's clock; an unprompted message changes neither.
AnsweredRow(claim) ==
  IF claim.status = "INFO_REQUESTED"
  THEN StartReviewClock([claim EXCEPT !.status =
         IF IsAtFinanceStage(claim) THEN "PENDING_FINANCE_APPROVAL" ELSE "PENDING_APPROVAL"])
  ELSE claim

RespondToInfoRequest(u, c) ==
  /\ IsRespondableBy(claims[c], u)
  /\ Write(c, AnsweredRow(claims[c]), "CLAIM_INFO_RESPONDED", u)
  /\ thread' = [thread EXCEPT ![c].info = "RESPONSE"]
  /\ UNCHANGED items

-----------------------------------------------------------------------------
(* Delegation.                                                             *)

\* The claims of S move to approver `to`, all or none.
Reassign(u, S, to) ==
  /\ to \in active
  /\ \A c \in S : IsReassignableBy(claims[c], u) /\ claims[c].assignedApprover # to
  /\ claims' = [c \in ClaimIds |->
       IF c \in S THEN StartReviewClock([claims[c] EXCEPT !.assignedApprover = to])
                  ELSE claims[c]]
  /\ thread' = [c \in ClaimIds |->
       IF c \in S THEN [thread[c] EXCEPT !.notice = TRUE] ELSE thread[c]]
  /\ audit' = [c \in ClaimIds |->
       IF c \in S THEN [action |-> "CLAIM_REASSIGNED", actor |-> u,
                        old |-> claims[c].status, new |-> claims[c].status]
                  ELSE audit[c]]
  /\ UNCHANGED <<items, active>>

ReassignClaim(u, c, to) == IsDecisionMaker(u) /\ Reassign(u, {c}, to)

\* With claimIds: the listed claims, each of which must exist and qualify.
ReassignListed(u, S, to) == S # {} /\ IsDecisionMaker(u) /\ Reassign(u, S, to)

\* Without claimIds: the whole queue of one approver, the caller's own unless
\* the caller is Finance.
QueueOf(from) ==
  {c \in ClaimIds : claims[c].assignedApprover = from /\ IsReassignable(claims[c])}

ReassignQueue(u, from, to) ==
  /\ IsDecisionMaker(u)
  /\ Role[u] = "FINANCE" \/ from = u
  /\ from # to
  /\ Reassign(u, QueueOf(from), to)

-----------------------------------------------------------------------------
\* Accounts are activated and deactivated outside this program, in the database.
SetActive(a) ==
  /\ active' = (active \ {a}) \cup ({a} \ active)
  /\ UNCHANGED <<claims, items, thread, audit>>

AbsentClaim == [NewClaim(None) EXCEPT !.status = "ABSENT"]

Init ==
  /\ claims = [c \in ClaimIds |-> AbsentClaim]
  /\ items  = [c \in ClaimIds |-> [i \in ItemIds |-> None]]
  /\ thread = [c \in ClaimIds |-> [info |-> "NONE", notice |-> FALSE]]
  /\ audit  = [c \in ClaimIds |-> [action |-> "NONE", actor |-> None,
                                   old |-> "ABSENT", new |-> "ABSENT"]]
  /\ active = Approvers

ClaimantStep(u, c) ==
  \/ CreateClaim(u, c)
  \/ UpdateClaim(u, c)
  \/ \E i \in ItemIds, amount \in Amounts : AddItem(u, c, i, amount)
  \/ \E i \in ItemIds, amount \in Amounts : UpdateItem(u, c, i, amount)
  \/ \E i \in ItemIds : DeleteItem(u, c, i)
  \/ SubmitClaim(u, c)
  \/ ResubmitClaim(u, c)
  \/ CancelClaim(u, c)
  \/ RespondToInfoRequest(u, c)

DecisionStep(u, c) ==
  \/ EscalateClaim(u, c)
  \/ ApproveClaim(u, c)
  \/ RejectClaim(u, c)
  \/ RequestInfo(u, c)

DelegationStep(u, to) ==
  \/ \E c \in ClaimIds : ReassignClaim(u, c, to)
  \/ \E S \in SUBSET ClaimIds : ReassignListed(u, S, to)
  \/ \E from \in Users : ReassignQueue(u, from, to)

Next ==
  \/ \E u \in Users, c \in ClaimIds : ClaimantStep(u, c)
  \/ \E u \in Users, c \in ClaimIds : DecisionStep(u, c)
  \/ \E u, to \in Users : DelegationStep(u, to)
  \/ \E a \in Approvers : SetActive(a)

Spec == Init /\ [][Next]_vars

-----------------------------------------------------------------------------
(* Properties.                                                             *)

(* Every column holds a value of its type; in particular no sum of amounts *)
(* that was committed overflows the Decimal(10,2) total.                   *)
TypeOK ==
  /\ claims \in [ClaimIds -> ClaimRows]
  /\ items  \in [ClaimIds -> [ItemIds -> MoneyColumn \cup {None}]]
  /\ thread \in [ClaimIds -> Threads]
  /\ audit  \in [ClaimIds -> AuditRows]
  /\ active \in SUBSET Approvers

(* The cached claim.total is the sum of the claim's items, whatever order  *)
(* of edits, submissions and decisions led here (DATABASE.md, "Claim total *)
(* integrity").                                                            *)
TotalIsSumOfItems == \A c \in ClaimIds : claims[c].total = SumAmounts(items[c])

(* An approved claim whose items add up to more than the threshold was     *)
(* approved by Finance, who is neither its claimant nor the approver that  *)
(* signed first: approveClaim's escalation cannot be got around by edits,  *)
(* questions, reassignments, rejections and resubmissions.                 *)
FinanceDecidesAboveThreshold ==
  \A c \in ClaimIds :
    claims[c].status = "APPROVED" /\ SumAmounts(items[c]) > Threshold =>
      /\ claims[c].decidedBy \in Users
      /\ Role[claims[c].decidedBy] = "FINANCE"
      /\ claims[c].decidedBy \notin {claims[c].claimant, claims[c].approverApprovedBy}

(* A claim at the Finance stage, Finance's own questions included, was     *)
(* signed by an approver and still is above the threshold: its items stay  *)
(* locked for as long as Finance holds it.                                 *)
FinanceStageIsEarned ==
  \A c \in ClaimIds :
    IsAtFinanceStage(claims[c]) =>
      /\ claims[c].approverApprovedBy \in Approvers
      /\ SumAmounts(items[c]) > Threshold

(* A claim somebody is to decide on, or has approved, has a line item and  *)
(* an approver: deletions between submission and decision cannot empty it. *)
ReviewHasSubject ==
  \A c \in ClaimIds :
    IsInReview(claims[c].status) \/ claims[c].status = "APPROVED" =>
      ItemsOf(items[c]) # {} /\ claims[c].assignedApprover \in Approvers

(* decidedById is set exactly on decided claims and rejectedById exactly   *)
(* on rejected ones, over any number of rounds; so the test decidedById == *)
(* null of isCancellable never decides anything.                           *)
DecisionIsOfThisRound ==
  \A c \in ClaimIds :
    /\ claims[c].decidedBy # None <=> claims[c].status \in {"APPROVED", "REJECTED"}
    /\ claims[c].rejectedBy # None <=> claims[c].status = "REJECTED"

(* The review clock of a claim that waits for a reviewer was started for   *)
(* that reviewer: submission, delegation, escalation and answers all       *)
(* restart it, so nobody is reminded of a wait that was somebody else's.   *)
ClockRunsForHolder ==
  \A c \in ClaimIds :
    claims[c].status \in {"PENDING_APPROVAL", "PENDING_FINANCE_APPROVAL"} =>
      claims[c].clock = Reviewer(claims[c])

(* A claim waits for its claimant only while the newest message of its     *)
(* question/answer thread is a question (claimStateMachine.ts:58-59).      *)
OpenQuestionIsUnanswered ==
  \A c \in ClaimIds :
    claims[c].status = "INFO_REQUESTED" => thread[c].info = "INFO_REQUEST"

(* The three together: edits, deletions, questions and answers in any      *)
(* order leave a review that has a subject, is at the level that has to    *)
(* decide, and waits for the claimant only with reason.                    *)
ReviewIsSound == FinanceStageIsEarned /\ ReviewHasSubject /\ OpenQuestionIsUnanswered

(* Approved and cancelled claims never change again, in any column or      *)
(* line item.                                                              *)
ClosedForGood ==
  [][\A c \in ClaimIds :
       claims[c].status \in {"APPROVED", "CANCELLED"} =>
         claims'[c] = claims[c] /\ items'[c] = items[c] /\ audit'[c] = audit[c]]_vars

(* A claim in review leaves its status only by its claimant answering or   *)
(* cancelling, by Finance, or by the approver it is assigned to before     *)
(* that approver has signed; the audit row names who it was.               *)
OnlyHolderMovesReview ==
  [][\A c \in ClaimIds :
       IsInReview(claims[c].status) /\ claims'[c].status # claims[c].status =>
         LET by == audit'[c].actor IN
         /\ audit'[c].old = claims[c].status /\ audit'[c].new = claims'[c].status
         /\ \/ by = claims[c].claimant /\ audit'[c].action \in {"CLAIM_CANCELLED", "CLAIM_INFO_RESPONDED"}
            \/ by \in Users /\ Role[by] = "FINANCE"
            \/ by = claims[c].assignedApprover /\ ~IsAtFinanceStage(claims[c])]_vars

-----------------------------------------------------------------------------
(* The inductive invariant from which they follow (ClaimLifecycleProofs).  *)

(* What the columns of one row say about each other. *)
RowInv(r) ==
  /\ r.status # "ABSENT" => r.claimant \in Users /\ Role[r.claimant] = "CLAIMANT"
  /\ r.assignedApprover # None => r.assignedApprover \in Approvers
  /\ r.approverApprovedBy # None => r.approverApprovedBy \in Approvers
  /\ IsInReview(r.status) \/ r.status = "APPROVED" => r.assignedApprover # None
  /\ r.status \in {"ABSENT", "DRAFT", "PENDING_APPROVAL"} => r.approverApprovedBy = None
  /\ IsAtFinanceStage(r) => r.approverApprovedBy # None /\ r.total > Threshold
  /\ r.status = "APPROVED" /\ r.total > Threshold =>
       r.decidedBy \in Users /\ Role[r.decidedBy] = "FINANCE"
  /\ r.decidedBy # None <=> r.status \in {"APPROVED", "REJECTED"}
  /\ r.rejectedBy # None <=> r.status = "REJECTED"
  /\ r.status \in {"PENDING_APPROVAL", "PENDING_FINANCE_APPROVAL"} => r.clock = Reviewer(r)

(* What a row says about the line items of its claim. *)
SubjectInv(r, its) ==
  /\ r.total = SumAmounts(its)
  /\ r.status = "ABSENT" => ItemsOf(its) = {}
  /\ IsInReview(r.status) \/ r.status = "APPROVED" => ItemsOf(its) # {}

(* What a row says about the messages of its claim. *)
QuestionInv(r, th) == r.status = "INFO_REQUESTED" => th.info = "INFO_REQUEST"

ClaimInv(c) ==
  /\ RowInv(claims[c])
  /\ SubjectInv(claims[c], items[c])
  /\ QuestionInv(claims[c], thread[c])

IInv == TypeOK /\ \A c \in ClaimIds : ClaimInv(c)

-----------------------------------------------------------------------------
(* The workflow this module implements.                                    *)

Workflow == INSTANCE ApprovalWorkflow WITH
  Values <- MoneyColumn,
  stage  <- [c \in ClaimIds |-> StageOf(claims[c])],
  value  <- [c \in ClaimIds |-> claims[c].total],
  signed <- [c \in ClaimIds |-> SignaturesOf(claims[c])]

(* Every step of the services is a step of the abstract workflow, or none. *)
ImplementsWorkflow == Workflow!Spec
=============================================================================
