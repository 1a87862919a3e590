------------------------- MODULE ClaimLifecycleProofs -------------------------
(***************************************************************************)
(* Proofs about claims, one request at a time: that the properties of      *)
(* ClaimLifecycle, ClaimDashboards and DatabaseSeed hold for any number of *)
(* claims, items, users and containers, any amounts and any threshold.     *)
(*                                                                         *)
(* Claims: no invariant is inductive alone.  A claim approved above the    *)
(* threshold was escalated because its cached total said so, which is only *)
(* worth something if the total is the sum of the items; and its approver  *)
(* can no longer decide because approverApprovedById is null whenever the  *)
(* claim is back in the approver's queue.  RowInv, SubjectInv and          *)
(* QuestionInv are what each claim keeps from step to step.                *)
(*                                                                         *)
(* Dashboards: whoever signed or decided a claim as its approver still is  *)
(* its approver (SignersInv).                                              *)
(*                                                                         *)
(* The seed: until there is a user nothing is used, and a seed no other    *)
(* container overlaps runs alone (SeedInv); wherever it stops, the columns *)
(* of a row agree (RowsInv).  An undisturbed seed finds what it executed   *)
(* before: the preparation, then the parts of its claims, then the limits. *)
(* A database with all of it is legal, and users keep it so (BuiltInv).    *)
(***************************************************************************)
EXTENDS DatabaseSeed, SequenceTheorems, TLAPS

-----------------------------------------------------------------------------
(* A sum over no items is zero: the total a new claim starts with.         *)
LEMMA SumOfNothing ==
  ASSUME NEW its, ItemsOf(its) = {}
  PROVE  SumAmounts(its) = 0
<1> DEFINE F(iter) == [s \in SUBSET {} |-> IF s = {} THEN 0
                         ELSE its[CHOOSE x \in s : TRUE] + iter[s \ {CHOOSE x \in s : TRUE}]]
           iter == CHOOSE g : g = F(g)
           zero == [s \in SUBSET {} |-> 0]
<1>1. zero = F(zero)
  OBVIOUS
<1>2. iter = F(iter)
  <2> HIDE DEF F
  <2> QED BY <1>1
<1>3. iter[{}] = 0
  <2> HIDE DEF iter
  <2> QED BY <1>2
<1>4. SumAmounts(its) = iter[{}]
  BY DEF SumAmounts, SumFunctionOnSet, FoldFunctionOnSet, MapThenFoldSet
<1> QED BY <1>3, <1>4

(* An operation on the row of one claim keeps the invariant when the row   *)
(* it writes fits the items and messages the claim then has, and it        *)
(* touches those of no other claim.                                        *)
LEMMA WriteKeepsInv ==
  ASSUME IInv, NEW c \in ClaimIds, NEW row \in ClaimRows, NEW u \in Users,
         NEW action \in AuditActions, Write(c, row, action, u),
         items'  \in [ClaimIds -> [ItemIds -> MoneyColumn \cup {None}]],
         thread' \in [ClaimIds -> Threads],
         \A d \in ClaimIds \ {c} : items'[d] = items[d] /\ thread'[d] = thread[d],
         RowInv(row), SubjectInv(row, items'[c]), QuestionInv(row, thread'[c])
  PROVE  IInv'
<1>1. /\ claims' = [claims EXCEPT ![c] = row]
      /\ audit' = [audit EXCEPT ![c] = [action |-> action, actor |-> u,
                                        old |-> claims[c].status, new |-> row.status]]
      /\ active' = active
  BY DEF Write, RecordAudit
<1>2. TypeOK'
  <2>1. claims' \in [ClaimIds -> ClaimRows]
    BY <1>1 DEF IInv, TypeOK
  <2>2. [action |-> action, actor |-> u, old |-> claims[c].status, new |-> row.status] \in AuditRows
    <3>1. claims[c].status \in Statuses /\ row.status \in Statuses /\ u \in UserRefs
      BY DEF IInv, TypeOK, ClaimRows, UserRefs
    <3> QED BY <3>1 DEF AuditRows
  <2>3. audit' \in [ClaimIds -> AuditRows]
    BY <1>1, <2>2 DEF IInv, TypeOK
  <2> QED BY <1>1, <2>1, <2>3 DEF IInv, TypeOK
<1>3. ASSUME NEW d \in ClaimIds PROVE ClaimInv(d)'
  <2>1. CASE d = c
    <3>1. claims'[d] = row
      BY <1>1, <2>1 DEF IInv, TypeOK
    <3> QED BY <2>1, <3>1 DEF ClaimInv
  <2>2. CASE d # c
    <3>1. claims'[d] = claims[d] /\ items'[d] = items[d] /\ thread'[d] = thread[d]
      BY <1>1, <2>2 DEF IInv, TypeOK
    <3>2. ClaimInv(d)
      BY DEF IInv
    <3> QED BY <3>1, <3>2 DEF ClaimInv
  <2> QED BY <2>1, <2>2
<1> QED BY <1>2, <1>3 DEF IInv

-----------------------------------------------------------------------------
(* One lemma per operation.                                                *)

(* What the invariant says of one claim. *)
LEMMA ClaimFacts ==
  ASSUME IInv, NEW c \in ClaimIds
  PROVE  /\ claims[c] \in ClaimRows
         /\ items[c] \in [ItemIds -> MoneyColumn \cup {None}]
         /\ thread[c] \in Threads
         /\ RowInv(claims[c]) /\ SubjectInv(claims[c], items[c]) /\ QuestionInv(claims[c], thread[c])
BY DEF IInv, TypeOK, ClaimInv

LEMMA CreateClaimKeepsInv ==
  ASSUME IInv, NEW u \in Users, NEW c \in ClaimIds, CreateClaim(u, c)
  PROVE  IInv'
<1>1. NewClaim(u) \in ClaimRows
  BY MoneyAssumption, CycleAssumption DEF NewClaim, ClaimRows, UserRefs, Statuses, MoneyColumn
<1>2. RowInv(NewClaim(u))
  BY DEF CreateClaim, NewClaim, RowInv, IsInReview, IsAtFinanceStage
<1>3. SubjectInv(NewClaim(u), items[c])
  BY ClaimFacts, SumOfNothing DEF CreateClaim, NewClaim, SubjectInv, IsInReview
<1> QED
  BY <1>1, <1>2, <1>3, WriteKeepsInv
  DEF CreateClaim, IInv, TypeOK, NewClaim, QuestionInv, AuditActions

LEMMA UpdateClaimKeepsInv ==
  ASSUME IInv, NEW u \in Users, NEW c \in ClaimIds, UpdateClaim(u, c)
  PROVE  IInv'
BY ClaimFacts, WriteKeepsInv DEF UpdateClaim, IInv, TypeOK, AuditActions

(* Saving items recalculates the total and leaves every other column; an   *)
(* editable claim is at no Finance stage, so only the total and the items  *)
(* can disturb the invariant.                                              *)
LEMMA SaveItemsKeepsInv ==
  ASSUME IInv, NEW u \in Users, NEW c \in ClaimIds, IsOwnedEditable(u, c),
         NEW its \in [ItemIds -> MoneyColumn \cup {None}],
         claims[c].status = "PENDING_APPROVAL" => ItemsOf(its) # {},
         NEW action \in AuditActions, SaveItems(c, its, action, u)
  PROVE  IInv'
<1> DEFINE row == [claims[c] EXCEPT !.total = SumAmounts(its)]
<1>1. row \in ClaimRows
  BY ClaimFacts DEF SaveItems, ClaimRows
<1>2. /\ \A f \in {"status", "claimant", "assignedApprover", "decidedBy", "approverApprovedBy",
                   "rejectedBy", "clock"} : row[f] = claims[c][f]
      /\ row.total = SumAmounts(its)
  BY ClaimFacts DEF ClaimRows
<1>3. claims[c].status \in {"DRAFT", "REJECTED", "PENDING_APPROVAL"}
  BY DEF IsOwnedEditable, IsEditableStatus
<1>4. RowInv(row)
  BY <1>2, <1>3, ClaimFacts DEF RowInv, IsInReview, IsAtFinanceStage, Reviewer
<1>5. SubjectInv(row, its)
  BY <1>2, <1>3 DEF SubjectInv, IsInReview
<1>6. /\ items' \in [ClaimIds -> [ItemIds -> MoneyColumn \cup {None}]]
      /\ items'[c] = its
      /\ \A d \in ClaimIds \ {c} : items'[d] = items[d]
  BY DEF SaveItems, IInv, TypeOK
<1>7. thread' = thread /\ Write(c, row, action, u)
  BY DEF SaveItems
<1>8. QuestionInv(row, thread'[c])
  BY <1>2, <1>3 DEF QuestionInv
<1> HIDE DEF row
<1> QED
  BY <1>1, <1>4, <1>5, <1>6, <1>7, <1>8, WriteKeepsInv DEF IInv, TypeOK

LEMMA AddItemKeepsInv ==
  ASSUME IInv, NEW u \in Users, NEW c \in ClaimIds, NEW i \in ItemIds,
         NEW amount \in Amounts, AddItem(u, c, i, amount)
  PROVE  IInv'
<1> DEFINE its == [items[c] EXCEPT ![i] = Stored(amount)]
<1>1. its \in [ItemIds -> MoneyColumn \cup {None}] /\ its[i] = Stored(amount)
  BY ClaimFacts DEF AddItem
<1>2. ItemsOf(its) # {}
  BY <1>1, NoneAssumption DEF AddItem, ItemsOf, MoneyColumn
<1> HIDE DEF its
<1>3. "ITEM_ADDED" \in AuditActions
  BY DEF AuditActions
<1> QED BY <1>1, <1>2, <1>3, SaveItemsKeepsInv DEF AddItem, its

LEMMA UpdateItemKeepsInv ==
  ASSUME IInv, NEW u \in Users, NEW c \in ClaimIds, NEW i \in ItemIds,
         NEW amount \in Amounts, UpdateItem(u, c, i, amount)
  PROVE  IInv'
<1> DEFINE its == [items[c] EXCEPT ![i] = Stored(amount)]
<1>1. its \in [ItemIds -> MoneyColumn \cup {None}] /\ its[i] = Stored(amount)
  BY ClaimFacts DEF UpdateItem
<1>2. ItemsOf(its) # {}
  BY <1>1, NoneAssumption DEF UpdateItem, ItemsOf, MoneyColumn
<1> HIDE DEF its
<1>3. "ITEM_UPDATED" \in AuditActions
  BY DEF AuditActions
<1> QED BY <1>1, <1>2, <1>3, SaveItemsKeepsInv DEF UpdateItem, its

(* Deleting one of several items leaves one. *)
LEMMA DeleteItemKeepsInv ==
  ASSUME IInv, NEW u \in Users, NEW c \in ClaimIds, NEW i \in ItemIds, DeleteItem(u, c, i)
  PROVE  IInv'
<1> DEFINE its == [items[c] EXCEPT ![i] = None]
<1>1. its \in [ItemIds -> MoneyColumn \cup {None}]
  BY ClaimFacts
<1>2. ASSUME claims[c].status = "PENDING_APPROVAL" PROVE ItemsOf(its) # {}
  <2>1. i \in ItemsOf(items[c]) /\ ItemsOf(items[c]) # {i}
    BY <1>2 DEF DeleteItem, ItemsOf
  <2>2. PICK j \in ItemsOf(items[c]) : j # i
    BY <2>1
  <2>3. its[j] = items[c][j]
    BY <2>2, ClaimFacts DEF ItemsOf
  <2> QED BY <2>2, <2>3 DEF ItemsOf
<1> HIDE DEF its
<1>3. "ITEM_DELETED" \in AuditActions
  BY DEF AuditActions
<1> QED BY <1>1, <1>2, <1>3, SaveItemsKeepsInv DEF DeleteItem, its

(* Restarting the clock changes the clock, and nothing the clock depends on. *)
LEMMA ClockRestarted ==
  ASSUME NEW r \in ClaimRows
  PROVE  /\ StartReviewClock(r) \in ClaimRows
         /\ \A f \in {"status", "claimant", "assignedApprover", "decidedBy", "approverApprovedBy",
                      "rejectedBy", "total"} : StartReviewClock(r)[f] = r[f]
         /\ StartReviewClock(r).clock = Reviewer(r)
<1>1. Reviewer(r) \in UserRefs \cup {"FINANCE"}
  BY DEF Reviewer, ClaimRows
<1>2. StartReviewClock(r) \in ClaimRows
  BY <1>1 DEF StartReviewClock, ClaimRows
<1> QED BY <1>2 DEF StartReviewClock, ClaimRows

(* Whom resolveApprover() returns is an active approver. *)
LEMMA ResolvedIsApprover ==
  ASSUME IInv, NEW claim, NEW isResubmit, NEW a \in ResolvedApprovers(claim, isResubmit)
  PROVE  a \in Approvers
BY DEF ResolvedApprovers, LeastLoadedApprovers, IInv, TypeOK

LEMMA RunSubmissionKeepsInv ==
  ASSUME IInv, NEW u \in Users, NEW c \in ClaimIds, NEW isResubmit \in BOOLEAN,
         RunSubmission(u, c, isResubmit)
  PROVE  IInv'
<1>1. PICK a \in ResolvedApprovers(claims[c], isResubmit) :
        Write(c, SubmittedRow(c, a, isResubmit),
              IF isResubmit THEN "CLAIM_RESUBMITTED" ELSE "CLAIM_SUBMITTED", u)
  BY DEF RunSubmission
<1> DEFINE row == SubmittedRow(c, a, isResubmit)
<1>2. a \in Approvers /\ a \in Users /\ a # None
  BY ResolvedIsApprover, NoneAssumption DEF Approvers
<1>3. /\ SumAmounts(items[c]) \in MoneyColumn
      /\ claims[c].submissionCycle \in 1..MaxCycle
      /\ isResubmit => claims[c].submissionCycle < MaxCycle
  BY ClaimFacts DEF RunSubmission, ClaimRows
<1>4. (IF isResubmit THEN claims[c].submissionCycle + 1 ELSE claims[c].submissionCycle) \in 1..MaxCycle
  BY <1>3, CycleAssumption
<1> DEFINE base == [claims[c] EXCEPT
              !.status = "PENDING_APPROVAL", !.assignedApprover = a,
              !.decidedBy = None, !.approverApprovedBy = None, !.rejectedBy = None,
              !.total = SumAmounts(items[c]),
              !.submissionCycle = IF isResubmit THEN @ + 1 ELSE @]
<1>5a. row = StartReviewClock(base)
  BY DEF SubmittedRow
<1>5b. base \in ClaimRows
  BY <1>2, <1>3, <1>4, ClaimFacts, ZenonT(40) DEF ClaimRows, UserRefs, Statuses
<1>5c. /\ base.status = "PENDING_APPROVAL" /\ base.assignedApprover = a
       /\ base.decidedBy = None /\ base.approverApprovedBy = None /\ base.rejectedBy = None
       /\ base.total = SumAmounts(items[c]) /\ base.claimant = claims[c].claimant
  BY ClaimFacts DEF ClaimRows
<1> HIDE DEF base, row
<1>5. /\ row.status = "PENDING_APPROVAL" /\ row.assignedApprover = a
      /\ row.decidedBy = None /\ row.approverApprovedBy = None /\ row.rejectedBy = None
      /\ row.total = SumAmounts(items[c]) /\ row.claimant = claims[c].claimant
      /\ row.clock = a
  BY <1>5a, <1>5b, <1>5c, ClockRestarted DEF Reviewer, IsAtFinanceStage
<1>6. row \in ClaimRows
  BY <1>5a, <1>5b, ClockRestarted
<1>7. RowInv(row)
  BY <1>2, <1>5, ClaimFacts
  DEF RunSubmission, IsSubmittableStatus, RowInv, IsInReview, IsAtFinanceStage, Reviewer
<1>8. SubjectInv(row, items[c]) /\ QuestionInv(row, thread[c])
  BY <1>5 DEF RunSubmission, SubjectInv, QuestionInv
<1>9. (IF isResubmit THEN "CLAIM_RESUBMITTED" ELSE "CLAIM_SUBMITTED") \in AuditActions
  BY DEF AuditActions
<1> QED
  BY <1>1, <1>6, <1>7, <1>8, <1>9, WriteKeepsInv DEF RunSubmission, IInv, TypeOK, row

LEMMA CancelClaimKeepsInv ==
  ASSUME IInv, NEW u \in Users, NEW c \in ClaimIds, CancelClaim(u, c)
  PROVE  IInv'
<1> DEFINE row == [claims[c] EXCEPT !.status = "CANCELLED"]
<1>1. row \in ClaimRows
  BY ClaimFacts DEF ClaimRows, UserRefs, Statuses
<1>2. RowInv(row)
  BY ClaimFacts, NoneAssumption DEF CancelClaim, IsCancellable, ClaimRows, UserRefs, RowInv, IsInReview, IsAtFinanceStage, Reviewer
<1>3. SubjectInv(row, items[c])
  BY ClaimFacts DEF CancelClaim, IsCancellable, ClaimRows, SubjectInv, IsInReview
<1>4. Write(c, row, "CLAIM_CANCELLED", u) /\ "CLAIM_CANCELLED" \in AuditActions
  BY DEF CancelClaim, AuditActions
<1>5. QuestionInv(row, thread[c])
  BY ClaimFacts DEF QuestionInv, ClaimRows
<1> HIDE DEF row
<1> QED
  BY <1>1, <1>2, <1>3, <1>4, <1>5, WriteKeepsInv DEF CancelClaim, IInv, TypeOK

(* Escalation happens from the approver's queue only, where nobody has     *)
(* decided, and above the threshold only.                                  *)
LEMMA EscalateClaimKeepsInv ==
  ASSUME IInv, NEW u \in Users, NEW c \in ClaimIds, EscalateClaim(u, c)
  PROVE  IInv'
<1> DEFINE base == [claims[c] EXCEPT !.status = "PENDING_FINANCE_APPROVAL",
                                    !.approverApprovedBy = u]
           row == StartReviewClock(base)
<1>1. base \in ClaimRows
  BY ClaimFacts DEF ClaimRows, UserRefs, Statuses
<1>2. /\ row \in ClaimRows
      /\ row.status = "PENDING_FINANCE_APPROVAL" /\ row.approverApprovedBy = u
      /\ \A f \in {"claimant", "assignedApprover", "decidedBy", "rejectedBy", "total"} :
           row[f] = claims[c][f]
      /\ row.clock = "FINANCE"
  <2>1. /\ base.status = "PENDING_FINANCE_APPROVAL" /\ base.approverApprovedBy = u
        /\ \A f \in {"claimant", "assignedApprover", "decidedBy", "rejectedBy", "total"} :
             base[f] = claims[c][f]
    BY ClaimFacts DEF ClaimRows
  <2> HIDE DEF base
  <2> QED BY <1>1, <2>1, ClockRestarted DEF Reviewer, IsAtFinanceStage
<1>3. /\ IsInReview(claims[c].status) /\ claims[c].total > Threshold
      /\ claims[c].assignedApprover = u /\ u # None /\ u \in Approvers
  BY ClaimFacts, NoneAssumption
  DEF EscalateClaim, IsDecidableBy, NeedsEscalation, RequiresFinanceApproval, RowInv
<1>4. Write(c, row, "CLAIM_ESCALATED", u) /\ "CLAIM_ESCALATED" \in AuditActions
  BY DEF EscalateClaim, AuditActions
<1> HIDE DEF row
<1>5. RowInv(row)
  BY <1>2, <1>3, ClaimFacts DEF RowInv, IsInReview, IsAtFinanceStage, Reviewer
<1>6. SubjectInv(row, items[c]) /\ QuestionInv(row, thread[c])
  BY <1>2, <1>3, ClaimFacts DEF SubjectInv, QuestionInv, IsInReview
<1> QED
  BY <1>2, <1>4, <1>5, <1>6, WriteKeepsInv DEF EscalateClaim, IInv, TypeOK

(* An approval that is not an escalation is Finance's, or is given to a    *)
(* claim up to the threshold.                                              *)
LEMMA ApproveClaimKeepsInv ==
  ASSUME IInv, NEW u \in Users, NEW c \in ClaimIds, ApproveClaim(u, c)
  PROVE  IInv'
<1> DEFINE row == [claims[c] EXCEPT !.status = "APPROVED", !.decidedBy = u]
<1>1. row \in ClaimRows
  BY ClaimFacts DEF ClaimRows, UserRefs, Statuses
<1>2. RowInv(row)
  BY ClaimFacts, NoneAssumption DEF ApproveClaim, IsDecidableBy, NeedsEscalation, RequiresFinanceApproval, ClaimRows, UserRefs, RowInv, IsInReview, IsAtFinanceStage, Reviewer
<1>3. SubjectInv(row, items[c])
  BY ClaimFacts DEF ApproveClaim, IsDecidableBy, NeedsEscalation, RequiresFinanceApproval, ClaimRows, SubjectInv, IsInReview
<1>4. Write(c, row, "CLAIM_APPROVED", u) /\ "CLAIM_APPROVED" \in AuditActions
  BY DEF ApproveClaim, AuditActions
<1>5. QuestionInv(row, thread[c])
  BY ClaimFacts DEF QuestionInv, ClaimRows
<1> HIDE DEF row
<1> QED
  BY <1>1, <1>2, <1>3, <1>4, <1>5, WriteKeepsInv DEF ApproveClaim, IInv, TypeOK

LEMMA RejectClaimKeepsInv ==
  ASSUME IInv, NEW u \in Users, NEW c \in ClaimIds, RejectClaim(u, c)
  PROVE  IInv'
<1> DEFINE row == [claims[c] EXCEPT !.status = "REJECTED", !.decidedBy = u, !.rejectedBy = u]
<1>1. row \in ClaimRows
  BY ClaimFacts DEF ClaimRows, UserRefs, Statuses
<1>2. RowInv(row)
  BY ClaimFacts, NoneAssumption DEF RejectClaim, IsDecidableBy, ClaimRows, UserRefs, RowInv, IsInReview, IsAtFinanceStage, Reviewer
<1>3. SubjectInv(row, items[c])
  BY ClaimFacts DEF RejectClaim, IsDecidableBy, ClaimRows, SubjectInv, IsInReview
<1>4. Write(c, row, "CLAIM_REJECTED", u) /\ "CLAIM_REJECTED" \in AuditActions
  BY DEF RejectClaim, AuditActions
<1>5. QuestionInv(row, thread[c])
  BY ClaimFacts DEF QuestionInv, ClaimRows
<1> HIDE DEF row
<1> QED
  BY <1>1, <1>2, <1>3, <1>4, <1>5, WriteKeepsInv DEF RejectClaim, IInv, TypeOK

LEMMA RequestInfoKeepsInv ==
  ASSUME IInv, NEW u \in Users, NEW c \in ClaimIds, RequestInfo(u, c)
  PROVE  IInv'
<1> DEFINE row == [claims[c] EXCEPT !.status = "INFO_REQUESTED"]
<1>1. row \in ClaimRows
  BY ClaimFacts DEF ClaimRows, UserRefs, Statuses
<1>2. RowInv(row)
  BY ClaimFacts, NoneAssumption DEF RequestInfo, IsDecidableBy, ClaimRows, UserRefs, RowInv, IsInReview, IsAtFinanceStage, Reviewer
<1>3. SubjectInv(row, items[c])
  BY ClaimFacts DEF RequestInfo, IsDecidableBy, ClaimRows, SubjectInv, IsInReview
<1>4. Write(c, row, "CLAIM_INFO_REQUESTED", u) /\ "CLAIM_INFO_REQUESTED" \in AuditActions
  BY DEF RequestInfo, AuditActions
<1>5. /\ thread' \in [ClaimIds -> Threads] /\ QuestionInv(row, thread'[c])
      /\ \A d \in ClaimIds \ {c} : thread'[d] = thread[d]
  BY DEF RequestInfo, IInv, TypeOK, Threads, QuestionInv
<1> HIDE DEF row
<1> QED
  BY <1>1, <1>2, <1>3, <1>4, <1>5, WriteKeepsInv DEF RequestInfo, IInv, TypeOK

(* An answer hands the claim to the level isAtFinanceStage() finds; the    *)
(* claim is at the Finance stage after it just when it was before.         *)
LEMMA AnsweredRowFacts ==
  ASSUME NEW r \in ClaimRows, RowInv(r), IsInReview(r.status)
  PROVE  /\ AnsweredRow(r) \in ClaimRows /\ RowInv(AnsweredRow(r))
         /\ AnsweredRow(r).status \in {"PENDING_APPROVAL", "PENDING_FINANCE_APPROVAL"}
         /\ AnsweredRow(r).total = r.total
         /\ AnsweredRow(r).approverApprovedBy = r.approverApprovedBy
         /\ IsAtFinanceStage(AnsweredRow(r)) <=> IsAtFinanceStage(r)
<1>1. CASE r.status = "INFO_REQUESTED"
  <2> DEFINE level == IF IsAtFinanceStage(r) THEN "PENDING_FINANCE_APPROVAL" ELSE "PENDING_APPROVAL"
             base == [r EXCEPT !.status = level]
             row == StartReviewClock(base)
  <2>1. /\ base \in ClaimRows /\ base.status = level
        /\ \A f \in {"claimant", "assignedApprover", "decidedBy", "approverApprovedBy",
                     "rejectedBy", "total"} : base[f] = r[f]
    BY DEF ClaimRows, Statuses
  <2>2. /\ row \in ClaimRows /\ row.status = level
        /\ \A f \in {"claimant", "assignedApprover", "decidedBy", "approverApprovedBy",
                     "rejectedBy", "total"} : row[f] = r[f]
        /\ row.clock = Reviewer(base)
    <3> HIDE DEF base, level
    <3> QED BY <2>1, ClockRestarted
  <2>3. row.clock = Reviewer(row)
    BY <2>1, <2>2 DEF Reviewer, IsAtFinanceStage
  <2>4. AnsweredRow(r) = row
    BY <1>1 DEF AnsweredRow
  <2> HIDE DEF row, base
  <2>5. RowInv(row)
    BY <1>1, <2>2, <2>3 DEF RowInv, IsInReview, IsAtFinanceStage
  <2> QED BY <1>1, <2>2, <2>4, <2>5 DEF IsAtFinanceStage, RowInv
<1>2. CASE r.status # "INFO_REQUESTED"
  BY <1>2 DEF AnsweredRow, IsInReview
<1> QED BY <1>1, <1>2

LEMMA RespondToInfoRequestKeepsInv ==
  ASSUME IInv, NEW u \in Users, NEW c \in ClaimIds, RespondToInfoRequest(u, c)
  PROVE  IInv'
<1> DEFINE row == AnsweredRow(claims[c])
<1>1. IsInReview(claims[c].status)
  BY DEF RespondToInfoRequest, IsRespondableBy
<1>2. /\ row \in ClaimRows /\ RowInv(row) /\ row.total = claims[c].total
      /\ row.status \in {"PENDING_APPROVAL", "PENDING_FINANCE_APPROVAL"}
  BY <1>1, ClaimFacts, AnsweredRowFacts
<1>3. Write(c, row, "CLAIM_INFO_RESPONDED", u) /\ "CLAIM_INFO_RESPONDED" \in AuditActions
  BY DEF RespondToInfoRequest, AuditActions
<1>4. /\ thread' \in [ClaimIds -> Threads]
      /\ \A d \in ClaimIds \ {c} : thread'[d] = thread[d]
  BY DEF RespondToInfoRequest, IInv, TypeOK, Threads
<1> HIDE DEF row
<1>5. SubjectInv(row, items[c]) /\ QuestionInv(row, thread'[c])
  BY <1>1, <1>2, ClaimFacts DEF SubjectInv, QuestionInv
<1> QED
  BY <1>2, <1>3, <1>4, <1>5, WriteKeepsInv DEF RespondToInfoRequest, IInv, TypeOK

(* A reassignment changes the approver, clock and notice of claims that    *)
(* are with their approver, and nothing else.                              *)
LEMMA ReassignKeepsInv ==
  ASSUME IInv, NEW u \in Users, NEW S \in SUBSET ClaimIds, NEW to \in Users,
         Reassign(u, S, to)
  PROVE  IInv'
<1>1. to \in Approvers /\ to # None
  BY NoneAssumption DEF Reassign, IInv, TypeOK
<1>2. ASSUME NEW c \in S
      PROVE  /\ claims'[c] \in ClaimRows /\ thread'[c] \in Threads /\ audit'[c] \in AuditRows
             /\ ClaimInv(c)'
  <2>0. c \in ClaimIds /\ IsReassignable(claims[c])
    BY DEF Reassign, IsReassignableBy
  <2> DEFINE base == [claims[c] EXCEPT !.assignedApprover = to]
             row == StartReviewClock(base)
  <2>1. /\ base \in ClaimRows /\ base.assignedApprover = to
        /\ \A f \in {"status", "claimant", "decidedBy", "approverApprovedBy", "rejectedBy",
                     "total"} : base[f] = claims[c][f]
    BY <2>0, ClaimFacts DEF ClaimRows, UserRefs
  <2>2. /\ row \in ClaimRows /\ row.assignedApprover = to /\ row.clock = Reviewer(base)
        /\ \A f \in {"status", "claimant", "decidedBy", "approverApprovedBy", "rejectedBy",
                     "total"} : row[f] = claims[c][f]
    <3> HIDE DEF base
    <3> QED BY <2>1, ClockRestarted
  <2>3. row.clock = to /\ Reviewer(row) = to
    BY <2>0, <2>1, <2>2 DEF Reviewer, IsAtFinanceStage, IsReassignable
  <2>4. claims'[c] = row
    BY <2>0 DEF Reassign
  <2> HIDE DEF row, base
  <2>5. RowInv(row)
    BY <1>1, <2>0, <2>2, <2>3, ClaimFacts
    DEF RowInv, IsInReview, IsAtFinanceStage, IsReassignable
  <2>6. thread'[c] \in Threads /\ thread'[c].info = thread[c].info
    BY <2>0, ClaimFacts DEF Reassign, Threads
  <2>7. audit'[c] \in AuditRows
    <3>1. claims[c].status \in Statuses
      BY <2>0, ClaimFacts DEF ClaimRows
    <3>2. audit'[c] = [action |-> "CLAIM_REASSIGNED", actor |-> u,
                      old |-> claims[c].status, new |-> claims[c].status]
      BY <2>0 DEF Reassign
    <3> QED BY <3>1, <3>2 DEF AuditRows, AuditActions, UserRefs
  <2>8. SubjectInv(row, items[c]) /\ QuestionInv(row, thread'[c])
    BY <2>0, <2>2, <2>6, ClaimFacts DEF SubjectInv, QuestionInv
  <2> QED BY <2>2, <2>4, <2>5, <2>6, <2>7, <2>8 DEF ClaimInv, Reassign
<1>3. ASSUME NEW c \in ClaimIds \ S
      PROVE  /\ claims'[c] = claims[c] /\ thread'[c] = thread[c] /\ audit'[c] = audit[c]
             /\ ClaimInv(c)'
  <2>1. claims'[c] = claims[c] /\ thread'[c] = thread[c] /\ audit'[c] = audit[c] /\ items' = items
    BY DEF Reassign
  <2> QED BY <2>1 DEF ClaimInv, IInv
<1>4. TypeOK'
  <2>1. claims' \in [ClaimIds -> ClaimRows]
    <3>1. \A c \in ClaimIds : claims'[c] \in ClaimRows
      BY <1>2, <1>3, ClaimFacts
    <3>2. claims' = [c \in ClaimIds |-> claims'[c]]
      BY DEF Reassign
    <3> QED BY <3>1, <3>2
  <2>2. thread' \in [ClaimIds -> Threads]
    <3>1. \A c \in ClaimIds : thread'[c] \in Threads
      BY <1>2, <1>3, ClaimFacts
    <3>2. thread' = [c \in ClaimIds |-> thread'[c]]
      BY DEF Reassign
    <3> QED BY <3>1, <3>2
  <2>3. audit' \in [ClaimIds -> AuditRows]
    <3>1. \A c \in ClaimIds : audit'[c] \in AuditRows
      BY <1>2, <1>3 DEF IInv, TypeOK
    <3>2. audit' = [c \in ClaimIds |-> audit'[c]]
      BY DEF Reassign
    <3> QED BY <3>1, <3>2
  <2> QED BY <2>1, <2>2, <2>3 DEF TypeOK, IInv, Reassign
<1> QED BY <1>2, <1>3, <1>4 DEF IInv

-----------------------------------------------------------------------------
LEMMA InitInv == Init => IInv
<1> SUFFICES ASSUME Init PROVE IInv
  OBVIOUS
<1>1. /\ AbsentClaim \in ClaimRows
      /\ AbsentClaim.status = "ABSENT" /\ AbsentClaim.total = 0
      /\ \A f \in {"claimant", "assignedApprover", "decidedBy", "approverApprovedBy",
                   "rejectedBy", "clock"} : AbsentClaim[f] = None
  BY MoneyAssumption, CycleAssumption
  DEF AbsentClaim, NewClaim, ClaimRows, UserRefs, Statuses, MoneyColumn
<1>2. TypeOK
  BY <1>1 DEF Init, TypeOK, Threads, AuditRows, AuditActions, Statuses, UserRefs
<1>3. ASSUME NEW c \in ClaimIds PROVE ClaimInv(c)
  <2>1. claims[c] = AbsentClaim /\ ItemsOf(items[c]) = {}
    BY DEF Init, ItemsOf
  <2>2. RowInv(claims[c])
    BY <1>1, <2>1 DEF RowInv, IsInReview, IsAtFinanceStage
  <2>3. SubjectInv(claims[c], items[c])
    BY <1>1, <2>1, SumOfNothing DEF SubjectInv, IsInReview
  <2>4. QuestionInv(claims[c], thread[c])
    BY <1>1, <2>1 DEF QuestionInv
  <2> QED BY <2>2, <2>3, <2>4 DEF ClaimInv
<1> QED BY <1>2, <1>3 DEF IInv

LEMMA NextInv == IInv /\ [Next]_vars => IInv'
<1> SUFFICES ASSUME IInv, [Next]_vars PROVE IInv'
  OBVIOUS
<1>1. ASSUME NEW u \in Users, NEW c \in ClaimIds, ClaimantStep(u, c) PROVE IInv'
  <2>1. ASSUME \E i \in ItemIds, amount \in Amounts : AddItem(u, c, i, amount) PROVE IInv'
    BY <2>1, AddItemKeepsInv
  <2>2. ASSUME \E i \in ItemIds, amount \in Amounts : UpdateItem(u, c, i, amount) PROVE IInv'
    BY <2>2, UpdateItemKeepsInv
  <2>3. ASSUME \E i \in ItemIds : DeleteItem(u, c, i) PROVE IInv'
    BY <2>3, DeleteItemKeepsInv
  <2>4. ASSUME SubmitClaim(u, c) \/ ResubmitClaim(u, c) PROVE IInv'
    BY <2>4, RunSubmissionKeepsInv DEF SubmitClaim, ResubmitClaim
  <2> QED
    BY <1>1, <2>1, <2>2, <2>3, <2>4, CreateClaimKeepsInv, UpdateClaimKeepsInv,
       CancelClaimKeepsInv, RespondToInfoRequestKeepsInv DEF ClaimantStep
<1>2. ASSUME NEW u \in Users, NEW c \in ClaimIds, DecisionStep(u, c) PROVE IInv'
  BY <1>2, EscalateClaimKeepsInv, ApproveClaimKeepsInv, RejectClaimKeepsInv, RequestInfoKeepsInv
  DEF DecisionStep
<1>3. ASSUME NEW u \in Users, NEW to \in Users, DelegationStep(u, to) PROVE IInv'
  <2>1. \E S \in SUBSET ClaimIds : Reassign(u, S, to)
    BY <1>3 DEF DelegationStep, ReassignClaim, ReassignListed, ReassignQueue, QueueOf
  <2> QED BY <2>1, ReassignKeepsInv
<1>4. ASSUME NEW a \in Approvers, SetActive(a) PROVE IInv'
  BY <1>4 DEF SetActive, IInv, TypeOK, ClaimInv
<1>5. CASE UNCHANGED vars
  BY <1>5 DEF vars, IInv, TypeOK, ClaimInv
<1> QED BY <1>1, <1>2, <1>3, <1>4, <1>5 DEF Next

-----------------------------------------------------------------------------
(* The invariants, for every value of the constants.                       *)

LEMMA Invariance == Spec => []IInv
BY InitInv, NextInv, PTL DEF Spec

(* Every column keeps its type and no committed total overflows.           *)
THEOREM TypeCorrectness == Spec => []TypeOK
<1>1. IInv => TypeOK
  BY DEF IInv
<1> QED BY <1>1, Invariance, PTL

(* The cached total never drifts from the line items.                      *)
THEOREM TotalIntegrity == Spec => []TotalIsSumOfItems
<1>1. IInv => TotalIsSumOfItems
  BY DEF IInv, ClaimInv, SubjectInv, TotalIsSumOfItems
<1> QED BY <1>1, Invariance, PTL

(* Above the threshold only Finance can approve, and Finance is a second   *)
(* pair of eyes.                                                           *)
THEOREM FourEyes == Spec => []FinanceDecidesAboveThreshold
<1>1. ASSUME IInv PROVE FinanceDecidesAboveThreshold
  <2> SUFFICES ASSUME NEW c \in ClaimIds, claims[c].status = "APPROVED",
                      SumAmounts(items[c]) > Threshold
               PROVE  /\ claims[c].decidedBy \in Users
                      /\ Role[claims[c].decidedBy] = "FINANCE"
                      /\ claims[c].decidedBy \notin {claims[c].claimant, claims[c].approverApprovedBy}
    BY DEF FinanceDecidesAboveThreshold
  <2>1. claims[c].decidedBy \in Users /\ Role[claims[c].decidedBy] = "FINANCE"
    BY <1>1, ClaimFacts DEF RowInv, SubjectInv
  <2>2. claims[c].claimant \in Users /\ Role[claims[c].claimant] = "CLAIMANT"
    BY <1>1, ClaimFacts DEF RowInv
  <2>3. claims[c].approverApprovedBy = None \/ Role[claims[c].approverApprovedBy] = "APPROVER"
    BY <1>1, ClaimFacts DEF RowInv, Approvers
  <2> QED BY <2>1, <2>2, <2>3, NoneAssumption
<1>2. IInv => FinanceDecidesAboveThreshold
  BY <1>1
<1> QED BY <1>2, Invariance, PTL

(* What waits for Finance was signed by an approver and stays above the    *)
(* threshold.                                                              *)
THEOREM FinanceStage == Spec => []FinanceStageIsEarned
<1>1. IInv => FinanceStageIsEarned
  BY DEF IInv, ClaimInv, RowInv, SubjectInv, FinanceStageIsEarned
<1> QED BY <1>1, Invariance, PTL

(* There always is something to review and somebody to review it.          *)
THEOREM ReviewSubject == Spec => []ReviewHasSubject
<1>1. IInv => ReviewHasSubject
  BY DEF IInv, ClaimInv, RowInv, SubjectInv, ReviewHasSubject
<1> QED BY <1>1, Invariance, PTL

(* Decision columns never outlive the round they were written in.          *)
THEOREM DecisionColumns == Spec => []DecisionIsOfThisRound
<1>1. IInv => DecisionIsOfThisRound
  BY DEF IInv, ClaimInv, RowInv, DecisionIsOfThisRound
<1> QED BY <1>1, Invariance, PTL

(* The review clock always runs for whoever holds the claim.               *)
THEOREM ClockHolder == Spec => []ClockRunsForHolder
<1>1. IInv => ClockRunsForHolder
  BY DEF IInv, ClaimInv, RowInv, ClockRunsForHolder
<1> QED BY <1>1, Invariance, PTL

(* A claim that waits for its claimant has an open question.               *)
THEOREM OpenQuestion == Spec => []OpenQuestionIsUnanswered
<1>1. IInv => OpenQuestionIsUnanswered
  BY DEF IInv, ClaimInv, QuestionInv, OpenQuestionIsUnanswered
<1> QED BY <1>1, Invariance, PTL

(* A review has a subject, is at the right level and waits with reason.    *)
THEOREM SoundReview == Spec => []ReviewIsSound
<1>1. FinanceStageIsEarned /\ ReviewHasSubject /\ OpenQuestionIsUnanswered <=> ReviewIsSound
  BY DEF ReviewIsSound
<1> QED BY <1>1, FinanceStage, ReviewSubject, OpenQuestion, PTL

-----------------------------------------------------------------------------
(* Action properties.                                                      *)

OneClaimStep(u, c) == ClaimantStep(u, c) \/ DecisionStep(u, c)

(* An operation on one claim leaves every other claim alone. *)
LEMMA OthersUntouched ==
  ASSUME IInv, NEW u \in Users, NEW c \in ClaimIds, OneClaimStep(u, c),
         NEW d \in ClaimIds \ {c}
  PROVE  claims'[d] = claims[d] /\ items'[d] = items[d] /\ audit'[d] = audit[d]
<1> USE DEF Write, RecordAudit, IInv, TypeOK
<1>1. ASSUME \E i \in ItemIds, amount \in Amounts :
               AddItem(u, c, i, amount) \/ UpdateItem(u, c, i, amount)
      PROVE  claims'[d] = claims[d] /\ items'[d] = items[d] /\ audit'[d] = audit[d]
  BY <1>1 DEF AddItem, UpdateItem, SaveItems
<1>2. ASSUME \E i \in ItemIds : DeleteItem(u, c, i)
      PROVE  claims'[d] = claims[d] /\ items'[d] = items[d] /\ audit'[d] = audit[d]
  BY <1>2 DEF DeleteItem, SaveItems
<1>3. ASSUME SubmitClaim(u, c) \/ ResubmitClaim(u, c)
      PROVE  claims'[d] = claims[d] /\ items'[d] = items[d] /\ audit'[d] = audit[d]
  BY <1>3 DEF SubmitClaim, ResubmitClaim, RunSubmission
<1>4. ASSUME CreateClaim(u, c) \/ UpdateClaim(u, c) \/ CancelClaim(u, c) \/ RespondToInfoRequest(u, c)
      PROVE  claims'[d] = claims[d] /\ items'[d] = items[d] /\ audit'[d] = audit[d]
  BY <1>4 DEF CreateClaim, UpdateClaim, CancelClaim, RespondToInfoRequest
<1>5. ASSUME DecisionStep(u, c)
      PROVE  claims'[d] = claims[d] /\ items'[d] = items[d] /\ audit'[d] = audit[d]
  BY <1>5 DEF DecisionStep, EscalateClaim, ApproveClaim, RejectClaim, RequestInfo
<1> QED BY <1>1, <1>2, <1>3, <1>4, <1>5 DEF OneClaimStep, ClaimantStep

(* No operation accepts an approved or a cancelled claim. *)
LEMMA ClosedIsRefused ==
  ASSUME NEW u \in Users, NEW c \in ClaimIds, OneClaimStep(u, c)
  PROVE  claims[c].status \notin {"APPROVED", "CANCELLED"}
<1>1. ASSUME \E i \in ItemIds, amount \in Amounts :
               AddItem(u, c, i, amount) \/ UpdateItem(u, c, i, amount)
      PROVE  claims[c].status \notin {"APPROVED", "CANCELLED"}
  BY <1>1 DEF AddItem, UpdateItem, IsOwnedEditable, IsEditableStatus
<1>2. ASSUME UpdateClaim(u, c) \/ \E i \in ItemIds : DeleteItem(u, c, i)
      PROVE  claims[c].status \notin {"APPROVED", "CANCELLED"}
  BY <1>2 DEF UpdateClaim, DeleteItem, IsOwnedEditable, IsEditableStatus
<1>3. ASSUME SubmitClaim(u, c) \/ ResubmitClaim(u, c) \/ CancelClaim(u, c) \/ CreateClaim(u, c)
      PROVE  claims[c].status \notin {"APPROVED", "CANCELLED"}
  BY <1>3 DEF SubmitClaim, ResubmitClaim, RunSubmission, IsSubmittableStatus, CancelClaim,
              IsCancellable, CreateClaim
<1>4. ASSUME RespondToInfoRequest(u, c) \/ DecisionStep(u, c)
      PROVE  claims[c].status \notin {"APPROVED", "CANCELLED"}
  BY <1>4 DEF RespondToInfoRequest, IsRespondableBy, DecisionStep, EscalateClaim, ApproveClaim,
              RejectClaim, RequestInfo, IsDecidableBy, IsInReview
<1> QED BY <1>1, <1>2, <1>3, <1>4 DEF OneClaimStep, ClaimantStep

(* Every step of Next is one operation on one claim, a reassignment of     *)
(* claims that are with their approver, or touches no claim.               *)
LEMMA StepKinds ==
  ASSUME [Next]_vars
  PROVE  \/ \E u \in Users, c \in ClaimIds : OneClaimStep(u, c)
         \/ \E u, to \in Users, S \in SUBSET ClaimIds : Reassign(u, S, to)
         \/ UNCHANGED <<claims, items, thread, audit>>
<1>1. ASSUME NEW u \in Users, NEW to \in Users, DelegationStep(u, to)
      PROVE  \E S \in SUBSET ClaimIds : Reassign(u, S, to)
  BY <1>1 DEF DelegationStep, ReassignClaim, ReassignListed, ReassignQueue, QueueOf
<1>2. ASSUME NEW a \in Approvers, SetActive(a)
      PROVE  UNCHANGED <<claims, items, thread, audit>>
  BY <1>2 DEF SetActive
<1> QED BY <1>1, <1>2 DEF Next, OneClaimStep, vars

(* A reassignment moves no status, total or signature. *)
LEMMA ReassignFrame ==
  ASSUME IInv, NEW u \in Users, NEW to \in Users, NEW S \in SUBSET ClaimIds,
         Reassign(u, S, to), NEW c \in ClaimIds
  PROVE  /\ items' = items
         /\ c \in S => IsReassignable(claims[c])
         /\ c \notin S => claims'[c] = claims[c] /\ audit'[c] = audit[c]
         /\ \A f \in {"status", "total", "approverApprovedBy", "decidedBy"} :
              claims'[c][f] = claims[c][f]
<1>1. items' = items /\ (c \in S => IsReassignable(claims[c]))
  BY DEF Reassign, IsReassignableBy
<1>2. c \notin S => claims'[c] = claims[c] /\ audit'[c] = audit[c]
  BY DEF Reassign
<1>3. ASSUME c \in S
      PROVE  \A f \in {"status", "total", "approverApprovedBy", "decidedBy"} :
               claims'[c][f] = claims[c][f]
  <2> DEFINE base == [claims[c] EXCEPT !.assignedApprover = to]
  <2>1. /\ base \in ClaimRows
        /\ \A f \in {"status", "total", "approverApprovedBy", "decidedBy"} :
             base[f] = claims[c][f]
    BY ClaimFacts DEF ClaimRows, UserRefs
  <2>2. claims'[c] = StartReviewClock(base)
    BY <1>3 DEF Reassign
  <2> HIDE DEF base
  <2> QED BY <2>1, <2>2, ClockRestarted
<1> QED BY <1>1, <1>2, <1>3

(* Approved and cancelled claims are immutable.                            *)
THEOREM ClosedClaimsFrozen == Spec => ClosedForGood
<1> DEFINE Frozen == \A c \in ClaimIds :
       claims[c].status \in {"APPROVED", "CANCELLED"} =>
         claims'[c] = claims[c] /\ items'[c] = items[c] /\ audit'[c] = audit[c]
<1>1. ASSUME IInv, [Next]_vars PROVE Frozen
  <2> SUFFICES ASSUME NEW d \in ClaimIds, claims[d].status \in {"APPROVED", "CANCELLED"}
               PROVE  claims'[d] = claims[d] /\ items'[d] = items[d] /\ audit'[d] = audit[d]
    OBVIOUS
  <2>1. ASSUME NEW u \in Users, NEW c \in ClaimIds, OneClaimStep(u, c)
        PROVE  claims'[d] = claims[d] /\ items'[d] = items[d] /\ audit'[d] = audit[d]
    BY <1>1, <2>1, ClosedIsRefused, OthersUntouched
  <2>2. ASSUME NEW u \in Users, NEW to \in Users, NEW S \in SUBSET ClaimIds, Reassign(u, S, to)
        PROVE  claims'[d] = claims[d] /\ items'[d] = items[d] /\ audit'[d] = audit[d]
    BY <1>1, <2>2, ReassignFrame DEF IsReassignable
  <2> QED BY <1>1, <2>1, <2>2, StepKinds
<1>2. IInv /\ [Next]_vars => [Frozen]_vars
  BY <1>1
<1> QED BY <1>2, Invariance, PTL DEF Spec, ClosedForGood

(* What a Write leaves in the row and in the audit log. *)
LEMMA WriteFacts ==
  ASSUME IInv, NEW c \in ClaimIds, NEW row, NEW action, NEW u, Write(c, row, action, u)
  PROVE  /\ claims'[c] = row
         /\ audit'[c].action = action /\ audit'[c].actor = u
         /\ audit'[c].old = claims[c].status /\ audit'[c].new = row.status
BY DEF Write, RecordAudit, IInv, TypeOK

(* Saving items moves no status. *)
LEMMA ItemStepKeepsStatus ==
  ASSUME IInv, NEW u \in Users, NEW c \in ClaimIds,
         \/ UpdateClaim(u, c)
         \/ \E i \in ItemIds, amount \in Amounts : AddItem(u, c, i, amount) \/ UpdateItem(u, c, i, amount)
         \/ \E i \in ItemIds : DeleteItem(u, c, i)
  PROVE  /\ claims[c].status \in {"DRAFT", "REJECTED", "PENDING_APPROVAL"}
         /\ claims'[c].total \in MoneyColumn
         /\ \A f \in {"status", "approverApprovedBy", "decidedBy"} : claims'[c][f] = claims[c][f]
<1>1. CASE UpdateClaim(u, c)
  BY <1>1, WriteFacts, ClaimFacts DEF UpdateClaim, ClaimRows, IsOwnedEditable, IsEditableStatus
<1>2. ASSUME NEW its, NEW action, SaveItems(c, its, action, u), IsOwnedEditable(u, c)
      PROVE  /\ claims[c].status \in {"DRAFT", "REJECTED", "PENDING_APPROVAL"}
             /\ claims'[c].total \in MoneyColumn
             /\ \A f \in {"status", "approverApprovedBy", "decidedBy"} : claims'[c][f] = claims[c][f]
  <2>1. claims'[c] = [claims[c] EXCEPT !.total = SumAmounts(its)] /\ SumAmounts(its) \in MoneyColumn
    BY <1>2, WriteFacts DEF SaveItems
  <2> QED BY <1>2, <2>1, ClaimFacts DEF ClaimRows, IsOwnedEditable, IsEditableStatus
<1> QED BY <1>1, <1>2 DEF AddItem, UpdateItem, DeleteItem

(* The row a submission writes. *)
LEMMA SubmissionFacts ==
  ASSUME IInv, NEW u \in Users, NEW c \in ClaimIds, SubmitClaim(u, c) \/ ResubmitClaim(u, c)
  PROVE  /\ claims[c].status \in {"DRAFT", "REJECTED"}
         /\ claims'[c].status = "PENDING_APPROVAL" /\ claims'[c].total = claims[c].total
         /\ claims'[c].approverApprovedBy = None
<1>1. PICK isResubmit \in BOOLEAN : RunSubmission(u, c, isResubmit)
  BY DEF SubmitClaim, ResubmitClaim
<1>2. PICK a \in ResolvedApprovers(claims[c], isResubmit) :
        claims'[c] = SubmittedRow(c, a, isResubmit)
  BY <1>1, WriteFacts DEF RunSubmission
<1> DEFINE base == [claims[c] EXCEPT
              !.status = "PENDING_APPROVAL", !.assignedApprover = a,
              !.decidedBy = None, !.approverApprovedBy = None, !.rejectedBy = None,
              !.total = SumAmounts(items[c]),
              !.submissionCycle = IF isResubmit THEN @ + 1 ELSE @]
<1>3. /\ base.status = "PENDING_APPROVAL" /\ base.approverApprovedBy = None
      /\ base.total = SumAmounts(items[c])
  BY ClaimFacts DEF ClaimRows
<1>4. /\ SubmittedRow(c, a, isResubmit).status = base.status
      /\ SubmittedRow(c, a, isResubmit).total = base.total
      /\ SubmittedRow(c, a, isResubmit).approverApprovedBy = base.approverApprovedBy
  <2>1. base \in ClaimRows
    <3>1. a \in UserRefs
      BY ResolvedIsApprover DEF UserRefs, Approvers
    <3>2. /\ SumAmounts(items[c]) \in MoneyColumn
          /\ (IF isResubmit THEN claims[c].submissionCycle + 1 ELSE claims[c].submissionCycle) \in 1..MaxCycle
      BY <1>1, ClaimFacts, CycleAssumption DEF RunSubmission, ClaimRows
    <3> QED BY <3>1, <3>2, ClaimFacts, ZenonT(40) DEF ClaimRows, UserRefs, Statuses
  <2>2. SubmittedRow(c, a, isResubmit) = StartReviewClock(base)
    BY DEF SubmittedRow
  <2> HIDE DEF base
  <2> QED BY <2>1, <2>2, ClockRestarted
<1> QED BY <1>1, <1>2, <1>3, <1>4, ClaimFacts DEF RunSubmission, IsSubmittableStatus, SubjectInv

(* The row an escalation writes. *)
LEMMA EscalationFacts ==
  ASSUME IInv, NEW u \in Users, NEW c \in ClaimIds, EscalateClaim(u, c)
  PROVE  /\ claims'[c].status = "PENDING_FINANCE_APPROVAL" /\ claims'[c].total = claims[c].total
         /\ claims'[c].approverApprovedBy = u
         /\ claims[c].assignedApprover = u /\ ~IsAtFinanceStage(claims[c])
         /\ IsInReview(claims[c].status) /\ claims[c].total > Threshold /\ u # None
<1> DEFINE base == [claims[c] EXCEPT !.status = "PENDING_FINANCE_APPROVAL", !.approverApprovedBy = u]
<1>1. /\ base \in ClaimRows /\ base.status = "PENDING_FINANCE_APPROVAL"
      /\ base.total = claims[c].total /\ base.approverApprovedBy = u
  BY ClaimFacts DEF ClaimRows, UserRefs, Statuses
<1>2. claims'[c] = StartReviewClock(base)
  BY WriteFacts DEF EscalateClaim
<1>3. /\ claims[c].assignedApprover = u /\ ~IsAtFinanceStage(claims[c])
      /\ IsInReview(claims[c].status) /\ claims[c].total > Threshold /\ u # None
  BY NoneAssumption DEF EscalateClaim, IsDecidableBy, NeedsEscalation, RequiresFinanceApproval
<1> HIDE DEF base
<1> QED BY <1>1, <1>2, <1>3, ClockRestarted

(* In review, status moves only at the hand of the claim's holder.         *)
THEOREM HolderMovesReview == Spec => OnlyHolderMovesReview
<1> DEFINE ByHolder(c) ==
       LET by == audit'[c].actor IN
         /\ audit'[c].old = claims[c].status /\ audit'[c].new = claims'[c].status
         /\ \/ by = claims[c].claimant /\ audit'[c].action \in {"CLAIM_CANCELLED", "CLAIM_INFO_RESPONDED"}
            \/ by \in Users /\ Role[by] = "FINANCE"
            \/ by = claims[c].assignedApprover /\ ~IsAtFinanceStage(claims[c])
           Moved(c) == IsInReview(claims[c].status) /\ claims'[c].status # claims[c].status
<1>1. ASSUME IInv, NEW u \in Users, NEW c \in ClaimIds, OneClaimStep(u, c), Moved(c)
      PROVE  ByHolder(c)
  <2>1. CASE CancelClaim(u, c) \/ RespondToInfoRequest(u, c)
    BY <1>1, <2>1, WriteFacts DEF CancelClaim, RespondToInfoRequest, IsRespondableBy
  <2>2. CASE DecisionStep(u, c)
    BY <1>1, <2>2, WriteFacts
    DEF DecisionStep, EscalateClaim, ApproveClaim, RejectClaim, RequestInfo, IsDecidableBy
  <2>3. CASE CreateClaim(u, c) \/ SubmitClaim(u, c) \/ ResubmitClaim(u, c)
    BY <1>1, <2>3 DEF CreateClaim, SubmitClaim, ResubmitClaim, RunSubmission, IsSubmittableStatus, IsInReview
  <2>4. CASE \/ UpdateClaim(u, c)
             \/ \E i \in ItemIds, amount \in Amounts : AddItem(u, c, i, amount) \/ UpdateItem(u, c, i, amount)
             \/ \E i \in ItemIds : DeleteItem(u, c, i)
    BY <1>1, <2>4, ItemStepKeepsStatus
  <2> QED BY <1>1, <2>1, <2>2, <2>3, <2>4 DEF OneClaimStep, ClaimantStep
<1>2. ASSUME IInv, [Next]_vars, NEW d \in ClaimIds, Moved(d)
      PROVE  ByHolder(d)
  <2>1. ASSUME NEW u \in Users, NEW c \in ClaimIds, OneClaimStep(u, c) PROVE ByHolder(d)
    <3>1. c = d
      BY <1>2, <2>1, OthersUntouched
    <3> QED BY <1>1, <1>2, <2>1, <3>1
  <2>2. ASSUME NEW u \in Users, NEW to \in Users, NEW S \in SUBSET ClaimIds, Reassign(u, S, to)
        PROVE  FALSE
    BY <1>2, <2>2, ReassignFrame
  <2> QED BY <1>2, <2>1, <2>2, StepKinds
<1>3. IInv /\ [Next]_vars => [\A c \in ClaimIds : Moved(c) => ByHolder(c)]_vars
  BY <1>2
<1> QED BY <1>3, Invariance, PTL DEF Spec, OnlyHolderMovesReview

-----------------------------------------------------------------------------
(* ClaimLifecycle implements ApprovalWorkflow.                             *)

(* The stage of a row, status by status. *)
LEMMA StageFacts ==
  ASSUME NEW r
  PROVE  /\ r.status \in {"ABSENT", "DRAFT"} => StageOf(r) = "open"
         /\ IsAtFinanceStage(r) => StageOf(r) = "finance"
         /\ r.status = "APPROVED" => StageOf(r) = "accepted"
         /\ r.status = "REJECTED" => StageOf(r) = "returned"
         /\ r.status = "CANCELLED" => StageOf(r) = "withdrawn"
         /\ IsInReview(r.status) /\ ~IsAtFinanceStage(r) => StageOf(r) = "approver"
BY DEF StageOf, IsAtFinanceStage, IsInReview

(* A step that rewrites the row of one claim is, seen from the workflow,   *)
(* an update of that claim's stage, value and signatures.                  *)
LEMMA AbstractUpdate ==
  ASSUME NEW c \in ClaimIds,
         \A d \in ClaimIds \ {c} : claims'[d] = claims[d]
  PROVE  /\ [d \in ClaimIds |-> StageOf(claims[d])]' =
              [[d \in ClaimIds |-> StageOf(claims[d])] EXCEPT ![c] = StageOf(claims'[c])]
         /\ [d \in ClaimIds |-> claims[d].total]' =
              [[d \in ClaimIds |-> claims[d].total] EXCEPT ![c] = claims'[c].total]
         /\ [d \in ClaimIds |-> SignaturesOf(claims[d])]' =
              [[d \in ClaimIds |-> SignaturesOf(claims[d])] EXCEPT ![c] = SignaturesOf(claims'[c])]
OBVIOUS

(* A step after which every claim has its stage, value and signatures is   *)
(* invisible to the workflow.                                              *)
LEMMA AbstractStutter ==
  ASSUME \A d \in ClaimIds : /\ StageOf(claims'[d]) = StageOf(claims[d])
                             /\ claims'[d].total = claims[d].total
                             /\ SignaturesOf(claims'[d]) = SignaturesOf(claims[d])
  PROVE  UNCHANGED Workflow!vars
BY DEF Workflow!vars

LEMMA OneClaimStepRefines ==
  ASSUME IInv, NEW u \in Users, NEW c \in ClaimIds, OneClaimStep(u, c)
  PROVE  [Workflow!Next]_(Workflow!vars)
<1> DEFINE r == claims[c]
           s == claims'[c]
<1>0. \A d \in ClaimIds \ {c} : claims'[d] = claims[d]
  BY OthersUntouched
<1>1. ASSUME StageOf(s) = StageOf(r), s.total = r.total, SignaturesOf(s) = SignaturesOf(r)
      PROVE  UNCHANGED Workflow!vars
  BY <1>0, <1>1, AbstractStutter
<1>2. r \in ClaimRows /\ RowInv(r)
  BY ClaimFacts
<1>3. CASE CreateClaim(u, c)
  <2>1. s = NewClaim(u) /\ r.status = "ABSENT" /\ r.total = 0
    BY <1>3, WriteFacts, ClaimFacts, SumOfNothing DEF CreateClaim, SubjectInv
  <2>2. s.status = "DRAFT" /\ s.total = 0 /\ s.approverApprovedBy = None
    BY <2>1 DEF NewClaim
  <2>3. r.approverApprovedBy = None
    BY <1>2, <2>1 DEF RowInv
  <2>4. StageOf(s) = StageOf(r) /\ SignaturesOf(s) = SignaturesOf(r)
    BY <2>1, <2>2, <2>3, StageFacts DEF SignaturesOf
  <2> QED BY <1>1, <2>1, <2>2, <2>4
<1>4. CASE \/ UpdateClaim(u, c)
           \/ \E i \in ItemIds, amount \in Amounts : AddItem(u, c, i, amount) \/ UpdateItem(u, c, i, amount)
           \/ \E i \in ItemIds : DeleteItem(u, c, i)
  <2>1. /\ r.status \in {"DRAFT", "REJECTED", "PENDING_APPROVAL"} /\ s.total \in MoneyColumn
        /\ s.status = r.status /\ s.approverApprovedBy = r.approverApprovedBy
    BY <1>4, ItemStepKeepsStatus
  <2>2. StageOf(r) \in {"open", "returned", "approver"} /\ StageOf(s) = StageOf(r)
    BY <2>1, StageFacts DEF IsAtFinanceStage, IsInReview
  <2>3. SignaturesOf(s) = SignaturesOf(r)
    BY <2>1 DEF SignaturesOf
  <2>4. Workflow!Amend(c)
    BY <1>0, <2>1, <2>2, <2>3, AbstractUpdate DEF Workflow!Amend
  <2> QED BY <2>4 DEF Workflow!Next
<1>5. CASE SubmitClaim(u, c) \/ ResubmitClaim(u, c)
  <2>1. /\ r.status \in {"DRAFT", "REJECTED"} /\ s.status = "PENDING_APPROVAL"
        /\ s.total = r.total /\ s.approverApprovedBy = None
    BY <1>5, SubmissionFacts
  <2>2. StageOf(r) \in {"open", "returned"} /\ StageOf(s) = "approver" /\ SignaturesOf(s) = {}
    BY <2>1, StageFacts DEF SignaturesOf, IsAtFinanceStage, IsInReview
  <2>3. Workflow!Present(c)
    BY <1>0, <2>1, <2>2, AbstractUpdate DEF Workflow!Present
  <2> QED BY <2>3 DEF Workflow!Next
<1>6. CASE CancelClaim(u, c)
  <2>1. /\ s = [r EXCEPT !.status = "CANCELLED"]
        /\ r.status \in {"DRAFT", "PENDING_APPROVAL"}
    BY <1>6, WriteFacts DEF CancelClaim, IsCancellable
  <2>2. /\ s.status = "CANCELLED" /\ s.total = r.total
        /\ s.approverApprovedBy = r.approverApprovedBy
    BY <1>2, <2>1 DEF ClaimRows
  <2>3. /\ StageOf(r) \in {"open", "approver"} /\ StageOf(s) = "withdrawn"
        /\ SignaturesOf(s) = SignaturesOf(r)
    BY <2>1, <2>2, StageFacts DEF SignaturesOf, IsAtFinanceStage, IsInReview
  <2>4. Workflow!Withdraw(c)
    BY <1>0, <2>2, <2>3, AbstractUpdate DEF Workflow!Withdraw
  <2> QED BY <2>4 DEF Workflow!Next
<1>7. CASE RespondToInfoRequest(u, c)
  <2>1. s = AnsweredRow(r) /\ IsInReview(r.status)
    BY <1>7, WriteFacts DEF RespondToInfoRequest, IsRespondableBy
  <2>2. /\ s.status \in {"PENDING_APPROVAL", "PENDING_FINANCE_APPROVAL"} /\ s.total = r.total
        /\ s.approverApprovedBy = r.approverApprovedBy
        /\ IsAtFinanceStage(s) <=> IsAtFinanceStage(r)
    BY <1>2, <2>1, AnsweredRowFacts
  <2>3. StageOf(s) = StageOf(r)
    BY <2>1, <2>2, StageFacts DEF IsInReview
  <2>4. SignaturesOf(s) = SignaturesOf(r)
    BY <2>1, <2>2 DEF SignaturesOf, IsInReview
  <2> QED BY <1>1, <2>2, <2>3, <2>4
<1>8. CASE EscalateClaim(u, c)
  <2>1. /\ s.status = "PENDING_FINANCE_APPROVAL" /\ s.total = r.total
        /\ s.approverApprovedBy # None /\ IsInReview(r.status) /\ ~IsAtFinanceStage(r)
        /\ r.total > Threshold
    BY <1>8, EscalationFacts
  <2>2. StageOf(r) = "approver" /\ StageOf(s) = "finance"
    BY <2>1, StageFacts DEF IsAtFinanceStage
  <2>3. SignaturesOf(s) = SignaturesOf(r) \cup {"APPROVER"}
    BY <2>1 DEF SignaturesOf, IsInReview
  <2>4. Workflow!ApproverSigns(c)
    BY <1>0, <2>1, <2>2, <2>3, AbstractUpdate DEF Workflow!ApproverSigns
  <2> QED BY <2>4 DEF Workflow!Next
<1>9. CASE ApproveClaim(u, c)
  <2>1. /\ s = [r EXCEPT !.status = "APPROVED", !.decidedBy = u]
        /\ IsDecidableBy(r, u) /\ IsDecisionMaker(u) /\ ~NeedsEscalation(c, u)
    BY <1>9, WriteFacts DEF ApproveClaim
  <2>2. /\ s.status = "APPROVED" /\ s.decidedBy = u /\ s.total = r.total
        /\ s.approverApprovedBy = r.approverApprovedBy
    BY <1>2, <2>1 DEF ClaimRows
  <2>3. StageOf(s) = "accepted" /\ SignaturesOf(s) = SignaturesOf(r) \cup {Role[u]}
    BY <2>1, <2>2, StageFacts DEF SignaturesOf, IsDecidableBy, IsInReview
  <2>4. CASE Role[u] = "FINANCE"
    <3>1. StageOf(r) \in {"approver", "finance"}
      BY <2>1, StageFacts DEF IsDecidableBy
    <3>2. Workflow!FinanceSigns(c)
      BY <1>0, <2>2, <2>3, <2>4, <3>1, AbstractUpdate DEF Workflow!FinanceSigns
    <3> QED BY <3>2 DEF Workflow!Next
  <2>5. CASE Role[u] # "FINANCE"
    <3>1. Role[u] = "APPROVER" /\ StageOf(r) = "approver" /\ ~(r.total > Threshold)
      BY <2>1, <2>5, StageFacts
      DEF IsDecidableBy, IsDecisionMaker, NeedsEscalation, RequiresFinanceApproval
    <3>2. Workflow!ApproverSigns(c)
      BY <1>0, <2>2, <2>3, <3>1, AbstractUpdate DEF Workflow!ApproverSigns
    <3> QED BY <3>2 DEF Workflow!Next
  <2> QED BY <2>4, <2>5
<1>10. CASE RejectClaim(u, c)
  <2>1. /\ s = [r EXCEPT !.status = "REJECTED", !.decidedBy = u, !.rejectedBy = u]
        /\ IsInReview(r.status)
    BY <1>10, WriteFacts DEF RejectClaim, IsDecidableBy
  <2>2. /\ s.status = "REJECTED" /\ s.total = r.total
        /\ s.approverApprovedBy = r.approverApprovedBy
    BY <1>2, <2>1 DEF ClaimRows
  <2>3. /\ StageOf(r) \in {"approver", "finance"} /\ StageOf(s) = "returned"
        /\ SignaturesOf(s) = SignaturesOf(r)
    BY <2>1, <2>2, StageFacts DEF SignaturesOf, IsInReview
  <2>4. Workflow!Return(c)
    BY <1>0, <2>2, <2>3, AbstractUpdate DEF Workflow!Return
  <2> QED BY <2>4 DEF Workflow!Next
<1>11. CASE RequestInfo(u, c)
  <2>1. s = [r EXCEPT !.status = "INFO_REQUESTED"] /\ IsInReview(r.status)
    BY <1>11, WriteFacts DEF RequestInfo, IsDecidableBy
  <2>2. /\ s.status = "INFO_REQUESTED" /\ s.total = r.total
        /\ s.approverApprovedBy = r.approverApprovedBy
    BY <1>2, <2>1 DEF ClaimRows
  <2>3. IsAtFinanceStage(s) <=> IsAtFinanceStage(r)
    BY <1>2, <2>1, <2>2 DEF IsAtFinanceStage, IsInReview, RowInv
  <2>4. StageOf(s) = StageOf(r) /\ SignaturesOf(s) = SignaturesOf(r)
    BY <2>1, <2>2, <2>3, StageFacts DEF IsInReview, SignaturesOf
  <2> QED BY <1>1, <2>2, <2>4
<1> QED
  BY <1>3, <1>4, <1>5, <1>6, <1>7, <1>8, <1>9, <1>10, <1>11
  DEF OneClaimStep, ClaimantStep, DecisionStep

(* The services implement the approval workflow: two signatures above the  *)
(* threshold, and a value that cannot move once the approver has signed.   *)
THEOREM WorkflowImplemented == Spec => ImplementsWorkflow
<1>1. Init => Workflow!Init
  <2> SUFFICES ASSUME Init, NEW c \in ClaimIds
               PROVE  StageOf(claims[c]) = "open" /\ claims[c].total = 0 /\ SignaturesOf(claims[c]) = {}
    BY DEF Workflow!Init
  <2>1. claims[c].status = "ABSENT" /\ claims[c].total = 0 /\ claims[c].approverApprovedBy = None
    BY DEF Init, AbsentClaim, NewClaim
  <2> QED BY <2>1, StageFacts DEF SignaturesOf
<1>2. ASSUME IInv, [Next]_vars PROVE [Workflow!Next]_(Workflow!vars)
  <2>1. ASSUME NEW u \in Users, NEW to \in Users, NEW S \in SUBSET ClaimIds, Reassign(u, S, to)
        PROVE  UNCHANGED Workflow!vars
    <3> SUFFICES ASSUME NEW d \in ClaimIds
                 PROVE  /\ StageOf(claims'[d]) = StageOf(claims[d])
                        /\ claims'[d].total = claims[d].total
                        /\ SignaturesOf(claims'[d]) = SignaturesOf(claims[d])
      BY AbstractStutter
    <3> QED BY <1>2, <2>1, ReassignFrame DEF StageOf, SignaturesOf, IsAtFinanceStage
  <2>2. ASSUME UNCHANGED claims PROVE UNCHANGED Workflow!vars
    BY <2>2 DEF Workflow!vars
  <2> QED BY <1>2, <2>1, <2>2, StepKinds, OneClaimStepRefines
<1>3. IInv /\ [Next]_vars => [Workflow!Next]_(Workflow!vars)
  BY <1>2
<1> QED BY <1>1, <1>3, Invariance, PTL DEF Spec, ImplementsWorkflow, Workflow!Spec

-----------------------------------------------------------------------------
(* Dashboards and scope, which go by a claim's present approver.  Both     *)
(* need, beside IInv, that whoever signed or decided a claim as its        *)
(* approver is still its approver (SignersInv): a claim is reassigned only *)
(* before a signature, and the signature is erased when the claim is       *)
(* submitted again.                                                        *)

(* NULL is the id of no approver. *)
LEMMA NoneIsNoApprover == None \notin Approvers
BY NoneAssumption DEF Approvers

(* A database without claims has no signers. *)
LEMMA InitSigners == Init => SignersInv
BY NoneIsNoApprover DEF Init, AbsentClaim, NewClaim, SignersInv, SignerInv

(* An operation on one claim keeps the invariant when its row does. *)
LEMMA WriteKeepsSigners ==
  ASSUME IInv, SignersInv, NEW c \in ClaimIds, NEW row, NEW u, NEW action,
         Write(c, row, action, u), SignerInv(row)
  PROVE  SignersInv'
<1>1. ASSUME NEW d \in ClaimIds PROVE claims'[d] = IF d = c THEN row ELSE claims[d]
  BY DEF Write, IInv, TypeOK
<1>2. ASSUME NEW d \in ClaimIds PROVE SignerInv(claims'[d])
  BY <1>1 DEF SignersInv
<1> QED BY <1>2 DEF SignersInv, SignerInv

(* What the rows written by the claimant's operations say of signers. *)
LEMMA ClaimantKeepsSigners ==
  ASSUME IInv, SignersInv, NEW u \in Users, NEW c \in ClaimIds, ClaimantStep(u, c)
  PROVE  SignersInv'
<1>0. claims[c] \in ClaimRows /\ SignerInv(claims[c])
  BY ClaimFacts DEF SignersInv
<1>1. CASE CreateClaim(u, c)
  <2>1. SignerInv(NewClaim(u))
    BY NoneIsNoApprover DEF SignerInv, NewClaim
  <2> QED BY <1>1, <2>1, WriteKeepsSigners DEF CreateClaim
<1>2. CASE UpdateClaim(u, c)
  BY <1>0, <1>2, WriteKeepsSigners DEF UpdateClaim
<1>3. ASSUME NEW its, NEW action, SaveItems(c, its, action, u)
      PROVE  SignersInv'
  <2> DEFINE row == [claims[c] EXCEPT !.total = SumAmounts(its)]
  <2>1. SignerInv(row)
    BY <1>0 DEF SignerInv, ClaimRows
  <2>2. Write(c, row, action, u)
    BY <1>3 DEF SaveItems
  <2> HIDE DEF row
  <2> QED BY <2>1, <2>2, WriteKeepsSigners
<1>4. CASE \E i \in ItemIds, amount \in Amounts : AddItem(u, c, i, amount)
  BY <1>3, <1>4 DEF AddItem
<1>5. CASE \E i \in ItemIds, amount \in Amounts : UpdateItem(u, c, i, amount)
  BY <1>3, <1>5 DEF UpdateItem
<1>6. CASE \E i \in ItemIds : DeleteItem(u, c, i)
  BY <1>3, <1>6 DEF DeleteItem
<1>7. ASSUME NEW isResubmit \in BOOLEAN, RunSubmission(u, c, isResubmit)
      PROVE  SignersInv'
  <2>1. PICK approver, action : Write(c, SubmittedRow(c, approver, isResubmit), action, u)
    BY <1>7 DEF RunSubmission
  <2>2. SignerInv(SubmittedRow(c, approver, isResubmit))
    BY <1>0, NoneIsNoApprover DEF SubmittedRow, StartReviewClock, SignerInv, ClaimRows
  <2> QED BY <2>1, <2>2, WriteKeepsSigners
<1>8. CASE SubmitClaim(u, c) \/ ResubmitClaim(u, c)
  BY <1>7, <1>8 DEF SubmitClaim, ResubmitClaim
<1>9. CASE CancelClaim(u, c)
  <2> DEFINE row == [claims[c] EXCEPT !.status = "CANCELLED"]
  <2>1. SignerInv(row)
    BY <1>0 DEF SignerInv, ClaimRows
  <2>2. Write(c, row, "CLAIM_CANCELLED", u)
    BY <1>9 DEF CancelClaim
  <2> HIDE DEF row
  <2> QED BY <2>1, <2>2, WriteKeepsSigners
<1>10. CASE RespondToInfoRequest(u, c)
  <2>1. SignerInv(AnsweredRow(claims[c]))
    BY <1>0 DEF AnsweredRow, StartReviewClock, SignerInv, ClaimRows
  <2> QED BY <1>10, <2>1, WriteKeepsSigners DEF RespondToInfoRequest
<1> QED
  BY <1>1, <1>2, <1>4, <1>5, <1>6, <1>8, <1>9, <1>10 DEF ClaimantStep

(* An approver signs or decides only claims assigned to them. *)
LEMMA DecisionKeepsSigners ==
  ASSUME IInv, SignersInv, NEW u \in Users, NEW c \in ClaimIds, DecisionStep(u, c)
  PROVE  SignersInv'
<1>0. claims[c] \in ClaimRows /\ SignerInv(claims[c])
  BY ClaimFacts DEF SignersInv
<1>1. u \in Approvers => claims[c].assignedApprover = u
  BY DEF DecisionStep, EscalateClaim, ApproveClaim, RejectClaim, RequestInfo, IsDecidableBy, Approvers
<1>2. CASE EscalateClaim(u, c)
  <2>1. u \in Approvers
    BY <1>2 DEF EscalateClaim, NeedsEscalation, IsDecisionMaker, Approvers
  <2> DEFINE row == StartReviewClock([claims[c] EXCEPT !.status = "PENDING_FINANCE_APPROVAL",
                                                       !.approverApprovedBy = u])
  <2>2. SignerInv(row)
    BY <1>0, <1>1, <2>1 DEF StartReviewClock, SignerInv, ClaimRows
  <2>3. Write(c, row, "CLAIM_ESCALATED", u)
    BY <1>2 DEF EscalateClaim
  <2> HIDE DEF row
  <2> QED BY <2>2, <2>3, WriteKeepsSigners
<1>3. CASE ApproveClaim(u, c)
  <2> DEFINE row == [claims[c] EXCEPT !.status = "APPROVED", !.decidedBy = u]
  <2>1. SignerInv(row)
    BY <1>0, <1>1 DEF SignerInv, ClaimRows
  <2>2. Write(c, row, "CLAIM_APPROVED", u)
    BY <1>3 DEF ApproveClaim
  <2> HIDE DEF row
  <2> QED BY <2>1, <2>2, WriteKeepsSigners
<1>4. CASE RejectClaim(u, c)
  <2> DEFINE row == [claims[c] EXCEPT !.status = "REJECTED", !.decidedBy = u, !.rejectedBy = u]
  <2>1. SignerInv(row)
    BY <1>0, <1>1 DEF SignerInv, ClaimRows
  <2>2. Write(c, row, "CLAIM_REJECTED", u)
    BY <1>4 DEF RejectClaim
  <2> HIDE DEF row
  <2> QED BY <2>1, <2>2, WriteKeepsSigners
<1>5. CASE RequestInfo(u, c)
  <2> DEFINE row == [claims[c] EXCEPT !.status = "INFO_REQUESTED"]
  <2>1. SignerInv(row)
    BY <1>0 DEF SignerInv, ClaimRows
  <2>2. Write(c, row, "CLAIM_INFO_REQUESTED", u)
    BY <1>5 DEF RequestInfo
  <2> HIDE DEF row
  <2> QED BY <2>1, <2>2, WriteKeepsSigners
<1> QED BY <1>2, <1>3, <1>4, <1>5 DEF DecisionStep

(* A claim that changes hands has neither a signature nor a decision. *)
LEMMA ReassignKeepsSigners ==
  ASSUME IInv, SignersInv, NEW u \in Users, NEW S \in SUBSET ClaimIds, NEW to \in Users,
         Reassign(u, S, to)
  PROVE  SignersInv'
<1>1. ASSUME NEW c \in ClaimIds PROVE SignerInv(claims'[c])
  <2>0. claims[c] \in ClaimRows /\ RowInv(claims[c]) /\ SignerInv(claims[c])
    BY ClaimFacts DEF SignersInv
  <2>1. CASE c \in S
    <3>1. claims[c].approverApprovedBy = None /\ claims[c].decidedBy = None
      BY <2>0, <2>1 DEF Reassign, IsReassignableBy, IsReassignable, RowInv
    <3>2. claims'[c] = StartReviewClock([claims[c] EXCEPT !.assignedApprover = to])
      BY <2>1 DEF Reassign
    <3> QED BY <2>0, <3>1, <3>2, NoneIsNoApprover DEF StartReviewClock, SignerInv, ClaimRows
  <2>2. CASE c \notin S
    BY <2>0, <2>2 DEF Reassign
  <2> QED BY <2>1, <2>2
<1> QED BY <1>1 DEF SignersInv, SignerInv

LEMMA NextSigners == IInv /\ SignersInv /\ [Next]_vars => SignersInv'
<1> SUFFICES ASSUME IInv, SignersInv, [Next]_vars PROVE SignersInv'
  OBVIOUS
<1>1. CASE \E u \in Users, c \in ClaimIds : ClaimantStep(u, c)
  BY <1>1, ClaimantKeepsSigners
<1>2. CASE \E u \in Users, c \in ClaimIds : DecisionStep(u, c)
  BY <1>2, DecisionKeepsSigners
<1>3. CASE \E u, to \in Users : DelegationStep(u, to)
  <2>1. PICK u \in Users, to \in Users : DelegationStep(u, to)
    BY <1>3
  <2>2. \E S \in SUBSET ClaimIds : Reassign(u, S, to)
    BY <2>1 DEF DelegationStep, ReassignClaim, ReassignListed, ReassignQueue, QueueOf
  <2> QED BY <2>2, ReassignKeepsSigners
<1>4. CASE UNCHANGED claims
  BY <1>4 DEF SignersInv, SignerInv
<1>5. CASE \E a \in Approvers : SetActive(a)
  BY <1>4, <1>5 DEF SetActive
<1>6. CASE UNCHANGED vars
  BY <1>4, <1>6 DEF vars
<1> QED BY <1>1, <1>2, <1>3, <1>5, <1>6 DEF Next

(* The services keep a legal database legal, whatever state they start in: *)
(* the one the seed leaves (DatabaseSeed, SeedIsLegal) as well as an empty *)
(* one.                                                                    *)
THEOREM LegalStaysLegal == LegalDatabase /\ [][Next]_vars => []LegalDatabase
<1>1. LegalDatabase /\ [Next]_vars => LegalDatabase'
  BY NextInv, NextSigners DEF LegalDatabase
<1> QED BY <1>1, PTL

LEMMA SignersInvariance == Spec => []LegalDatabase
<1>1. Init => LegalDatabase
  BY InitInv, InitSigners DEF LegalDatabase
<1> QED BY <1>1, LegalStaysLegal, PTL DEF Spec

-----------------------------------------------------------------------------
(* What an approver signed or decided stays in that approver's scope and   *)
(* dashboard (dashboardService.ts:40).                                     *)
THEOREM DecisionsStayVisible == Spec => []OwnDecisionsStayInScope
<1>1. IInv /\ SignersInv => OwnDecisionsStayInScope
  <2> SUFFICES ASSUME IInv, SignersInv, NEW c \in ClaimIds, NEW a \in Approvers,
                      a \in {claims[c].approverApprovedBy, claims[c].decidedBy}
               PROVE  OwnDecisionsStayInScope!(c, a)
    BY DEF OwnDecisionsStayInScope
  <2>1. claims[c] \in ClaimRows /\ RowInv(claims[c]) /\ SignerInv(claims[c])
    BY ClaimFacts DEF SignersInv
  <2>2. a # None /\ Role[a] = "APPROVER"
    BY NoneIsNoApprover DEF Approvers
  <2>3. claims[c].assignedApprover = a
    BY <2>1, <2>2 DEF SignerInv
  <2>4. claims[c].decidedBy = a => claims[c].status \in {"APPROVED", "REJECTED"}
    BY <2>1, <2>2 DEF RowInv
  <2> QED
    BY <2>2, <2>3, <2>4 DEF VisibleTo, InScope, ApprovedToday, RejectedBy, AssignedTo
<1> QED BY <1>1, SignersInvariance, PTL DEF LegalDatabase

(* A claim in review is on the dashboard of exactly the side that has to   *)
(* act on it (dashboardService.ts:42).                                     *)
THEOREM OneDashboard == Spec => []ReviewIsOnOneDashboard
<1>1. IInv /\ SignersInv => ReviewIsOnOneDashboard
  <2> SUFFICES ASSUME IInv, SignersInv, NEW c \in ClaimIds, IsInReview(claims[c].status)
               PROVE  ReviewIsOnOneDashboard!(c)!2
    BY DEF ReviewIsOnOneDashboard
  <2>0. claims[c] \in ClaimRows /\ RowInv(claims[c]) /\ SignerInv(claims[c])
    BY ClaimFacts DEF SignersInv
  <2> DEFINE a == claims[c].assignedApprover
  <2>1. a \in Approvers /\ a \in Users /\ Role[a] = "APPROVER" /\ a # None
    BY <2>0, NoneIsNoApprover DEF RowInv, Approvers
  <2>2. \A u \in Users : Role[u] = "FINANCE" => c \in VisibleTo(u)
    BY DEF VisibleTo, InScope, IsInReview
  <2>3. CASE IsAtFinanceStage(claims[c])
    <3>1. \A u \in Users : c \notin Actionable(u)
      BY <2>3 DEF Actionable
    <3>2. claims[c].approverApprovedBy = a
      BY <2>0, <2>1, <2>3 DEF RowInv, SignerInv
    <3>3. claims[c].status = "PENDING_FINANCE_APPROVAL" => c \in AwaitingFinance(a)
      BY DEF AwaitingFinance, AssignedTo
    <3> HIDE DEF a
    <3> QED BY <2>1, <2>2, <2>3, <3>1, <3>2, <3>3
  <2>4. CASE ~IsAtFinanceStage(claims[c])
    <3>1. c \in Actionable(a) /\ c \in VisibleTo(a) /\ IsDecidableBy(claims[c], a)
      BY <2>1, <2>4 DEF Actionable, AssignedTo, VisibleTo, InScope, IsDecidableBy
    <3>2. claims[c].approverApprovedBy = None
      BY <2>0, <2>4 DEF RowInv, IsInReview, IsAtFinanceStage
    <3>3. claims[c].approverApprovedBy # a
      BY <2>1, <3>2
    <3>4. \A b \in Users \ {a} : c \notin Actionable(b)
      BY DEF Actionable, AssignedTo
    <3> HIDE DEF a
    <3> QED BY <2>1, <2>2, <2>4, <3>1, <3>3, <3>4
  <2> QED BY <2>3, <2>4
<1> QED BY <1>1, SignersInvariance, PTL DEF LegalDatabase

-----------------------------------------------------------------------------
(* The seed.                                                               *)

Phases == {"down", "starting", "seeding", "serving"}

(* Without users nothing has been used and a seed is at its first          *)
(* statement; a seed that no other container overlaps runs alone, on a     *)
(* database nobody has used.                                               *)
SeedInv ==
  /\ boot \in [Boots -> [phase : Phases, next : Nat]]
  /\ claims = [c \in ClaimIds |-> claims[c]] /\ limits = [k \in Categories |-> limits[k]]
  /\ filed \subseteq ClaimIds /\ edited \subseteq Categories
  /\ \A b \in Boots : Phase(b) = "starting" => boot[b].next = 1
  /\ users = {} =>
       /\ ~Serving /\ filed = {} /\ edited = {}
       /\ \A b \in Boots : Phase(b) = "seeding" => boot[b].next = 1
  /\ ~overlapped =>
       /\ \A b, o \in Boots : {Phase(b), Phase(o)} \subseteq {"starting", "seeding"} => b = o
       /\ (\E b \in Boots : Phase(b) = "seeding") => ~Serving /\ filed = {} /\ edited = {}
  /\ UsageSurvives

StartsWith(S, e) == {s \in Seq(S) : Len(s) > 0 /\ s[1] = e}

LEMMA ConcatHead ==
  ASSUME NEW S, NEW e, NEW s \in StartsWith(S, e), NEW t \in Seq(S)
  PROVE  s \o t \in StartsWith(S, e)
<1>1. Len(s) \in Nat /\ Len(t) \in Nat /\ s \in Seq(S) /\ Len(s) > 0 /\ s[1] = e
  BY LenProperties DEF StartsWith
<1>2. /\ s \o t \in Seq(S) /\ Len(s \o t) = Len(s) + Len(t)
      /\ \A i \in 1..(Len(s) + Len(t)) :
           (s \o t)[i] = IF i <= Len(s) THEN s[i] ELSE t[i - Len(s)]
  BY <1>1, ConcatProperties
<1>3. 1 \in 1..(Len(s) + Len(t)) /\ 1 <= Len(s) /\ Len(s) + Len(t) > 0
  BY <1>1
<1> QED BY <1>1, <1>2, <1>3 DEF StartsWith

LEMMA ListIsSeq ==
  ASSUME NEW S, NEW n \in Nat, NEW f \in [1..n -> S]
  PROVE  f \in Seq(S) /\ Len(f) = n
<1>1. f \in Seq(S)
  BY SeqDef
<1> QED BY <1>1, LenProperties

Ops == {"user", "category", "deleteAudit", "deleteMessages", "deleteItems", "deleteClaims",
        "claim", "item", "total", "message", "audit", "limits"}

LEMMA ClaimStatements ==
  ASSUME NEW S, NEW s \in SeedClaims, \A op \in Ops, n \in Nat : Do(op, s, n) \in S
  PROVE  StatementsOf(s) \in Seq(S)
<1>1. /\ DOMAIN s.items \in {1..0, 1..1, 1..2}
      /\ DOMAIN s.trail \in {1..1, 1..2, 1..3, 1..4}
  <2>1. /\ DOMAIN DraftSeed.items = 1..2 /\ DOMAIN DraftSeed.trail = 1..1
        /\ DOMAIN PendingSeed.items = 1..2 /\ DOMAIN PendingSeed.trail = 1..2
    BY DEF DraftSeed, PendingSeed
  <2>2. /\ DOMAIN InfoSeed.items = 1..1 /\ DOMAIN InfoSeed.trail = 1..3
        /\ DOMAIN RejectedSeed.items = 1..1 /\ DOMAIN RejectedSeed.trail = 1..3
    BY DEF InfoSeed, RejectedSeed
  <2>3. /\ DOMAIN ApprovedSeed.items = 1..1 /\ DOMAIN ApprovedSeed.trail = 1..3
        /\ DOMAIN ResubmittedSeed.items = 1..1 /\ DOMAIN ResubmittedSeed.trail = 1..4
    BY DEF ApprovedSeed, ResubmittedSeed
  <2>4. DOMAIN CancelledSeed.items = 1..0 /\ DOMAIN CancelledSeed.trail = 1..2
    BY DEF CancelledSeed
  <2> QED BY <2>1, <2>2, <2>3, <2>4, Zenon DEF SeedClaims
<1>2. PICK n, m \in Nat : DOMAIN s.items = 1..n /\ DOMAIN s.trail = 1..m
  BY <1>1
<1>3. /\ <<Do("claim", s, 0)>> \in Seq(S) /\ <<Do("total", s, 0)>> \in Seq(S)
      /\ <<Do("message", s, 0)>> \in Seq(S)
  BY DEF Ops
<1>4. /\ (IF s.items = <<>> THEN <<>> ELSE <<Do("total", s, 0)>>) \in Seq(S)
      /\ (IF s.asks THEN <<Do("message", s, 0)>> ELSE <<>>) \in Seq(S)
  BY <1>3, EmptySeq, Zenon
<1>5. /\ [i \in 1..n |-> Do("item", s, i)] \in [1..n -> S]
      /\ [k \in 1..m |-> Do("audit", s, k)] \in [1..m -> S]
  BY DEF Ops
<1>6. /\ [i \in DOMAIN s.items |-> Do("item", s, i)] \in Seq(S)
      /\ [k \in DOMAIN s.trail |-> Do("audit", s, k)] \in Seq(S)
  BY <1>2, <1>5, ListIsSeq
<1> QED BY <1>3, <1>4, <1>6, ConcatProperties DEF StatementsOf

SeedStatements == {Do(op, s, n) : op \in Ops, s \in SeedClaims, n \in Nat}

(* The seed starts with a user.                                            *)
LEMMA ProgramFacts == Program \in StartsWith(SeedStatements, Do("user", DraftSeed, 1))
<1> DEFINE S == SeedStatements
           first == Do("user", DraftSeed, 1)
<1>1. \A op \in Ops, s \in SeedClaims, n \in Nat : Do(op, s, n) \in S
  BY DEF SeedStatements
<1> HIDE DEF S
<1>2. /\ DraftSeed \in SeedClaims /\ PendingSeed \in SeedClaims /\ InfoSeed \in SeedClaims
      /\ RejectedSeed \in SeedClaims /\ ApprovedSeed \in SeedClaims
      /\ CancelledSeed \in SeedClaims /\ ResubmittedSeed \in SeedClaims
  BY Zenon DEF SeedClaims
<1>3. \A op \in Ops, n \in Nat : Do(op, DraftSeed, n) \in S
  BY <1>1, <1>2
<1>4. DOMAIN SeedUsers = 1..7 /\ DOMAIN CategoryNames = 1..8
  BY DEF SeedUsers, CategoryNames
<1>5. /\ [n \in 1..7 |-> Do("user", DraftSeed, n)] \in [1..7 -> S]
      /\ [n \in 1..8 |-> Do("category", DraftSeed, n)] \in [1..8 -> S]
  BY <1>3 DEF Ops
<1>6. /\ Do("deleteAudit", DraftSeed, 0) \in S /\ Do("deleteMessages", DraftSeed, 0) \in S
      /\ Do("deleteItems", DraftSeed, 0) \in S /\ Do("deleteClaims", DraftSeed, 0) \in S
      /\ Do("limits", DraftSeed, 0) \in S
  BY <1>3 DEF Ops
<1>7. PICK u : u = [n \in 1..7 |-> Do("user", DraftSeed, n)]
  OBVIOUS
<1>8. PICK k : k = [n \in 1..8 |-> Do("category", DraftSeed, n)]
  OBVIOUS
<1>9. u[1] = first /\ u \in Seq(S) /\ Len(u) = 7 /\ k \in Seq(S)
  <2>1. u[1] = first
    BY <1>7
  <2> QED BY <1>5, <1>7, <1>8, <2>1, ListIsSeq
<1>10. PICK d, l \in Seq(S) :
         /\ d = <<Do("deleteAudit", DraftSeed, 0), Do("deleteMessages", DraftSeed, 0),
                  Do("deleteItems", DraftSeed, 0), Do("deleteClaims", DraftSeed, 0)>>
         /\ l = <<Do("limits", DraftSeed, 0)>>
  <2>1. \A v, w, x, y \in S : <<v, w, x, y>> \in Seq(S) /\ <<v>> \in Seq(S)
    OBVIOUS
  <2> QED BY <1>6, <2>1, Zenon
<1> HIDE DEF first
<1>11. PICK a \in StartsWith(S, first) : a = u \o k \o d
  <2>1. Len(u) > 0
    BY <1>9
  <2>2. u \in StartsWith(S, first)
    BY <1>9, <2>1, Zenon DEF StartsWith
  <2> QED BY <1>9, <2>2, ConcatHead
<1>12. PICK b \in StartsWith(S, first) :
         b = a \o StatementsOf(DraftSeed) \o StatementsOf(PendingSeed) \o StatementsOf(InfoSeed)
  BY <1>1, <1>2, ConcatHead, ClaimStatements
<1>13. PICK c \in StartsWith(S, first) :
         c = b \o StatementsOf(RejectedSeed) \o StatementsOf(ApprovedSeed)
               \o StatementsOf(CancelledSeed) \o StatementsOf(ResubmittedSeed)
  BY <1>1, <1>2, ConcatHead, ClaimStatements
<1>14. c \o l \in StartsWith(S, first)
  BY ConcatHead
<1>15. Program = c \o l
  BY <1>4, <1>7, <1>8, <1>10, <1>11, <1>12, <1>13, Zenon DEF Program
<1> QED BY <1>14, <1>15 DEF S, first

LEMMA FirstStatement == Program[1].op = "user" /\ Len(Program) \in Nat \ {0}
<1>1. Program[1] = Do("user", DraftSeed, 1) /\ Len(Program) > 0 /\ Program \in Seq(SeedStatements)
  BY ProgramFacts, Zenon DEF StartsWith
<1>2. Do("user", DraftSeed, 1).op = "user"
  BY DEF Do
<1> QED BY <1>1, <1>2, LenProperties

(* Every statement is about a claim of the seed.                           *)
LEMMA StatementFacts ==
  ASSUME NEW n \in 1..Len(Program)
  PROVE  Program[n].seed \in SeedClaims
<1>1. Program \in Seq(SeedStatements)
  BY ProgramFacts, Zenon DEF StartsWith
<1>2. Program[n] \in SeedStatements
  BY <1>1, ElementOfSeq
<1>3. PICK op \in Ops, s \in SeedClaims, m \in Nat : Program[n] = Do(op, s, m)
  BY <1>2 DEF SeedStatements
<1>4. Do(op, s, m).seed = s
  BY DEF Do
<1> QED BY <1>3, <1>4

(* What every statement of a seed does: after it there is a user.          *)
LEMMA SeedStepFacts ==
  ASSUME SeedInv, NEW b \in Boots, SeedStep(b)
  PROVE  /\ Phase(b) = "seeding" /\ UNCHANGED <<filed, edited, overlapped>>
         /\ boot' \in [Boots -> [phase : Phases, next : Nat]]
         /\ Phase(b)' \in {"seeding", "serving"} /\ \A o \in Boots \ {b} : Phase(o)' = Phase(o)
         /\ \A o \in Boots \ {b} : boot'[o] = boot[o]
         /\ claims' = [c \in ClaimIds |-> claims'[c]] /\ limits' = [k \in Categories |-> limits'[k]]
         /\ users' # {}
<1>1. PICK op \in Ops : Runs(b, op) /\ (op # "user" => users' = users)
                       /\ (op = "user" => UpsertUser(b))
  BY DEF SeedStep, UpsertUser, UpsertCategory, DeleteAudit, DeleteMessages, DeleteItems,
         DeleteClaims, InsertClaim, InsertItem, UpdateTotal, InsertMessage, InsertAudit,
         RecordLimits, Ops
<1>2. /\ Phase(b) = "seeding" /\ UNCHANGED <<filed, edited, overlapped>>
      /\ Program[boot[b].next].op = op
  BY <1>1 DEF Runs
<1>3. boot[b] \in [phase : Phases, next : Nat] /\ boot \in [Boots -> [phase : Phases, next : Nat]]
  BY DEF SeedInv
<1>4. PICK r \in [phase : {"seeding", "serving"}, next : Nat] : boot' = [boot EXCEPT ![b] = r]
  <2>1. boot' = [boot EXCEPT ![b] =
          IF boot[b].next = Len(Program) THEN [boot[b] EXCEPT !.phase = "serving"]
          ELSE [boot[b] EXCEPT !.next = boot[b].next + 1]]
    BY <1>1 DEF Runs
  <2>2. [boot[b] EXCEPT !.phase = "serving"] \in [phase : {"seeding", "serving"}, next : Nat]
    BY <1>3
  <2>3. PICK n \in Nat : n = boot[b].next + 1
    BY <1>3
  <2>4. [boot[b] EXCEPT !.next = n] \in [phase : {"seeding", "serving"}, next : Nat]
    BY <1>2, <1>3, <2>3 DEF Phase
  <2> QED BY <2>1, <2>2, <2>3, <2>4, Zenon
<1>5. /\ boot' \in [Boots -> [phase : Phases, next : Nat]] /\ boot'[b].phase \in {"seeding", "serving"}
      /\ \A o \in Boots \ {b} : boot'[o] = boot[o]
  <2>1. r \in [phase : Phases, next : Nat] /\ r.phase \in {"seeding", "serving"}
    BY DEF Phases
  <2> QED BY <1>3, <1>4, <2>1
<1>6. users' # {}
  <2>1. CASE op = "user"
    BY <1>1, <2>1 DEF UpsertUser
  <2>2. CASE op # "user"
    <3>1. boot[b].next # 1
      BY <1>2, <2>2, FirstStatement
    <3>2. users # {}
      BY <1>2, <3>1 DEF SeedInv
    <3> QED BY <1>1, <2>2, <3>2
  <2> QED BY <2>1, <2>2
<1>7. claims' = [c \in ClaimIds |-> claims'[c]]
  BY DEF SeedInv, SeedStep, UpsertUser, UpsertCategory, DeleteAudit, DeleteMessages, DeleteItems,
         DeleteClaims, InsertClaim, InsertItem, UpdateTotal, InsertMessage, InsertAudit,
         RecordLimits, vars
<1>8. limits' = [k \in Categories |-> limits'[k]]
  BY DEF SeedInv, SeedStep, UpsertUser, UpsertCategory, DeleteAudit, DeleteMessages, DeleteItems,
         DeleteClaims, InsertClaim, InsertItem, UpdateTotal, InsertMessage, InsertAudit,
         RecordLimits
<1> QED BY <1>2, <1>5, <1>6, <1>7, <1>8 DEF Phase

(* A container that changes its phase, on a database that stays as it is.  *)
LEMMA PhaseFacts ==
  ASSUME SeedInv, NEW b \in Boots, Start(b) \/ CountUsers(b) \/ Stop(b)
  PROVE  /\ boot' \in [Boots -> [phase : Phases, next : Nat]]
         /\ \A o \in Boots \ {b} : boot'[o] = boot[o]
         /\ UNCHANGED <<claims, users, limits, filed, edited>>
<1>1. boot \in [Boots -> [phase : Phases, next : Nat]] /\ boot[b] \in [phase : Phases, next : Nat]
  BY DEF SeedInv
<1>2. UNCHANGED <<claims, users, limits, filed, edited>>
  BY DEF Start, CountUsers, Stop, vars
<1>3. PICK r \in [phase : Phases, next : Nat] : boot' = [boot EXCEPT ![b] = r]
  <2>1. CASE Start(b)
    <3>1. [phase |-> "starting", next |-> 1] \in [phase : Phases, next : Nat]
      BY DEF Phases
    <3> QED BY <2>1, <3>1 DEF Start
  <2>2. ASSUME NEW p \in Phases, boot' = [boot EXCEPT ![b].phase = p]
        PROVE  \E r \in [phase : Phases, next : Nat] : boot' = [boot EXCEPT ![b] = r]
    <3>1. [boot[b] EXCEPT !.phase = p] \in [phase : Phases, next : Nat]
      BY <1>1
    <3>2. boot' = [boot EXCEPT ![b] = [boot[b] EXCEPT !.phase = p]]
      BY <2>2
    <3> QED BY <3>1, <3>2
  <2>3. CASE CountUsers(b)
    <3>1. (IF NeedsSeed THEN "seeding" ELSE "serving") \in Phases
      BY DEF Phases
    <3> QED BY <2>2, <2>3, <3>1 DEF CountUsers
  <2>4. CASE Stop(b)
    <3>1. "down" \in Phases
      BY DEF Phases
    <3> QED BY <2>2, <2>4, <3>1 DEF Stop
  <2> QED BY <2>1, <2>3, <2>4
<1> QED BY <1>1, <1>2, <1>3

-----------------------------------------------------------------------------
LEMMA StartKeeps ==
  ASSUME SeedInv, NEW b \in Boots, Start(b)
  PROVE  SeedInv'
<1>1. boot' = [boot EXCEPT ![b] = [phase |-> "starting", next |-> 1]]
  BY DEF Start
<1>2. Phase(b)' = "starting" /\ boot'[b].next = 1 /\ Phase(b) = "down"
  BY <1>1 DEF SeedInv, Phase, Start
<1>3. /\ boot' \in [Boots -> [phase : Phases, next : Nat]]
      /\ \A o \in Boots \ {b} : boot'[o] = boot[o] /\ Phase(o)' = Phase(o)
      /\ UNCHANGED <<claims, users, limits, filed, edited>>
  BY PhaseFacts DEF Phase
<1>4. (Serving' <=> Serving) /\ \A o \in Boots : Phase(o)' = "seeding" <=> Phase(o) = "seeding"
  BY <1>2, <1>3 DEF Serving
<1>5. ~overlapped' => ~overlapped /\ \A o \in Boots : Phase(o) \notin {"starting", "seeding"}
  BY DEF Start
<1>6. UsageSurvives'
  BY <1>3, <1>5 DEF SeedInv, UsageSurvives, Exists
<1>7. \A o \in Boots : Phase(o)' = "starting" => boot'[o].next = 1
  BY <1>2, <1>3 DEF SeedInv
<1>8. users' = {} => /\ ~Serving' /\ filed' = {} /\ edited' = {}
                     /\ \A o \in Boots : Phase(o)' = "seeding" => boot'[o].next = 1
  BY <1>2, <1>3, <1>4 DEF SeedInv
<1>9. ASSUME ~overlapped'
      PROVE  /\ \A d, o \in Boots : {Phase(d)', Phase(o)'} \subseteq {"starting", "seeding"} => d = o
             /\ (\E o \in Boots : Phase(o)' = "seeding") => ~Serving' /\ filed' = {} /\ edited' = {}
  <2>1. \A o \in Boots \ {b} : Phase(o)' \notin {"starting", "seeding"}
    BY <1>3, <1>5, <1>9
  <2>2. \A o \in Boots : Phase(o)' # "seeding"
    BY <1>2, <2>1
  <2> QED BY <2>1, <2>2
<1> QED BY <1>3, <1>6, <1>7, <1>8, <1>9 DEF SeedInv, Phase

(* A container that finds no user is the only one, and nobody has used the *)
(* database.                                                               *)
LEMMA CountUsersKeeps ==
  ASSUME SeedInv, NEW b \in Boots, CountUsers(b)
  PROVE  SeedInv'
<1>1. boot[b] \in [phase : Phases, next : Nat] /\ boot \in [Boots -> [phase : Phases, next : Nat]]
  BY DEF SeedInv
<1>2. /\ Phase(b)' = (IF users = {} THEN "seeding" ELSE "serving")
      /\ boot'[b].next = 1 /\ Phase(b) = "starting"
  BY <1>1 DEF SeedInv, Phase, CountUsers, NeedsSeed
<1>3. /\ boot' \in [Boots -> [phase : Phases, next : Nat]]
      /\ \A o \in Boots \ {b} : boot'[o] = boot[o] /\ Phase(o)' = Phase(o)
      /\ UNCHANGED <<claims, users, limits, filed, edited>>
  BY PhaseFacts DEF Phase
<1>4. overlapped' = overlapped
  BY DEF CountUsers
<1>5. UsageSurvives'
  BY <1>3, <1>4 DEF SeedInv, UsageSurvives, Exists
<1>6. \A o \in Boots : Phase(o)' = "starting" => boot'[o].next = 1
  BY <1>2, <1>3 DEF SeedInv
<1>7. users = {} => /\ ~Serving' /\ filed = {} /\ edited = {}
                    /\ \A o \in Boots : Phase(o)' = "seeding" => boot'[o].next = 1
  BY <1>2, <1>3 DEF SeedInv, Serving
<1>8. ASSUME ~overlapped
      PROVE  /\ \A d, o \in Boots : {Phase(d)', Phase(o)'} \subseteq {"starting", "seeding"} => d = o
             /\ (\E o \in Boots : Phase(o)' = "seeding") => ~Serving' /\ filed = {} /\ edited = {}
  <2>1. \A o \in Boots \ {b} : Phase(o)' \notin {"starting", "seeding"}
    BY <1>2, <1>3, <1>8 DEF SeedInv
  <2>2. (\E o \in Boots : Phase(o)' = "seeding") => users = {}
    BY <1>2, <2>1
  <2> QED BY <1>7, <2>1, <2>2
<1> QED BY <1>3, <1>4, <1>5, <1>6, <1>7, <1>8 DEF SeedInv, Phase

LEMMA SeedStepKeeps ==
  ASSUME SeedInv, NEW b \in Boots, SeedStep(b)
  PROVE  SeedInv'
<1>1. /\ Phase(b) = "seeding" /\ UNCHANGED <<filed, edited, overlapped>>
      /\ boot' \in [Boots -> [phase : Phases, next : Nat]]
      /\ Phase(b)' \in {"seeding", "serving"} /\ \A o \in Boots \ {b} : Phase(o)' = Phase(o)
      /\ \A o \in Boots \ {b} : boot'[o] = boot[o]
      /\ claims' = [c \in ClaimIds |-> claims'[c]] /\ limits' = [k \in Categories |-> limits'[k]]
      /\ users' # {}
  BY SeedStepFacts
<1>2. ~overlapped => filed = {} /\ edited = {} /\ ~Serving
  BY <1>1 DEF SeedInv
<1>3. UsageSurvives'
  BY <1>1, <1>2 DEF UsageSurvives
<1>4. \A o \in Boots : Phase(o)' = "starting" => boot'[o].next = 1
  BY <1>1 DEF SeedInv
<1>5. ASSUME ~overlapped
      PROVE  /\ \A d, o \in Boots : {Phase(d)', Phase(o)'} \subseteq {"starting", "seeding"} => d = o
             /\ (\E o \in Boots : Phase(o)' = "seeding") => ~Serving' /\ filed' = {} /\ edited' = {}
  <2>1. \A o \in Boots \ {b} : Phase(o)' \notin {"starting", "seeding"}
    BY <1>1, <1>5 DEF SeedInv
  <2>2. (\E o \in Boots : Phase(o)' = "seeding") => Phase(b)' = "seeding"
    BY <2>1
  <2>3. Phase(b)' = "seeding" => ~Serving'
    BY <1>1, <1>2, <1>5 DEF Serving
  <2> QED BY <1>1, <1>2, <1>5, <2>1, <2>2, <2>3
<1> QED BY <1>1, <1>3, <1>4, <1>5 DEF SeedInv, Phase

LEMMA StopKeeps ==
  ASSUME SeedInv, NEW b \in Boots, Stop(b)
  PROVE  SeedInv'
<1>1. boot[b] \in [phase : Phases, next : Nat] /\ boot \in [Boots -> [phase : Phases, next : Nat]]
  BY DEF SeedInv
<1>2. Phase(b)' = "down"
  BY <1>1 DEF Phase, Stop
<1>3. /\ boot' \in [Boots -> [phase : Phases, next : Nat]]
      /\ \A o \in Boots \ {b} : boot'[o] = boot[o] /\ Phase(o)' = Phase(o)
      /\ UNCHANGED <<claims, users, limits, filed, edited>>
  BY PhaseFacts DEF Phase
<1>4. overlapped' = overlapped
  BY DEF Stop
<1>5. /\ Serving' => Serving
      /\ \A o \in Boots : Phase(o)' \in {"starting", "seeding"} =>
           boot'[o] = boot[o] /\ Phase(o)' = Phase(o)
  BY <1>2, <1>3 DEF Serving
<1>6. UsageSurvives'
  BY <1>3, <1>4 DEF SeedInv, UsageSurvives, Exists
<1>7. \A o \in Boots : Phase(o)' = "starting" => boot'[o].next = 1
  BY <1>5 DEF SeedInv
<1>8. users' = {} => /\ ~Serving' /\ filed' = {} /\ edited' = {}
                     /\ \A o \in Boots : Phase(o)' = "seeding" => boot'[o].next = 1
  BY <1>3, <1>5 DEF SeedInv
<1>9. ASSUME ~overlapped
      PROVE  /\ \A d, o \in Boots : {Phase(d)', Phase(o)'} \subseteq {"starting", "seeding"} => d = o
             /\ (\E o \in Boots : Phase(o)' = "seeding") => ~Serving' /\ filed' = {} /\ edited' = {}
  BY <1>3, <1>5, <1>9 DEF SeedInv
<1> QED BY <1>3, <1>4, <1>6, <1>7, <1>8, <1>9 DEF SeedInv, Phase

(* The database is in use: no seed is under way that is alone.             *)
LEMMA FileClaimKeeps ==
  ASSUME SeedInv, NEW u \in users, NEW c \in NewIds, FileClaim(u, c)
  PROVE  SeedInv'
<1>1. /\ claims' = [claims EXCEPT ![c] = NewClaim(u)] /\ filed' = filed \cup {c} /\ Serving
      /\ UNCHANGED <<users, limits, boot, edited, overlapped>>
  BY DEF FileClaim, CreateClaim, Write
<1>2. c \in ClaimIds
  BY IdsAssumption
<1>3. /\ claims' = [d \in ClaimIds |-> claims'[d]] /\ claims'[c] = NewClaim(u)
      /\ \A d \in ClaimIds \ {c} : claims'[d] = claims[d]
  BY <1>1, <1>2 DEF SeedInv
<1>4. \A d \in filed' : ~overlapped => Exists(d)'
  <2>1. Exists(c)'
    BY <1>3 DEF Exists, NewClaim
  <2>2. ASSUME NEW d \in filed, d # c, ~overlapped
        PROVE  Exists(d)'
    <3>1. d \in ClaimIds /\ Exists(d)
      BY <1>1, <2>2 DEF SeedInv, UsageSurvives
    <3> QED BY <1>3, <2>2, <3>1 DEF Exists
  <2> QED BY <1>1, <2>1, <2>2
<1>5. UsageSurvives'
  BY <1>1, <1>4 DEF SeedInv, UsageSurvives, EditedLimit
<1>6. /\ UNCHANGED boot /\ users # {} /\ filed' \subseteq ClaimIds
      /\ (Serving' <=> Serving) /\ \A b \in Boots : Phase(b)' = Phase(b)
  BY <1>1, <1>2 DEF SeedInv, Serving, Phase
<1>7. ~overlapped => \A b \in Boots : Phase(b) # "seeding"
  BY <1>1 DEF SeedInv
<1> QED BY <1>1, <1>3, <1>5, <1>6, <1>7 DEF SeedInv

LEMMA EditLimitKeeps ==
  ASSUME SeedInv, NEW k \in Edits, EditLimit(k)
  PROVE  SeedInv'
<1>1. /\ limits' = [limits EXCEPT ![k] = EditedLimit(k)] /\ edited' = edited \cup {k} /\ Serving
      /\ UNCHANGED <<claims, users, boot, filed, overlapped>>
  BY DEF EditLimit, vars
<1>2. k \in Categories
  BY EditsAssumption
<1>3. /\ limits' = [m \in Categories |-> limits'[m]] /\ limits'[k] = EditedLimit(k)
      /\ \A m \in Categories \ {k} : limits'[m] = limits[m]
  BY <1>1, <1>2 DEF SeedInv
<1>4. \A m \in edited' : ~overlapped => limits'[m] = EditedLimit(m)
  BY <1>1, <1>3 DEF SeedInv, UsageSurvives
<1>5. UsageSurvives'
  BY <1>1, <1>4 DEF SeedInv, UsageSurvives, EditedLimit, Exists
<1>6. /\ users # {} /\ edited' \subseteq Categories
      /\ (Serving' <=> Serving) /\ \A b \in Boots : Phase(b)' = Phase(b)
  BY <1>1, <1>2 DEF SeedInv, Serving, Phase
<1>7. ~overlapped => \A b \in Boots : Phase(b) # "seeding"
  BY <1>1 DEF SeedInv
<1> QED BY <1>1, <1>3, <1>5, <1>6, <1>7 DEF SeedInv

LEMMA SeedInitInv == SeedInit => SeedInv
<1> SUFFICES ASSUME SeedInit
             PROVE  SeedInv
  OBVIOUS
<1>1. [phase |-> "down", next |-> 1] \in [phase : Phases, next : Nat]
  BY DEF Phases
<1>2. /\ boot \in [Boots -> [phase : Phases, next : Nat]]
      /\ \A b \in Boots : Phase(b) = "down"
  BY <1>1 DEF SeedInit, Phase
<1>3. ~Serving /\ filed = {} /\ edited = {}
  BY <1>2 DEF SeedInit, Serving
<1>4. claims = [c \in ClaimIds |-> claims[c]] /\ limits = [k \in Categories |-> limits[k]]
  BY DEF SeedInit
<1>5. UsageSurvives
  BY <1>3 DEF UsageSurvives
<1> QED BY <1>2, <1>3, <1>4, <1>5 DEF SeedInv

LEMMA SeedNextInv == SeedInv /\ [SeedNext]_<<vars, seedVars>> => SeedInv'
<1> SUFFICES ASSUME SeedInv, [SeedNext]_<<vars, seedVars>>
             PROVE  SeedInv'
  OBVIOUS
<1>1. ASSUME NEW b \in Boots, Start(b) \/ CountUsers(b) \/ SeedStep(b) \/ Stop(b)
      PROVE  SeedInv'
  BY <1>1, StartKeeps, CountUsersKeeps, SeedStepKeeps, StopKeeps
<1>2. ASSUME NEW u \in users, NEW c \in NewIds, FileClaim(u, c)
      PROVE  SeedInv'
  BY <1>2, FileClaimKeeps
<1>3. ASSUME NEW k \in Edits, EditLimit(k)
      PROVE  SeedInv'
  BY <1>3, EditLimitKeeps
<1>4. CASE UNCHANGED <<vars, seedVars>>
  BY <1>4 DEF vars, seedVars, SeedInv, Serving, Phase, UsageSurvives, Exists, EditedLimit
<1> QED BY <1>1, <1>2, <1>3, <1>4 DEF SeedNext

\* What users have filed and Finance has edited outlives every crash and restart of any
\* number of containers, at any statement of the seed, unless one container was started
\* while another was about to seed, or seeding.
THEOREM UsageOutlivesRestarts == SeedSpec => []UsageSurvives
<1>1. SeedInv => UsageSurvives
  BY DEF SeedInv
<1>2. SeedSpec => []SeedInv
  BY SeedInitInv, SeedNextInv, PTL DEF SeedSpec
<1> QED BY <1>1, <1>2, PTL

-----------------------------------------------------------------------------
(* The rows a seed leaves, whenever it stops.                              *)

(* What the columns of one row say about each other.                       *)
Whole(r) ==
  /\ r.decidedBy # None <=> r.status \in {"APPROVED", "REJECTED"}
  /\ r.rejectedBy # None <=> r.status = "REJECTED"
  /\ r.status \in {"PENDING_APPROVAL", "PENDING_FINANCE_APPROVAL"} => r.clock = Reviewer(r)
  /\ r.approverApprovedBy = None /\ (r.decidedBy \in Approvers => r.decidedBy = r.assignedApprover)

RowsInv ==
  /\ boot = [b \in Boots |-> boot[b]]
  /\ \A b \in Boots : /\ boot[b] = [phase |-> boot[b].phase, next |-> boot[b].next]
                      /\ boot[b].next \in 1..Len(Program)
  /\ claims = [c \in ClaimIds |-> claims[c]] /\ \A c \in ClaimIds : Whole(claims[c])

(* The users of the seed, and what they may do.                            *)
LEMMA SeedRoles ==
  ASSUME SeedUsersExist
  PROVE  /\ {"u_approver1", "u_approver2", "u_approver3"} \subseteq Approvers
         /\ "u_finance1" \in Users /\ Role["u_finance1"] = "FINANCE"
         /\ \A u \in {"u_employee1", "u_employee2", "u_employee3"} :
              u \in Users /\ Role[u] = "CLAIMANT"
         /\ None \notin Approvers
         /\ \A n \in 1..7 : SeedUsers[n] \in Users
<1>1. /\ DOMAIN SeedUsers = 1..7
      /\ SeedUsers[1] = "u_finance1" /\ SeedUsers[2] = "u_approver1"
      /\ SeedUsers[3] = "u_approver2" /\ SeedUsers[4] = "u_approver3"
      /\ SeedUsers[5] = "u_employee1" /\ SeedUsers[6] = "u_employee2"
      /\ SeedUsers[7] = "u_employee3"
  BY DEF SeedUsers
<1>2. \A n \in 1..7 : SeedUsers[n] \in Users /\ Role[SeedUsers[n]] = SeedRole(SeedUsers[n])
  BY <1>1 DEF SeedUsersExist
<1>3. /\ SeedRole("u_finance1") = "FINANCE"
      /\ SeedRole("u_approver1") = "APPROVER" /\ SeedRole("u_approver2") = "APPROVER"
      /\ SeedRole("u_approver3") = "APPROVER" /\ SeedRole("u_employee1") = "CLAIMANT"
      /\ SeedRole("u_employee2") = "CLAIMANT" /\ SeedRole("u_employee3") = "CLAIMANT"
  BY DEF SeedRole
<1>4. 1 \in 1..7 /\ 2 \in 1..7 /\ 3 \in 1..7 /\ 4 \in 1..7 /\ 5 \in 1..7 /\ 6 \in 1..7 /\ 7 \in 1..7
  OBVIOUS
<1>5. /\ "u_approver1" \in Approvers /\ "u_approver2" \in Approvers /\ "u_approver3" \in Approvers
  BY <1>1, <1>2, <1>3, <1>4, Zenon DEF Approvers
<1>6. /\ "u_finance1" \in Users /\ Role["u_finance1"] = "FINANCE"
      /\ "u_employee1" \in Users /\ Role["u_employee1"] = "CLAIMANT"
      /\ "u_employee2" \in Users /\ Role["u_employee2"] = "CLAIMANT"
      /\ "u_employee3" \in Users /\ Role["u_employee3"] = "CLAIMANT"
  BY <1>1, <1>2, <1>3, <1>4, Zenon
<1>7. None \notin Approvers
  BY NoneAssumption DEF Approvers
<1> QED BY <1>2, <1>5, <1>6, <1>7

(* A row that somebody reviews.                                            *)
LEMMA AssignedFacts ==
  ASSUME NEW u, NEW status, NEW a
  PROVE  Assigned(u, status, a) \in
           [status : {status}, claimant : {u}, assignedApprover : {a}, decidedBy : {None},
            approverApprovedBy : {None}, rejectedBy : {None}, submissionCycle : {1},
            total : {0}, clock : {a}]
BY DEF Assigned, NewClaim

(* The only row with these columns, of a claim nothing is decided by an    *)
(* approver's signature alone.                                             *)
RowWith(status, u, a, decider, rejecter, cycle) ==
  [status : {status}, claimant : {u}, assignedApprover : {a}, decidedBy : {decider},
   approverApprovedBy : {None}, rejectedBy : {rejecter}, submissionCycle : {cycle},
   total : {0}, clock : {a}]

LEMMA SeedRows ==
  /\ DraftSeed.row \in RowWith("DRAFT", "u_employee1", None, None, None, 1)
  /\ PendingSeed.row \in RowWith("PENDING_APPROVAL", "u_employee2", "u_approver1", None, None, 1)
  /\ InfoSeed.row \in RowWith("INFO_REQUESTED", "u_employee1", "u_approver2", None, None, 1)
  /\ RejectedSeed.row
       \in RowWith("REJECTED", "u_employee3", "u_approver1", "u_approver1", "u_approver1", 1)
  /\ ApprovedSeed.row
       \in RowWith("APPROVED", "u_employee2", "u_approver3", "u_finance1", None, 1)
  /\ CancelledSeed.row \in RowWith("CANCELLED", "u_employee1", None, None, None, 1)
  /\ ResubmittedSeed.row
       \in RowWith("PENDING_APPROVAL", "u_employee3", "u_approver2", None, None, 2)
<1>1. \A u, status, a : Assigned(u, status, a) \in RowWith(status, u, a, None, None, 1)
  BY AssignedFacts, Zenon DEF RowWith
<1>2. \A u : NewClaim(u) \in RowWith("DRAFT", u, None, None, None, 1)
  BY DEF NewClaim, RowWith
<1>3. /\ DraftSeed.row = NewClaim("u_employee1")
      /\ CancelledSeed.row = [NewClaim("u_employee1") EXCEPT !.status = "CANCELLED"]
  BY DEF DraftSeed, CancelledSeed
<1>4. /\ PendingSeed.row = Assigned("u_employee2", "PENDING_APPROVAL", "u_approver1")
      /\ InfoSeed.row = Assigned("u_employee1", "INFO_REQUESTED", "u_approver2")
  BY DEF PendingSeed, InfoSeed
<1>5. /\ RejectedSeed.row = [Assigned("u_employee3", "REJECTED", "u_approver1") EXCEPT
                               !.decidedBy = "u_approver1", !.rejectedBy = "u_approver1"]
      /\ ApprovedSeed.row = [Assigned("u_employee2", "APPROVED", "u_approver3") EXCEPT
                               !.decidedBy = "u_finance1"]
  BY DEF RejectedSeed, ApprovedSeed
<1>6. ResubmittedSeed.row = [Assigned("u_employee3", "PENDING_APPROVAL", "u_approver2") EXCEPT
                              !.submissionCycle = 2]
  BY DEF ResubmittedSeed
<1>7. /\ DraftSeed.row \in RowWith("DRAFT", "u_employee1", None, None, None, 1)
      /\ PendingSeed.row \in RowWith("PENDING_APPROVAL", "u_employee2", "u_approver1", None, None, 1)
      /\ InfoSeed.row \in RowWith("INFO_REQUESTED", "u_employee1", "u_approver2", None, None, 1)
  BY <1>1, <1>2, <1>3, <1>4
<1>8. RejectedSeed.row
        \in RowWith("REJECTED", "u_employee3", "u_approver1", "u_approver1", "u_approver1", 1)
  <2>1. PICK r \in RowWith("REJECTED", "u_employee3", "u_approver1", None, None, 1) :
          r = Assigned("u_employee3", "REJECTED", "u_approver1")
    BY <1>1
  <2>2. [r EXCEPT !.decidedBy = "u_approver1", !.rejectedBy = "u_approver1"]
          \in RowWith("REJECTED", "u_employee3", "u_approver1", "u_approver1", "u_approver1", 1)
    BY <2>1 DEF RowWith
  <2> QED BY <1>5, <2>1, <2>2
<1>9. ApprovedSeed.row \in RowWith("APPROVED", "u_employee2", "u_approver3", "u_finance1", None, 1)
  <2>1. PICK r \in RowWith("APPROVED", "u_employee2", "u_approver3", None, None, 1) :
          r = Assigned("u_employee2", "APPROVED", "u_approver3")
    BY <1>1
  <2>2. [r EXCEPT !.decidedBy = "u_finance1"]
          \in RowWith("APPROVED", "u_employee2", "u_approver3", "u_finance1", None, 1)
    BY <2>1 DEF RowWith
  <2> QED BY <1>5, <2>1, <2>2
<1>10. CancelledSeed.row \in RowWith("CANCELLED", "u_employee1", None, None, None, 1)
  <2>1. PICK r \in RowWith("DRAFT", "u_employee1", None, None, None, 1) : r = NewClaim("u_employee1")
    BY <1>2
  <2>2. [r EXCEPT !.status = "CANCELLED"]
          \in RowWith("CANCELLED", "u_employee1", None, None, None, 1)
    BY <2>1 DEF RowWith
  <2> QED BY <1>3, <2>1, <2>2
<1>11. ResubmittedSeed.row
         \in RowWith("PENDING_APPROVAL", "u_employee3", "u_approver2", None, None, 2)
  <2>1. PICK r \in RowWith("PENDING_APPROVAL", "u_employee3", "u_approver2", None, None, 1) :
          r = Assigned("u_employee3", "PENDING_APPROVAL", "u_approver2")
    BY <1>1
  <2>2. [r EXCEPT !.submissionCycle = 2]
          \in RowWith("PENDING_APPROVAL", "u_employee3", "u_approver2", None, None, 2)
    BY <2>1 DEF RowWith
  <2> QED BY <1>6, <2>1, <2>2
<1> QED BY <1>7, <1>8, <1>9, <1>10, <1>11

LEMMA SeedRowsWhole ==
  ASSUME SeedUsersExist, NEW s \in SeedClaims
  PROVE  Whole(s.row)
<1>1. /\ None \notin Approvers
      /\ None \notin {"u_finance1", "u_approver1", "u_approver2", "u_approver3"}
      /\ "u_finance1" \notin Approvers
  BY SeedRoles, NoneAssumption DEF Approvers
<1>2. ASSUME NEW status \in {"DRAFT", "PENDING_APPROVAL", "INFO_REQUESTED", "CANCELLED"},
             NEW u, NEW a, NEW cycle, NEW r \in RowWith(status, u, a, None, None, cycle)
      PROVE  Whole(r)
  <2>1. /\ r.status = status /\ r.assignedApprover = a /\ r.clock = a
        /\ r.decidedBy = None /\ r.approverApprovedBy = None /\ r.rejectedBy = None
    BY DEF RowWith
  <2> QED BY <1>1, <2>1 DEF Whole, Reviewer, IsAtFinanceStage
<1>3. ASSUME NEW u, NEW a \in {"u_approver1"}, NEW cycle,
             NEW r \in RowWith("REJECTED", u, a, a, a, cycle)
      PROVE  Whole(r)
  <2>1. /\ r.status = "REJECTED" /\ r.assignedApprover = a
        /\ r.decidedBy = a /\ r.approverApprovedBy = None /\ r.rejectedBy = a
    BY DEF RowWith
  <2> QED BY <1>1, <2>1 DEF Whole
<1>4. ASSUME NEW u, NEW a, NEW cycle, NEW r \in RowWith("APPROVED", u, a, "u_finance1", None, cycle)
      PROVE  Whole(r)
  <2>1. /\ r.status = "APPROVED" /\ r.assignedApprover = a /\ r.decidedBy = "u_finance1"
        /\ r.approverApprovedBy = None /\ r.rejectedBy = None
    BY DEF RowWith
  <2> QED BY <1>1, <2>1 DEF Whole
<1>5. Whole(DraftSeed.row) /\ Whole(PendingSeed.row) /\ Whole(InfoSeed.row)
  BY <1>2, SeedRows
<1>6. Whole(CancelledSeed.row) /\ Whole(ResubmittedSeed.row)
  BY <1>2, SeedRows
<1>7. Whole(RejectedSeed.row) /\ Whole(ApprovedSeed.row)
  BY <1>3, <1>4, SeedRows
<1> QED BY <1>5, <1>6, <1>7, Zenon DEF SeedClaims

(* A row that was never reviewed.                                          *)
LEMMA NewRowsWhole ==
  ASSUME NEW u
  PROVE  Whole(NewClaim(u)) /\ Whole(AbsentClaim)
<1>1. None \notin Approvers
  BY NoneAssumption DEF Approvers
<1> QED BY <1>1 DEF Whole, NewClaim, AbsentClaim

(* A total says nothing about the other columns.                           *)
LEMMA TotalKeepsWhole ==
  ASSUME NEW r, NEW total, Whole(r)
  PROVE  Whole([r EXCEPT !.total = total])
BY DEF Whole, Reviewer, IsAtFinanceStage

LEMMA RowsInitInv == SeedInit => RowsInv
<1> SUFFICES ASSUME SeedInit
             PROVE  RowsInv
  OBVIOUS
<1>1. 1 \in 1..Len(Program)
  BY FirstStatement
<1> QED BY <1>1, NewRowsWhole DEF SeedInit, RowsInv

LEMMA SeedStepKeepsRows ==
  ASSUME SeedUsersExist, RowsInv, NEW b \in Boots, SeedStep(b)
  PROVE  RowsInv'
<1>1. PICK op \in Ops : Runs(b, op)
  BY DEF SeedStep, UpsertUser, UpsertCategory, DeleteAudit, DeleteMessages, DeleteItems,
         DeleteClaims, InsertClaim, InsertItem, UpdateTotal, InsertMessage, InsertAudit,
         RecordLimits, Ops
<1>2. PICK p, n : /\ boot' = [boot EXCEPT ![b] = [phase |-> p, next |-> n]]
                  /\ n \in 1..Len(Program)
  <2>1. /\ boot' = [boot EXCEPT ![b] =
             IF boot[b].next = Len(Program) THEN [boot[b] EXCEPT !.phase = "serving"]
             ELSE [boot[b] EXCEPT !.next = boot[b].next + 1]]
        /\ boot[b] = [phase |-> boot[b].phase, next |-> boot[b].next]
        /\ boot[b].next \in 1..Len(Program)
    BY <1>1 DEF Runs, RowsInv
  <2>2. PICK q, m : boot[b] = [phase |-> q, next |-> m] /\ m \in 1..Len(Program)
    BY <2>1
  <2>3. CASE m = Len(Program)
    <3>1. [boot[b] EXCEPT !.phase = "serving"] = [phase |-> "serving", next |-> m]
      BY <2>2
    <3> QED BY <2>1, <2>2, <2>3, <3>1
  <2>4. CASE m # Len(Program)
    <3>1. m + 1 \in 1..Len(Program)
      BY <2>2, <2>4, FirstStatement
    <3>2. [boot[b] EXCEPT !.next = m + 1] = [phase |-> q, next |-> m + 1]
      BY <2>2
    <3>3. boot[b].next = m
      BY <2>2
    <3> QED BY <2>1, <2>4, <3>1, <3>2, <3>3, Zenon
  <2> QED BY <2>3, <2>4
<1>3. /\ boot' = [o \in Boots |-> boot'[o]]
      /\ \A o \in Boots : /\ boot'[o] = [phase |-> boot'[o].phase, next |-> boot'[o].next]
                          /\ boot'[o].next \in 1..Len(Program)
  <2>1. \A o \in Boots : boot'[o] = IF o = b THEN [phase |-> p, next |-> n] ELSE boot[o]
    BY <1>2 DEF RowsInv
  <2> QED BY <1>2, <2>1 DEF RowsInv
<1>4. claims' = [c \in ClaimIds |-> claims'[c]] /\ \A c \in ClaimIds : Whole(claims'[c])
  <2>1. SeedOf(b) \in SeedClaims
    BY StatementFacts DEF RowsInv, SeedOf, Statement
  <2>2. CASE InsertClaim(b)
    <3>1. Whole(SeedOf(b).row)
      BY <2>1, SeedRowsWhole
    <3> QED BY <2>2, <3>1 DEF InsertClaim, RowsInv
  <2>3. CASE UpdateTotal(b)
    <3>1. PICK id, total : claims' = [claims EXCEPT ![id] = [claims[id] EXCEPT !.total = total]]
      BY <2>3 DEF UpdateTotal
    <3>2. \A c \in ClaimIds : claims'[c] = IF c = id THEN [claims[c] EXCEPT !.total = total]
                                           ELSE claims[c]
      BY <3>1 DEF RowsInv
    <3> QED BY <3>1, <3>2, TotalKeepsWhole DEF RowsInv
  <2>4. CASE DeleteClaims(b)
    BY <2>4, NewRowsWhole DEF DeleteClaims
  <2>5. CASE UNCHANGED claims
    BY <2>5 DEF RowsInv
  <2> QED BY <2>2, <2>3, <2>4, <2>5
          DEF SeedStep, UpsertUser, UpsertCategory, DeleteAudit, DeleteMessages, DeleteItems,
              InsertItem, InsertMessage, InsertAudit, RecordLimits, vars
<1> QED BY <1>3, <1>4 DEF RowsInv

LEMMA RowsNextInv == SeedUsersExist /\ RowsInv /\ [SeedNext]_<<vars, seedVars>> => RowsInv'
<1> SUFFICES ASSUME SeedUsersExist, RowsInv, [SeedNext]_<<vars, seedVars>>
             PROVE  RowsInv'
  OBVIOUS
<1>1. ASSUME NEW b \in Boots, Start(b) \/ CountUsers(b) \/ Stop(b)
      PROVE  RowsInv'
  <2>1. PICK p, n : /\ boot' = [boot EXCEPT ![b] = [phase |-> p, next |-> n]]
                    /\ n \in 1..Len(Program)
    <3>1. CASE Start(b)
      <4>1. 1 \in 1..Len(Program)
        BY FirstStatement
      <4> QED BY <3>1, <4>1 DEF Start
    <3>2. ASSUME NEW p, boot' = [boot EXCEPT ![b].phase = p]
          PROVE  boot' = [boot EXCEPT ![b] = [phase |-> p, next |-> boot[b].next]]
      <4>1. PICK q, m : boot[b] = [phase |-> q, next |-> m]
        BY DEF RowsInv
      <4>2. [boot[b] EXCEPT !.phase = p] = [phase |-> p, next |-> m] /\ boot[b].next = m
        BY <4>1
      <4> QED BY <3>2, <4>2
    <3>3. CASE CountUsers(b) \/ Stop(b)
      BY <3>2, <3>3 DEF CountUsers, Stop, RowsInv
    <3> QED BY <1>1, <3>1, <3>3
  <2>2. \A o \in Boots : boot'[o] = IF o = b THEN [phase |-> p, next |-> n] ELSE boot[o]
    BY <2>1 DEF RowsInv
  <2>3. claims' = claims /\ boot' = [o \in Boots |-> boot'[o]]
    BY <1>1, <2>1 DEF Start, CountUsers, Stop, vars, RowsInv
  <2> QED BY <2>1, <2>2, <2>3 DEF RowsInv
<1>2. ASSUME NEW b \in Boots, SeedStep(b)
      PROVE  RowsInv'
  BY <1>2, SeedStepKeepsRows
<1>3. ASSUME NEW u \in users, NEW c \in NewIds, FileClaim(u, c)
      PROVE  RowsInv'
  <2>1. claims' = [claims EXCEPT ![c] = NewClaim(u)] /\ boot' = boot
    BY <1>3 DEF FileClaim, CreateClaim, Write
  <2> QED BY <2>1, NewRowsWhole DEF RowsInv
<1>4. ASSUME NEW k \in Edits, EditLimit(k)
      PROVE  RowsInv'
  BY <1>4 DEF EditLimit, vars, RowsInv
<1>5. CASE UNCHANGED <<vars, seedVars>>
  BY <1>5 DEF vars, seedVars, RowsInv
<1> QED BY <1>1, <1>2, <1>3, <1>4, <1>5 DEF SeedNext

\* Wherever a seed stops, and whatever other container runs beside it, the columns of
\* each row agree: decisions are of decided claims, the review clock runs for whoever
\* holds the claim, and approvers see what they have decided.
THEOREM SeedLeavesWholeRows ==
  ASSUME SeedUsersExist
  PROVE  SeedSpec => [](DecisionIsOfThisRound /\ ClockRunsForHolder /\ OwnDecisionsStayInScope)
<1>1. RowsInv => DecisionIsOfThisRound /\ ClockRunsForHolder /\ OwnDecisionsStayInScope
  <2> SUFFICES ASSUME RowsInv
               PROVE  DecisionIsOfThisRound /\ ClockRunsForHolder /\ OwnDecisionsStayInScope
    OBVIOUS
  <2>1. DecisionIsOfThisRound /\ ClockRunsForHolder
    BY DEF RowsInv, Whole, DecisionIsOfThisRound, ClockRunsForHolder
  <2>2. ASSUME NEW c \in ClaimIds, NEW a \in Approvers,
               a \in {claims[c].approverApprovedBy, claims[c].decidedBy}
        PROVE  OwnDecisionsStayInScope!(c, a)
    <3>1. a # None /\ Role[a] = "APPROVER"
      BY NoneAssumption DEF Approvers
    <3>2. /\ claims[c].decidedBy = a /\ claims[c].assignedApprover = a
          /\ claims[c].status \in {"APPROVED", "REJECTED"}
      BY <2>2, <3>1 DEF RowsInv, Whole
    <3> QED BY <3>1, <3>2 DEF VisibleTo, InScope, ApprovedToday, RejectedBy, AssignedTo
  <2>3. OwnDecisionsStayInScope
    BY <2>2 DEF OwnDecisionsStayInScope
  <2> QED BY <2>1, <2>3
<1>2. RowsInv /\ [SeedNext]_<<vars, seedVars>> => RowsInv'
  BY RowsNextInv
<1> QED BY <1>1, <1>2, RowsInitInv, PTL DEF SeedSpec

-----------------------------------------------------------------------------
(* What a seed leaves that nothing disturbs.                               *)

(* Sums over one or two items, by opening the fold that adds them up.      *)
AddsUp(f, S, sum) ==
  sum = [s \in SUBSET S |-> IF s = {} THEN 0
           ELSE f[CHOOSE x \in s : TRUE] + sum[s \ {CHOOSE x \in s : TRUE}]]

(* What is left of it: some element is added to the sum of the others.     *)
Sums(f, S, sum) ==
  /\ sum[{}] = 0
  /\ \A s \in SUBSET S : s # {} => \E x \in s : sum[s] = f[x] + sum[s \ {x}]

LEMMA SumOpened ==
  ASSUME NEW f, NEW S, NEW h, AddsUp(f, S, h)
  PROVE  \E sum : Sums(f, S, sum) /\ SumFunctionOnSet(f, S) = sum[S]
<1> DEFINE sum == CHOOSE g : AddsUp(f, S, g)
<1>1. AddsUp(f, S, sum)
  BY Zenon
<1>2. SumFunctionOnSet(f, S) = sum[S]
  BY DEF SumFunctionOnSet, FoldFunctionOnSet, MapThenFoldSet, AddsUp
<1> HIDE DEF sum
<1>3. sum[{}] = 0
  BY <1>1 DEF AddsUp
<1>4. ASSUME NEW s \in SUBSET S, s # {}
      PROVE  \E x \in s : sum[s] = f[x] + sum[s \ {x}]
  <2>1. (CHOOSE x \in s : TRUE) \in s
    BY <1>4
  <2>2. sum[s] = f[CHOOSE x \in s : TRUE] + sum[s \ {CHOOSE x \in s : TRUE}]
    BY <1>1, <1>4, Zenon DEF AddsUp
  <2> QED BY <2>1, <2>2, Zenon
<1>5. Sums(f, S, sum)
  BY <1>3, <1>4 DEF Sums
<1> QED BY <1>2, <1>5

LEMMA SumExists ==
  ASSUME NEW f, NEW S \in SUBSET {1, 2}, \A x \in S : f[x] \in Int
  PROVE  \E h : AddsUp(f, S, h)
<1>1. PICK h : h = [s \in SUBSET S |-> (IF 1 \in s THEN f[1] ELSE 0) + (IF 2 \in s THEN f[2] ELSE 0)]
  OBVIOUS
<1>2. h[{}] = 0
  BY <1>1
<1>3. ASSUME NEW s \in SUBSET S, NEW x \in s
      PROVE  h[s] = f[x] + h[s \ {x}]
  <2>1. x \in {1, 2} /\ s \ {x} \in SUBSET S
    OBVIOUS
  <2>2. CASE x = 1
    <3>1. 1 \in s /\ 1 \notin s \ {x} /\ (2 \in s \ {x} <=> 2 \in s)
      BY <2>2
    <3> QED BY <1>1, <2>1, <2>2, <3>1
  <2>3. CASE x = 2
    <3>1. 2 \in s /\ 2 \notin s \ {x} /\ (1 \in s \ {x} <=> 1 \in s)
      BY <2>3
    <3> QED BY <1>1, <2>1, <2>3, <3>1
  <2> QED BY <2>1, <2>2, <2>3
<1>4. ASSUME NEW s \in SUBSET S
      PROVE  h[s] = IF s = {} THEN 0
                    ELSE f[CHOOSE x \in s : TRUE] + h[s \ {CHOOSE x \in s : TRUE}]
  <2>1. s # {} => (CHOOSE x \in s : TRUE) \in s
    OBVIOUS
  <2> QED BY <1>2, <1>3, <2>1
<1>5. DOMAIN h = SUBSET S /\ h = [s \in DOMAIN h |-> h[s]]
  BY <1>1
<1>6. AddsUp(f, S, h)
  BY <1>4, <1>5, Zenon DEF AddsUp
<1> QED BY <1>6

LEMMA SumOfItems ==
  ASSUME NEW f, NEW S \in SUBSET {1, 2}, \A x \in S : f[x] \in Int
  PROVE  /\ S = {1} => SumFunctionOnSet(f, S) = f[1]
         /\ S = {1, 2} => SumFunctionOnSet(f, S) = f[1] + f[2]
<1>0. PICK h : AddsUp(f, S, h)
  BY SumExists
<1>1. PICK sum : Sums(f, S, sum) /\ SumFunctionOnSet(f, S) = sum[S]
  BY <1>0, SumOpened
<1>2. ASSUME NEW x \in S PROVE sum[{x}] = f[x]
  <2>1. {x} \in SUBSET S /\ {x} # {} /\ f[x] \in Int
    OBVIOUS
  <2>2. PICK y \in {x} : sum[{x}] = f[y] + sum[{x} \ {y}]
    BY <1>1, <2>1, Zenon DEF Sums
  <2>3. y = x /\ {x} \ {y} = {} /\ sum[{}] = 0
    BY <1>1 DEF Sums
  <2>4. sum[{x}] = f[x] + 0
    BY <2>2, <2>3, Zenon
  <2> QED BY <2>1, <2>4
<1>3. ASSUME S = {1} PROVE sum[S] = f[1]
  <2>1. 1 \in S
    BY <1>3
  <2>2. sum[{1}] = f[1]
    BY <1>2, <2>1
  <2> QED BY <1>3, <2>2
<1>4. CASE S = {1, 2}
  <2>1. 1 \in S /\ 2 \in S /\ S # {} /\ S \in SUBSET S
    BY <1>4
  <2>2. PICK x \in S : sum[S] = f[x] + sum[S \ {x}]
    BY <1>1, <2>1, Zenon DEF Sums
  <2>3. S \ {1} = {2} /\ S \ {2} = {1} /\ x \in {1, 2} /\ S # {1}
    BY <1>4
  <2>4. sum[{1}] = f[1] /\ sum[{2}] = f[2]
    BY <1>2, <2>1
  <2>5. f[1] \in Int /\ f[2] \in Int
    BY <2>1
  <2>6. CASE x = 1
    <3>1. sum[S] = f[1] + sum[{2}]
      BY <2>2, <2>3, <2>6, Zenon
    <3> QED BY <1>1, <2>3, <2>4, <3>1
  <2>7. CASE x = 2
    <3>1. sum[S] = f[2] + sum[{1}]
      BY <2>2, <2>3, <2>7, Zenon
    <3>2. sum[S] = f[1] + f[2]
      BY <2>4, <2>5, <3>1
    <3> QED BY <1>1, <2>3, <3>2
  <2> QED BY <2>3, <2>6, <2>7
<1> QED BY <1>1, <1>3, <1>4

-----------------------------------------------------------------------------
(* The seed's data.                                                        *)

(* What every claim of the seed has: an id of its own, at most two items   *)
(* in known categories, and a row whose parties exist.                     *)
LEMMA SeedIds ==
  ASSUME NEW s \in SeedClaims, NEW t \in SeedClaims, s.id = t.id
  PROVE  s = t
<1>1. /\ DraftSeed.id = "c_draft_1" /\ PendingSeed.id = "c_pending_1"
      /\ InfoSeed.id = "c_info_1" /\ RejectedSeed.id = "c_rejected_1"
      /\ ApprovedSeed.id = "c_approved_1" /\ CancelledSeed.id = "c_cancelled_1"
      /\ ResubmittedSeed.id = "c_resubmitted_1"
  BY DEF DraftSeed, PendingSeed, InfoSeed, RejectedSeed, ApprovedSeed, CancelledSeed,
         ResubmittedSeed
<1>2. \A r \in SeedClaims : r \in {DraftSeed, PendingSeed, InfoSeed, RejectedSeed, ApprovedSeed,
                                   CancelledSeed, ResubmittedSeed}
  BY Zenon DEF SeedClaims
<1> QED BY <1>1, <1>2

(* How many items each has; and one that is under review, or approved, has *)
(* some.                                                                   *)
LEMMA SeedItems ==
  ASSUME NEW s \in SeedClaims
  PROVE  /\ s.items = <<>> \/ DOMAIN s.items = {1} \/ DOMAIN s.items = {1, 2}
         /\ s.items = <<>> => DOMAIN s.items = {}
         /\ \A i \in DOMAIN s.items : s.items[i].amount \in Nat /\ s.items[i].category \in Categories
         /\ s.items = <<>> => s = CancelledSeed
         /\ s = InfoSeed <=> s.asks
<1>1. \A category, amount : /\ Item(category, amount).category = category
                            /\ Item(category, amount).amount = amount
  BY DEF Item
<1>2. {"Travel", "Meals", "Lodging", "Software", "Supplies"} \subseteq Categories
  BY DEF Categories, CategoryLimits
<1>3. \A x, y : /\ <<x>> # <<>> /\ <<x, y>> # <<>>
                /\ DOMAIN <<x>> = {1} /\ <<x>>[1] = x
                /\ DOMAIN <<x, y>> = {1, 2} /\ <<x, y>>[1] = x /\ <<x, y>>[2] = y
  OBVIOUS
<1>4. /\ DraftSeed.items = <<Item("Travel", 850), Item("Meals", 620)>> /\ DraftSeed.asks = FALSE
      /\ PendingSeed.items = <<Item("Lodging", 6400), Item("Travel", 9800)>>
      /\ PendingSeed.asks = FALSE
      /\ InfoSeed.items = <<Item("Software", 4200)>> /\ InfoSeed.asks = TRUE
      /\ RejectedSeed.items = <<Item("Meals", 5400)>> /\ RejectedSeed.asks = FALSE
  BY DEF DraftSeed, PendingSeed, InfoSeed, RejectedSeed
<1>5. /\ ApprovedSeed.items = <<Item("Supplies", 1250)>> /\ ApprovedSeed.asks = FALSE
      /\ CancelledSeed.items = <<>> /\ CancelledSeed.asks = FALSE
      /\ ResubmittedSeed.items = <<Item("Travel", 18500)>> /\ ResubmittedSeed.asks = FALSE
  BY DEF ApprovedSeed, CancelledSeed, ResubmittedSeed
<1>6. DOMAIN <<>> = {}
  OBVIOUS
<1>7. CASE s \in {DraftSeed, PendingSeed}
  BY <1>1, <1>2, <1>3, <1>4, <1>7
<1>8. CASE s \in {InfoSeed, RejectedSeed}
  BY <1>1, <1>2, <1>3, <1>4, <1>8
<1>9. CASE s \in {ApprovedSeed, ResubmittedSeed}
  BY <1>1, <1>2, <1>3, <1>4, <1>5, <1>9
<1>10. CASE s = CancelledSeed
  BY <1>4, <1>5, <1>6, <1>10
<1> QED BY <1>7, <1>8, <1>9, <1>10, Zenon DEF SeedClaims

(* The parties of a row are users with the role they act in.               *)
Vouched(r) ==
  /\ r \in ClaimRows /\ r.status \notin {"ABSENT", "PENDING_FINANCE_APPROVAL"} /\ r.total = 0
  /\ r.claimant \in Users /\ Role[r.claimant] = "CLAIMANT"
  /\ r.assignedApprover # None => r.assignedApprover \in Approvers
  /\ IsInReview(r.status) \/ r.status = "APPROVED" => r.assignedApprover # None
  /\ r.status = "APPROVED" => r.decidedBy \in Users /\ Role[r.decidedBy] = "FINANCE"

(* Every row the seed inserts names parties that are users with their      *)
(* roles, and carries no total yet.                                        *)
LEMMA SeedRowsVouched ==
  ASSUME SeedFits, NEW s \in SeedClaims
  PROVE  /\ Vouched(s.row)
         /\ IsInReview(s.row.status) \/ s.row.status = "APPROVED" => s # CancelledSeed
         /\ s.row.status = "INFO_REQUESTED" => s = InfoSeed
<1>1. SeedUsersExist /\ 1 \in 1..MaxCycle /\ 2 \in 1..MaxCycle /\ 0 \in MoneyColumn
  BY CycleAssumption, MoneyAssumption DEF SeedFits, MoneyColumn
<1>2. /\ {"DRAFT", "PENDING_APPROVAL", "INFO_REQUESTED", "REJECTED", "APPROVED", "CANCELLED"}
           \subseteq Statuses
      /\ Approvers \subseteq Users /\ None \in UserRefs /\ Users \subseteq UserRefs
      /\ UserRefs \subseteq UserRefs \cup {"FINANCE"}
  BY DEF Statuses, Approvers, UserRefs
<1>3. /\ "u_approver1" \in Approvers /\ "u_approver2" \in Approvers /\ "u_approver3" \in Approvers
      /\ "u_finance1" \in Users /\ Role["u_finance1"] = "FINANCE" /\ None \notin Approvers
      /\ "u_employee1" \in Users /\ Role["u_employee1"] = "CLAIMANT"
      /\ "u_employee2" \in Users /\ Role["u_employee2"] = "CLAIMANT"
      /\ "u_employee3" \in Users /\ Role["u_employee3"] = "CLAIMANT"
  BY <1>1, SeedRoles
<1>4. ~IsInReview("DRAFT") /\ ~IsInReview("CANCELLED") /\ ~IsInReview("REJECTED")
  BY DEF IsInReview
<1>6. Vouched(DraftSeed.row) /\ DraftSeed.row.status = "DRAFT"
  <2>1. PICK r \in RowWith("DRAFT", "u_employee1", None, None, None, 1) : r = DraftSeed.row
    BY SeedRows
  <2>2. /\ r \in ClaimRows /\ r.total = 0 /\ r.status = "DRAFT"
        /\ r.claimant = "u_employee1" /\ r.assignedApprover = None /\ r.decidedBy = None
    BY <1>1, <1>2, <1>3, <2>1 DEF RowWith, ClaimRows
  <2>3. Vouched(r)
    BY <1>3, <1>4, <2>2 DEF Vouched
  <2> QED BY <2>1, <2>2, <2>3
<1>7. Vouched(PendingSeed.row) /\ PendingSeed.row.status = "PENDING_APPROVAL"
  <2>1. PICK r \in RowWith("PENDING_APPROVAL", "u_employee2", "u_approver1", None, None, 1) :
           r = PendingSeed.row
    BY SeedRows
  <2>2. /\ r \in ClaimRows /\ r.total = 0 /\ r.status = "PENDING_APPROVAL"
        /\ r.claimant = "u_employee2" /\ r.assignedApprover = "u_approver1" /\ r.decidedBy = None
    BY <1>1, <1>2, <1>3, <2>1 DEF RowWith, ClaimRows
  <2>3. Vouched(r)
    BY <1>3, <1>4, <2>2 DEF Vouched
  <2> QED BY <2>1, <2>2, <2>3
<1>8. Vouched(InfoSeed.row) /\ InfoSeed.row.status = "INFO_REQUESTED"
  <2>1. PICK r \in RowWith("INFO_REQUESTED", "u_employee1", "u_approver2", None, None, 1) :
           r = InfoSeed.row
    BY SeedRows
  <2>2. /\ r \in ClaimRows /\ r.total = 0 /\ r.status = "INFO_REQUESTED"
        /\ r.claimant = "u_employee1" /\ r.assignedApprover = "u_approver2" /\ r.decidedBy = None
    BY <1>1, <1>2, <1>3, <2>1 DEF RowWith, ClaimRows
  <2>3. Vouched(r)
    BY <1>3, <1>4, <2>2 DEF Vouched
  <2> QED BY <2>1, <2>2, <2>3
<1>9. Vouched(RejectedSeed.row) /\ RejectedSeed.row.status = "REJECTED"
  <2>1. PICK r \in RowWith("REJECTED", "u_employee3", "u_approver1", "u_approver1", "u_approver1", 1) :
           r = RejectedSeed.row
    BY SeedRows
  <2>2. /\ r \in ClaimRows /\ r.total = 0 /\ r.status = "REJECTED"
        /\ r.claimant = "u_employee3" /\ r.assignedApprover = "u_approver1"
        /\ r.decidedBy = "u_approver1"
    BY <1>1, <1>2, <1>3, <2>1 DEF RowWith, ClaimRows
  <2>3. Vouched(r)
    BY <1>3, <1>4, <2>2 DEF Vouched
  <2> QED BY <2>1, <2>2, <2>3
<1>10. Vouched(ApprovedSeed.row) /\ ApprovedSeed.row.status = "APPROVED"
  <2>1. PICK r \in RowWith("APPROVED", "u_employee2", "u_approver3", "u_finance1", None, 1) :
           r = ApprovedSeed.row
    BY SeedRows
  <2>2. /\ r \in ClaimRows /\ r.total = 0 /\ r.status = "APPROVED"
        /\ r.claimant = "u_employee2" /\ r.assignedApprover = "u_approver3"
        /\ r.decidedBy = "u_finance1"
    BY <1>1, <1>2, <1>3, <2>1 DEF RowWith, ClaimRows
  <2>3. Vouched(r)
    BY <1>3, <1>4, <2>2 DEF Vouched
  <2> QED BY <2>1, <2>2, <2>3
<1>11. Vouched(CancelledSeed.row) /\ CancelledSeed.row.status = "CANCELLED"
  <2>1. PICK r \in RowWith("CANCELLED", "u_employee1", None, None, None, 1) : r = CancelledSeed.row
    BY SeedRows
  <2>2. /\ r \in ClaimRows /\ r.total = 0 /\ r.status = "CANCELLED"
        /\ r.claimant = "u_employee1" /\ r.assignedApprover = None /\ r.decidedBy = None
    BY <1>1, <1>2, <1>3, <2>1 DEF RowWith, ClaimRows
  <2>3. Vouched(r)
    BY <1>3, <1>4, <2>2 DEF Vouched
  <2> QED BY <2>1, <2>2, <2>3
<1>12. Vouched(ResubmittedSeed.row) /\ ResubmittedSeed.row.status = "PENDING_APPROVAL"
  <2>1. PICK r \in RowWith("PENDING_APPROVAL", "u_employee3", "u_approver2", None, None, 2) :
           r = ResubmittedSeed.row
    BY SeedRows
  <2>2. /\ r \in ClaimRows /\ r.total = 0 /\ r.status = "PENDING_APPROVAL"
        /\ r.claimant = "u_employee3" /\ r.assignedApprover = "u_approver2" /\ r.decidedBy = None
    BY <1>1, <1>2, <1>3, <2>1 DEF RowWith, ClaimRows
  <2>3. Vouched(r)
    BY <1>3, <1>4, <2>2 DEF Vouched
  <2> QED BY <2>1, <2>2, <2>3
<1>13. CASE s \in {DraftSeed, RejectedSeed, CancelledSeed}
  BY <1>4, <1>6, <1>9, <1>11, <1>13
<1>14. CASE s \in {PendingSeed, InfoSeed, ApprovedSeed, ResubmittedSeed}
  BY <1>7, <1>8, <1>10, <1>11, <1>12, <1>14
<1> QED BY <1>13, <1>14, Zenon DEF SeedClaims

(* The total the seed computes is the sum of the items it writes.          *)
LEMMA SeedTotals ==
  ASSUME SeedFits, NEW s \in SeedClaims, s.items # <<>>,
         NEW its, ItemsOf(its) = DOMAIN s.items,
         \A i \in DOMAIN s.items : its[i] = s.items[i].amount
  PROVE  SumAmounts(its) = SeedTotal(s)
<1>1. PICK f : f = ItemAmounts(s)
  OBVIOUS
<1>2. DOMAIN f = DOMAIN s.items /\ \A i \in DOMAIN s.items : f[i] = s.items[i].amount
  BY <1>1 DEF ItemAmounts
<1>3. /\ SumAmounts(its) = SumFunctionOnSet(its, DOMAIN s.items)
      /\ SeedTotal(s) = SumFunctionOnSet(f, DOMAIN s.items)
  BY <1>1, <1>2, Zenon DEF SumAmounts, SeedTotal, SumFunction
<1>4. \A i \in DOMAIN s.items : f[i] \in Int /\ its[i] = f[i]
  BY <1>2, SeedItems
<1>5. /\ DOMAIN s.items \in SUBSET {1, 2}
      /\ DOMAIN s.items = {1} \/ DOMAIN s.items = {1, 2}
  BY SeedItems
<1>6. PICK S \in SUBSET {1, 2} : S = DOMAIN s.items
  BY <1>5
<1>7. /\ S = {1} => SumFunctionOnSet(f, S) = f[1] /\ SumFunctionOnSet(its, S) = its[1]
      /\ S = {1, 2} => /\ SumFunctionOnSet(f, S) = f[1] + f[2]
                       /\ SumFunctionOnSet(its, S) = its[1] + its[2]
  BY <1>4, <1>6, SumOfItems
<1>8. /\ S = {1} => its[1] = f[1]
      /\ S = {1, 2} => its[1] = f[1] /\ its[2] = f[2]
  BY <1>4, <1>6
<1>9. SumFunctionOnSet(its, S) = SumFunctionOnSet(f, S)
  BY <1>5, <1>6, <1>7, <1>8, Zenon
<1> QED BY <1>3, <1>6, <1>9

-----------------------------------------------------------------------------
(* The statements, and their order.                                        *)

Deletes == {"deleteAudit", "deleteMessages", "deleteItems", "deleteClaims"}

(* What a seed does before its first claim.                                *)
Preparation ==
  {Do("user", DraftSeed, n) : n \in 1..7} \cup {Do("category", DraftSeed, n) : n \in 1..8}
    \cup {Do(op, DraftSeed, 0) : op \in Deletes}

PartsOf(s) ==
  {Do("claim", s, 0)} \cup {Do("item", s, i) : i \in DOMAIN s.items}
    \cup (IF s.items = <<>> THEN {} ELSE {Do("total", s, 0)})
    \cup (IF s.asks THEN {Do("message", s, 0)} ELSE {})
    \cup {Do("audit", s, n) : n \in DOMAIN s.trail}

Insertions == UNION {PartsOf(s) : s \in SeedClaims}

LastStatement == Do("limits", DraftSeed, 0)

(* What has been executed when statement n is the next.                    *)
Executed(n) == {Program[m] : m \in 1..(n - 1)}

(* The fields of a statement.                                              *)
LEMMA DoFacts ==
  ASSUME NEW op, NEW s, NEW n
  PROVE  Do(op, s, n).op = op /\ Do(op, s, n).seed = s /\ Do(op, s, n).n = n
BY DEF Do

(* The statements of a sequence that follows another one.                  *)
LEMMA ToSetConcat ==
  ASSUME NEW S, NEW s \in Seq(S), NEW t \in Seq(S)
  PROVE  s \o t \in Seq(S) /\ ToSet(s \o t) = ToSet(s) \cup ToSet(t)
<1>1. /\ s \o t \in Seq(S) /\ Len(s \o t) = Len(s) + Len(t)
      /\ \A i \in 1..(Len(s) + Len(t)) :
           (s \o t)[i] = IF i <= Len(s) THEN s[i] ELSE t[i - Len(s)]
  BY ConcatProperties
<1>2. /\ Len(s) \in Nat /\ DOMAIN s = 1..Len(s) /\ Len(t) \in Nat /\ DOMAIN t = 1..Len(t)
      /\ DOMAIN (s \o t) = 1..(Len(s) + Len(t))
  BY <1>1, LenProperties
<1>3. \A i \in DOMAIN s : i \in DOMAIN (s \o t) /\ (s \o t)[i] = s[i]
  BY <1>1, <1>2
<1>4. ASSUME NEW i \in DOMAIN t
      PROVE  Len(s) + i \in DOMAIN (s \o t) /\ (s \o t)[Len(s) + i] = t[i]
  <2>1. Len(s) + i \in 1..(Len(s) + Len(t)) /\ ~(Len(s) + i <= Len(s)) /\ (Len(s) + i) - Len(s) = i
    BY <1>2
  <2> QED BY <1>1, <1>2, <2>1
<1>5. ASSUME NEW i \in DOMAIN (s \o t)
      PROVE  (s \o t)[i] \in ToSet(s) \cup ToSet(t)
  <2>1. i <= Len(s) => i \in DOMAIN s
    BY <1>2
  <2>2. ~(i <= Len(s)) => i - Len(s) \in DOMAIN t
    BY <1>2
  <2> QED BY <1>1, <1>2, <2>1, <2>2 DEF ToSet
<1>6. ToSet(s) \cup ToSet(t) \subseteq ToSet(s \o t)
  BY <1>3, <1>4 DEF ToSet
<1>7. ToSet(s \o t) \subseteq ToSet(s) \cup ToSet(t)
  BY <1>5 DEF ToSet
<1> QED BY <1>1, <1>6, <1>7

(* The same, of lists that have names.                                     *)
LEMMA JoinedLists ==
  ASSUME NEW S
  PROVE  \A f \in Seq(S), g \in Seq(S) :
           \E h \in Seq(S) : h = f \o g /\ ToSet(h) = ToSet(f) \cup ToSet(g)
<1> SUFFICES ASSUME NEW f \in Seq(S), NEW g \in Seq(S)
             PROVE  \E h \in Seq(S) : h = f \o g /\ ToSet(h) = ToSet(f) \cup ToSet(g)
  OBVIOUS
<1>1. f \o g \in Seq(S) /\ ToSet(f \o g) = ToSet(f) \cup ToSet(g)
  BY ToSetConcat
<1> QED BY <1>1, Zenon

(* The statements of a claim are its parts, in whatever order.             *)
LEMMA StatementsAreParts ==
  ASSUME NEW S, NEW s \in SeedClaims, \A op \in Ops, n \in Nat : Do(op, s, n) \in S
  PROVE  StatementsOf(s) \in Seq(S) /\ ToSet(StatementsOf(s)) = PartsOf(s)
<1>1. /\ DOMAIN s.items \in {1..0, 1..1, 1..2}
      /\ DOMAIN s.trail \in {1..1, 1..2, 1..3, 1..4}
  <2>1. /\ DOMAIN DraftSeed.items = 1..2 /\ DOMAIN DraftSeed.trail = 1..1
        /\ DOMAIN PendingSeed.items = 1..2 /\ DOMAIN PendingSeed.trail = 1..2
    BY DEF DraftSeed, PendingSeed
  <2>2. /\ DOMAIN InfoSeed.items = 1..1 /\ DOMAIN InfoSeed.trail = 1..3
        /\ DOMAIN RejectedSeed.items = 1..1 /\ DOMAIN RejectedSeed.trail = 1..3
    BY DEF InfoSeed, RejectedSeed
  <2>3. /\ DOMAIN ApprovedSeed.items = 1..1 /\ DOMAIN ApprovedSeed.trail = 1..3
        /\ DOMAIN ResubmittedSeed.items = 1..1 /\ DOMAIN ResubmittedSeed.trail = 1..4
    BY DEF ApprovedSeed, ResubmittedSeed
  <2>4. DOMAIN CancelledSeed.items = 1..0 /\ DOMAIN CancelledSeed.trail = 1..2
    BY DEF CancelledSeed
  <2> QED BY <2>1, <2>2, <2>3, <2>4, Zenon DEF SeedClaims
<1>2. PICK n, m \in Nat : DOMAIN s.items = 1..n /\ DOMAIN s.trail = 1..m
  BY <1>1
<1>3. PICK c, t, q \in Seq(S) :
        /\ c = <<Do("claim", s, 0)>> /\ ToSet(c) = {Do("claim", s, 0)}
        /\ t = <<Do("total", s, 0)>> /\ ToSet(t) = {Do("total", s, 0)}
        /\ q = <<Do("message", s, 0)>> /\ ToSet(q) = {Do("message", s, 0)}
  <2>1. ASSUME NEW e \in S PROVE <<e>> \in Seq(S) /\ ToSet(<<e>>) = {e}
    BY DEF ToSet
  <2>2. Do("claim", s, 0) \in S /\ Do("total", s, 0) \in S /\ Do("message", s, 0) \in S
    BY DEF Ops
  <2> QED BY <2>1, <2>2
<1>4. PICK o \in Seq(S) : o = <<>> /\ ToSet(o) = {}
  <2>1. <<>> \in Seq(S) /\ DOMAIN <<>> = {}
    OBVIOUS
  <2>2. ToSet(<<>>) = {}
    BY <2>1 DEF ToSet
  <2> QED BY <2>1, <2>2
<1>5. PICK i, a \in Seq(S) :
        /\ i = [k \in DOMAIN s.items |-> Do("item", s, k)]
        /\ a = [k \in DOMAIN s.trail |-> Do("audit", s, k)]
  <2>1. /\ [k \in 1..n |-> Do("item", s, k)] \in [1..n -> S]
        /\ [k \in 1..m |-> Do("audit", s, k)] \in [1..m -> S]
    BY DEF Ops
  <2> QED BY <1>2, <2>1, ListIsSeq
<1>6. /\ ToSet(i) = {Do("item", s, k) : k \in DOMAIN s.items}
      /\ ToSet(a) = {Do("audit", s, k) : k \in DOMAIN s.trail}
  BY <1>5 DEF ToSet
<1>7. PICK x, w \in Seq(S) :
        /\ x = (IF s.items = <<>> THEN o ELSE t)
        /\ ToSet(x) = (IF s.items = <<>> THEN {} ELSE {Do("total", s, 0)})
        /\ w = (IF s.asks THEN q ELSE o)
        /\ ToSet(w) = (IF s.asks THEN {Do("message", s, 0)} ELSE {})
  BY <1>3, <1>4
<1>8. StatementsOf(s) = (((c \o i) \o x) \o w) \o a
  BY <1>3, <1>4, <1>5, <1>7, Zenon DEF StatementsOf
<1>9. PICK r : r = (((c \o i) \o x) \o w) \o a
  OBVIOUS
<1>10. r \in Seq(S) /\ ToSet(r) = ToSet(c) \cup ToSet(i) \cup ToSet(x) \cup ToSet(w) \cup ToSet(a)
  <2>1. \A f \in Seq(S), g \in Seq(S) :
           \E h \in Seq(S) : h = f \o g /\ ToSet(h) = ToSet(f) \cup ToSet(g)
    BY JoinedLists, Zenon
  <2>2. PICK f \in Seq(S) : f = c \o i /\ ToSet(f) = ToSet(c) \cup ToSet(i)
    BY <2>1, Zenon
  <2>3. PICK g \in Seq(S) : g = f \o x /\ ToSet(g) = ToSet(f) \cup ToSet(x)
    BY <2>1, Zenon
  <2>4. PICK h \in Seq(S) : h = g \o w /\ ToSet(h) = ToSet(g) \cup ToSet(w)
    BY <2>1, Zenon
  <2>5. PICK l \in Seq(S) : l = h \o a /\ ToSet(l) = ToSet(h) \cup ToSet(a)
    BY <2>1, Zenon
  <2>6. r = l
    BY <1>9, <2>2, <2>3, <2>4, <2>5, Zenon
  <2> QED BY <2>2, <2>3, <2>4, <2>5, <2>6, Zenon
<1>11. StatementsOf(s) = r
  BY <1>8, <1>9, Zenon
<1>12. ToSet(r) = PartsOf(s)
  <2>1. /\ {Do("claim", s, 0)} = ToSet(c)
        /\ (IF s.items = <<>> THEN {} ELSE {Do("total", s, 0)}) = ToSet(x)
        /\ (IF s.asks THEN {Do("message", s, 0)} ELSE {}) = ToSet(w)
    BY <1>3, <1>7, Zenon
  <2>2. /\ {Do("item", s, k) : k \in DOMAIN s.items} = ToSet(i)
        /\ {Do("audit", s, k) : k \in DOMAIN s.trail} = ToSet(a)
    BY <1>6, Zenon
  <2>3. PartsOf(s) = ToSet(c) \cup ToSet(i) \cup ToSet(x) \cup ToSet(w) \cup ToSet(a)
    BY <2>1, <2>2, Zenon DEF PartsOf
  <2> QED BY <1>10, <2>3, Zenon
<1> QED BY <1>10, <1>11, <1>12, Zenon

(* The elements of z up to place p, and those after it.                    *)
Splits(z, p, A, B) ==
  p \in 0..Len(z) /\ {z[m] : m \in 1..p} = A /\ {z[m] : m \in (p + 1)..Len(z)} = B

(* What is appended to a list comes after every place of it.               *)
LEMMA SplitsConcat ==
  ASSUME NEW S, NEW z \in Seq(S), NEW t \in Seq(S), NEW p, NEW A, NEW B, Splits(z, p, A, B)
  PROVE  \E r \in Seq(S) :
           r = z \o t /\ Len(r) = Len(z) + Len(t) /\ Splits(r, p, A, B \cup ToSet(t))
<1>1. PICK r \in Seq(S) :
        /\ r = z \o t /\ Len(r) = Len(z) + Len(t)
        /\ \A i \in 1..(Len(z) + Len(t)) : r[i] = IF i <= Len(z) THEN z[i] ELSE t[i - Len(z)]
  <2>1. /\ z \o t \in Seq(S) /\ Len(z \o t) = Len(z) + Len(t)
        /\ \A i \in 1..(Len(z) + Len(t)) :
             (z \o t)[i] = IF i <= Len(z) THEN z[i] ELSE t[i - Len(z)]
    BY ConcatProperties
  <2> QED BY <2>1, Zenon
<1>2. Len(z) \in Nat /\ Len(t) \in Nat /\ DOMAIN t = 1..Len(t) /\ p \in Nat /\ p <= Len(z)
  BY LenProperties DEF Splits
<1>3. \A i \in 1..Len(z) : r[i] = z[i]
  BY <1>1, <1>2
<1>4. {r[m] : m \in 1..p} = A
  <2>1. \A m \in 1..p : m \in 1..Len(z)
    BY <1>2
  <2>2. {r[m] : m \in 1..p} = {z[m] : m \in 1..p}
    BY <1>3, <2>1
  <2> QED BY <2>2 DEF Splits
<1>5. \A m \in (p + 1)..Len(r) : r[m] \in B \cup ToSet(t)
  <2>1. ASSUME NEW m \in (p + 1)..Len(r), m <= Len(z)
        PROVE  r[m] \in B
    BY <1>2, <1>3, <2>1 DEF Splits
  <2>2. ASSUME NEW m \in (p + 1)..Len(r), ~(m <= Len(z))
        PROVE  r[m] \in ToSet(t)
    <3>1. m \in 1..(Len(z) + Len(t)) /\ m - Len(z) \in DOMAIN t
      BY <1>1, <1>2, <2>2
    <3> QED BY <1>1, <2>2, <3>1 DEF ToSet
  <2> QED BY <2>1, <2>2
<1>6. B \subseteq {r[m] : m \in (p + 1)..Len(r)}
  <2>1. \A m \in (p + 1)..Len(z) : m \in (p + 1)..Len(r) /\ r[m] = z[m]
    BY <1>1, <1>2, <1>3
  <2> QED BY <2>1 DEF Splits
<1>7. ToSet(t) \subseteq {r[m] : m \in (p + 1)..Len(r)}
  <2>1. ASSUME NEW i \in DOMAIN t
        PROVE  Len(z) + i \in (p + 1)..Len(r) /\ r[Len(z) + i] = t[i]
    <3>1. /\ Len(z) + i \in 1..(Len(z) + Len(t)) /\ ~(Len(z) + i <= Len(z))
          /\ (Len(z) + i) - Len(z) = i /\ Len(z) + i \in (p + 1)..Len(r)
      BY <1>1, <1>2
    <3> QED BY <1>1, <3>1
  <2> QED BY <2>1 DEF ToSet
<1>8. p \in 0..Len(r)
  BY <1>1, <1>2
<1>9. {r[m] : m \in (p + 1)..Len(r)} = B \cup ToSet(t)
  BY <1>5, <1>6, <1>7
<1> QED BY <1>1, <1>4, <1>8, <1>9 DEF Splits

(* The seed prepares, then inserts its claims, then records their limits.  *)
LEMMA ProgramOrder ==
  \E p, q \in Nat :
    /\ p <= q /\ Len(Program) = q + 1 /\ Program[q + 1] = LastStatement
    /\ {Program[m] : m \in 1..p} = Preparation
    /\ {Program[m] : m \in (p + 1)..q} = Insertions
<1> DEFINE S == SeedStatements
<1>1. \A op \in Ops, s \in SeedClaims, n \in Nat : Do(op, s, n) \in S
  BY DEF SeedStatements
<1> HIDE DEF S
<1>2. /\ DraftSeed \in SeedClaims /\ PendingSeed \in SeedClaims /\ InfoSeed \in SeedClaims
      /\ RejectedSeed \in SeedClaims /\ ApprovedSeed \in SeedClaims
      /\ CancelledSeed \in SeedClaims /\ ResubmittedSeed \in SeedClaims
  BY Zenon DEF SeedClaims
<1>3. DOMAIN SeedUsers = 1..7 /\ DOMAIN CategoryNames = 1..8
  BY DEF SeedUsers, CategoryNames
<1>4. \A op \in Ops, n \in Nat : Do(op, DraftSeed, n) \in S
  BY <1>1, <1>2
<1>5. PICK u, k \in Seq(S) :
        /\ u = [n \in 1..7 |-> Do("user", DraftSeed, n)]
        /\ ToSet(u) = {Do("user", DraftSeed, n) : n \in 1..7}
        /\ k = [n \in 1..8 |-> Do("category", DraftSeed, n)]
        /\ ToSet(k) = {Do("category", DraftSeed, n) : n \in 1..8}
  <2>1. /\ [n \in 1..7 |-> Do("user", DraftSeed, n)] \in [1..7 -> S]
        /\ [n \in 1..8 |-> Do("category", DraftSeed, n)] \in [1..8 -> S]
    BY <1>4 DEF Ops
  <2>2. /\ [n \in 1..7 |-> Do("user", DraftSeed, n)] \in Seq(S)
        /\ [n \in 1..8 |-> Do("category", DraftSeed, n)] \in Seq(S)
    BY <2>1, ListIsSeq
  <2> QED BY <2>2 DEF ToSet
<1>61. PICK l \in Seq(S) : l = <<LastStatement>> /\ Len(l) = 1 /\ l[1] = LastStatement
  <2>1. ASSUME NEW e \in S
        PROVE  \E z \in Seq(S) : z = <<e>> /\ Len(z) = 1 /\ z[1] = e
    <3>1. <<e>> \in Seq(S) /\ Len(<<e>>) = 1 /\ <<e>>[1] = e
      OBVIOUS
    <3> QED BY <3>1
  <2>2. LastStatement \in S
    BY <1>4 DEF Ops, LastStatement
  <2> QED BY <2>1, <2>2, Zenon
<1>6. PICK d \in Seq(S) :
        /\ d = <<Do("deleteAudit", DraftSeed, 0), Do("deleteMessages", DraftSeed, 0),
                 Do("deleteItems", DraftSeed, 0), Do("deleteClaims", DraftSeed, 0)>>
        /\ ToSet(d) = {Do("deleteAudit", DraftSeed, 0), Do("deleteMessages", DraftSeed, 0),
                       Do("deleteItems", DraftSeed, 0), Do("deleteClaims", DraftSeed, 0)}
  <2>1. PICK v \in S, w \in S, x \in S, y \in S :
          /\ v = Do("deleteAudit", DraftSeed, 0) /\ w = Do("deleteMessages", DraftSeed, 0)
          /\ x = Do("deleteItems", DraftSeed, 0) /\ y = Do("deleteClaims", DraftSeed, 0)
    <3>1. /\ Do("deleteAudit", DraftSeed, 0) \in S /\ Do("deleteMessages", DraftSeed, 0) \in S
          /\ Do("deleteItems", DraftSeed, 0) \in S /\ Do("deleteClaims", DraftSeed, 0) \in S
      BY <1>4 DEF Ops
    <3> QED BY <3>1, Zenon
  <2>2. <<v, w, x, y>> \in Seq(S) /\ DOMAIN <<v, w, x, y>> = 1..4
    OBVIOUS
  <2>3. ToSet(<<v, w, x, y>>) = {v, w, x, y}
    BY <2>2 DEF ToSet
  <2> QED BY <2>1, <2>2, <2>3, Zenon
<1>63. ToSet(d) = {Do(op, DraftSeed, 0) : op \in Deletes}
  BY <1>6 DEF Deletes
<1>7. \A f \in Seq(S), g \in Seq(S) :
        \E h \in Seq(S) : h = f \o g /\ ToSet(h) = ToSet(f) \cup ToSet(g)
  BY JoinedLists, Zenon
<1>8. PICK uk \in Seq(S) : uk = u \o k /\ ToSet(uk) = ToSet(u) \cup ToSet(k)
  BY <1>7, Zenon
<1>9. PICK a \in Seq(S) : a = uk \o d /\ ToSet(a) = ToSet(uk) \cup ToSet(d)
  BY <1>7, Zenon
<1>10. ToSet(a) = Preparation
  BY <1>5, <1>63, <1>8, <1>9 DEF Preparation
<1>11. PICK p \in Nat : p = Len(a)
  BY LenProperties
<1>12. Splits(a, p, Preparation, {})
  <2>1. DOMAIN a = 1..p
    BY <1>11, LenProperties
  <2>2. {a[m] : m \in 1..p} = Preparation
    BY <1>10, <2>1 DEF ToSet
  <2>3. (p + 1)..Len(a) = {} /\ p \in 0..Len(a)
    BY <1>11
  <2> QED BY <2>2, <2>3 DEF Splits
<1>13. ASSUME NEW z \in Seq(S), NEW B, Splits(z, p, Preparation, B), NEW s \in SeedClaims
       PROVE  \E r \in Seq(S) :
                r = z \o StatementsOf(s) /\ Splits(r, p, Preparation, B \cup PartsOf(s))
  <2>1. PICK t \in Seq(S) : t = StatementsOf(s) /\ ToSet(t) = PartsOf(s)
    BY <1>1, StatementsAreParts
  <2>2. PICK r \in Seq(S) : r = z \o t /\ Splits(r, p, Preparation, B \cup ToSet(t))
    BY <1>13, SplitsConcat
  <2> QED BY <2>1, <2>2
<1>14. PICK z1 \in Seq(S) : /\ z1 = a \o StatementsOf(DraftSeed)
                            /\ Splits(z1, p, Preparation, {} \cup PartsOf(DraftSeed))
  BY <1>2, <1>12, <1>13, Zenon
<1>15. PICK z2 \in Seq(S) :
         /\ z2 = z1 \o StatementsOf(PendingSeed)
         /\ Splits(z2, p, Preparation, {} \cup PartsOf(DraftSeed) \cup PartsOf(PendingSeed))
  BY <1>2, <1>14, <1>13, Zenon
<1>16. PICK z3 \in Seq(S) :
         /\ z3 = z2 \o StatementsOf(InfoSeed)
         /\ Splits(z3, p, Preparation, {} \cup PartsOf(DraftSeed) \cup PartsOf(PendingSeed)
                                          \cup PartsOf(InfoSeed))
  BY <1>2, <1>15, <1>13, Zenon
<1>17. PICK z4 \in Seq(S) :
         /\ z4 = z3 \o StatementsOf(RejectedSeed)
         /\ Splits(z4, p, Preparation, {} \cup PartsOf(DraftSeed) \cup PartsOf(PendingSeed)
                                          \cup PartsOf(InfoSeed) \cup PartsOf(RejectedSeed))
  BY <1>2, <1>16, <1>13, Zenon
<1>18. PICK B, z5 : /\ z5 \in Seq(S) /\ z5 = z4 \o StatementsOf(ApprovedSeed)
                    /\ Splits(z5, p, Preparation, B)
                    /\ B = {} \cup PartsOf(DraftSeed) \cup PartsOf(PendingSeed) \cup PartsOf(InfoSeed)
                             \cup PartsOf(RejectedSeed) \cup PartsOf(ApprovedSeed)
  BY <1>2, <1>17, <1>13, Zenon
<1>19. PICK z6 \in Seq(S) : /\ z6 = z5 \o StatementsOf(CancelledSeed)
                            /\ Splits(z6, p, Preparation, B \cup PartsOf(CancelledSeed))
  BY <1>2, <1>18, <1>13, Zenon
<1>20. PICK z7 \in Seq(S) :
         /\ z7 = z6 \o StatementsOf(ResubmittedSeed)
         /\ Splits(z7, p, Preparation, B \cup PartsOf(CancelledSeed) \cup PartsOf(ResubmittedSeed))
  BY <1>2, <1>19, <1>13, Zenon
<1>21. B \cup PartsOf(CancelledSeed) \cup PartsOf(ResubmittedSeed) = Insertions
  BY <1>18 DEF Insertions, SeedClaims
<1>22. Program = z7 \o l
  BY <1>3, <1>5, <1>6, <1>61, <1>8, <1>9, <1>14, <1>15, <1>16, <1>17, <1>18, <1>19, <1>20, Zenon
     DEF Program, LastStatement
<1>23. PICK q \in Nat : q = Len(z7)
  BY LenProperties
<1>24. /\ Len(z7 \o l) = q + 1
       /\ \A i \in 1..(q + 1) : (z7 \o l)[i] = IF i <= q THEN z7[i] ELSE l[i - q]
  BY <1>61, <1>23, ConcatProperties
<1>25. Splits(z7, p, Preparation, Insertions)
  BY <1>20, <1>21
<1>26. p <= q /\ (Program)[q + 1] = LastStatement
  <2>1. q + 1 \in 1..(q + 1) /\ ~(q + 1 <= q) /\ (q + 1) - q = 1
    OBVIOUS
  <2> QED BY <1>61, <1>22, <1>23, <1>24, <1>25, <2>1 DEF Splits
<1>27. /\ {Program[m] : m \in 1..p} = Preparation
       /\ {Program[m] : m \in (p + 1)..q} = Insertions
  <2>1. \A m \in 1..q : Program[m] = z7[m]
    BY <1>22, <1>24
  <2>2. \A m \in 1..p : m \in 1..q
    BY <1>26
  <2>3. \A m \in (p + 1)..q : m \in 1..q
    OBVIOUS
  <2> QED BY <1>23, <1>25, <2>1, <2>2, <2>3 DEF Splits
<1> QED BY <1>22, <1>24, <1>26, <1>27

(* What kind of statement it is tells where it stands.                     *)
LEMMA StatementKinds ==
  ASSUME NEW e
  PROVE  /\ e \in Preparation =>
              /\ e.op \in {"user", "category"} \cup Deletes
              /\ e.op = "user" => \E n \in 1..7 : e = Do("user", DraftSeed, n)
              /\ e.op = "category" => \E n \in 1..8 : e = Do("category", DraftSeed, n)
         /\ e \in Insertions =>
              /\ e.op \in {"claim", "item", "total", "message", "audit"}
              /\ e.seed \in SeedClaims /\ e = Do(e.op, e.seed, e.n)
              /\ e.op = "item" => e.n \in DOMAIN e.seed.items
              /\ e.op = "audit" => e.n \in DOMAIN e.seed.trail
              /\ e.op \in {"claim", "total", "message"} => e.n = 0
              /\ e.op = "total" => e.seed.items # <<>>
         /\ e = LastStatement => e.op = "limits"
<1>1. ASSUME e \in Preparation
      PROVE  /\ e.op \in {"user", "category"} \cup Deletes
             /\ e.op = "user" => \E n \in 1..7 : e = Do("user", DraftSeed, n)
             /\ e.op = "category" => \E n \in 1..8 : e = Do("category", DraftSeed, n)
  <2>1. CASE e \in {Do("user", DraftSeed, n) : n \in 1..7}
    BY <2>1, DoFacts
  <2>2. CASE e \in {Do("category", DraftSeed, n) : n \in 1..8}
    BY <2>2, DoFacts
  <2>3. CASE e \in {Do(op, DraftSeed, 0) : op \in Deletes}
    BY <2>3, DoFacts DEF Deletes
  <2> QED BY <1>1, <2>1, <2>2, <2>3 DEF Preparation
<1>2. ASSUME e \in Insertions
      PROVE  /\ e.op \in {"claim", "item", "total", "message", "audit"}
             /\ e.seed \in SeedClaims /\ e = Do(e.op, e.seed, e.n)
             /\ e.op = "item" => e.n \in DOMAIN e.seed.items
             /\ e.op = "audit" => e.n \in DOMAIN e.seed.trail
             /\ e.op \in {"claim", "total", "message"} => e.n = 0
             /\ e.op = "total" => e.seed.items # <<>>
  <2>1. PICK s \in SeedClaims : e \in PartsOf(s)
    BY <1>2 DEF Insertions
  <2>2. PICK op, n :
          /\ op \in {"claim", "item", "total", "message", "audit"} /\ e = Do(op, s, n)
          /\ op = "item" => n \in DOMAIN s.items
          /\ op = "audit" => n \in DOMAIN s.trail
          /\ op \in {"claim", "total", "message"} => n = 0
          /\ op = "total" => s.items # <<>>
    <3>1. CASE e = Do("claim", s, 0)
      BY <3>1
    <3>2. CASE \E i \in DOMAIN s.items : e = Do("item", s, i)
      BY <3>2
    <3>3. CASE s.items # <<>> /\ e = Do("total", s, 0)
      BY <3>3
    <3>4. CASE e = Do("message", s, 0)
      BY <3>4
    <3>5. CASE \E n \in DOMAIN s.trail : e = Do("audit", s, n)
      BY <3>5
    <3> QED BY <2>1, <3>1, <3>2, <3>3, <3>4, <3>5 DEF PartsOf
  <2>3. e.op = op /\ e.seed = s /\ e.n = n
    BY <2>2, DoFacts
  <2> QED BY <2>2, <2>3, Zenon
<1>3. e = LastStatement => e.op = "limits"
  BY DoFacts DEF LastStatement
<1> QED BY <1>1, <1>2, <1>3

(* What is executed grows by the next statement; the preparation is over   *)
(* before the first insertion, and everything before the last statement.   *)
LEMMA ExecutedFacts ==
  ASSUME NEW n \in 1..Len(Program)
  PROVE  /\ n # Len(Program) => /\ Program[n] \in Preparation \cup Insertions
                                /\ Executed(n + 1) = Executed(n) \cup {Program[n]}
         /\ n = Len(Program) => /\ Program[n] = LastStatement
                                /\ Executed(n) = Preparation \cup Insertions
         /\ Program[n] \in Preparation => Executed(n) \subseteq Preparation
<1>1. PICK p, q \in Nat :
        /\ p <= q /\ Len(Program) = q + 1 /\ Program[q + 1] = LastStatement
        /\ {Program[m] : m \in 1..p} = Preparation
        /\ {Program[m] : m \in (p + 1)..q} = Insertions
  BY ProgramOrder
<1>2. n \in 1..(q + 1)
  BY <1>1
<1>3. \A m \in 1..p : Program[m] \in Preparation
  BY <1>1
<1>4. \A m \in (p + 1)..q : Program[m] \in Insertions
  BY <1>1
<1>5. ASSUME n # Len(Program)
      PROVE  /\ Program[n] \in Preparation \cup Insertions
             /\ Executed(n + 1) = Executed(n) \cup {Program[n]}
  <2>1. n \in 1..p \/ n \in (p + 1)..q
    BY <1>1, <1>2, <1>5
  <2>2. 1..((n + 1) - 1) = (1..(n - 1)) \cup {n}
    BY <1>2
  <2> QED BY <1>3, <1>4, <2>1, <2>2 DEF Executed
<1>6. ASSUME n = Len(Program)
      PROVE  Program[n] = LastStatement /\ Executed(n) = Preparation \cup Insertions
  <2>1. n = q + 1 /\ 1..(n - 1) = (1..p) \cup ((p + 1)..q)
    BY <1>1, <1>6
  <2>2. Executed(n) = {Program[m] : m \in 1..p} \cup {Program[m] : m \in (p + 1)..q}
    BY <2>1 DEF Executed
  <2> QED BY <1>1, <2>1, <2>2
<1>7. ASSUME Program[n] \in Preparation
      PROVE  Executed(n) \subseteq Preparation
  <2>1. Program[n].op \in {"user", "category"} \cup Deletes
    BY <1>7, StatementKinds
  <2>2. Program[n] \notin Insertions /\ Program[n] # LastStatement
    BY <2>1, StatementKinds DEF Deletes
  <2>3. n \in 1..p
    BY <1>1, <1>2, <1>4, <2>2
  <2>4. \A m \in 1..(n - 1) : m \in 1..p
    BY <2>3
  <2> QED BY <1>3, <2>4 DEF Executed
<1> QED BY <1>5, <1>6, <1>7

(* What the statement a container runs can be, by its operation.           *)
LEMMA RunFacts ==
  ASSUME RowsInv, NEW b \in Boots, NEW op, Runs(b, op)
  PROVE  /\ Statement(b).op = op /\ boot[b].next \in 1..Len(Program)
         /\ op \in {"user", "category"} \cup Deletes => Statement(b) \in Preparation
         /\ op \in {"claim", "item", "total", "message", "audit"} => Statement(b) \in Insertions
         /\ op = "limits" => Statement(b) = LastStatement /\ boot[b].next = Len(Program)
         /\ op # "limits" => boot[b].next # Len(Program)
<1>1. Statement(b).op = op /\ boot[b].next \in 1..Len(Program) /\ Statement(b) = Program[boot[b].next]
  BY DEF Runs, RowsInv, Statement
<1>2. /\ boot[b].next # Len(Program) => Statement(b) \in Preparation \cup Insertions
      /\ boot[b].next = Len(Program) => Statement(b) = LastStatement
  BY <1>1, ExecutedFacts
<1>3. /\ Statement(b) \in Preparation => op \in {"user", "category"} \cup Deletes
      /\ Statement(b) \in Insertions => op \in {"claim", "item", "total", "message", "audit"}
      /\ Statement(b) = LastStatement => op = "limits"
  BY <1>1, StatementKinds
<1> QED BY <1>1, <1>2, <1>3 DEF Deletes

-----------------------------------------------------------------------------
(* Types, whatever disturbs the seed.                                      *)

SeedTypes ==
  TypeOK /\ users \subseteq Users /\ limits = [k \in Categories |-> limits[k]]

(* Amounts and totals of the seed fit their columns.                       *)
LEMMA SeedAmounts ==
  ASSUME SeedFits, NEW s \in SeedClaims
  PROVE  /\ s.id \in ClaimIds /\ DOMAIN s.items \subseteq ItemIds
         /\ s.items # <<>> => SeedTotal(s) \in MoneyColumn
         /\ \A i \in DOMAIN s.items : s.items[i].amount \in MoneyColumn
<1>1. s.id \in ClaimIds /\ {1, 2} \subseteq ItemIds /\ SeedTotal(s) <= MaxMoney
  BY DEF SeedFits
<1>2. PICK f : f = ItemAmounts(s)
  OBVIOUS
<1>3. DOMAIN f = DOMAIN s.items /\ \A i \in DOMAIN s.items : f[i] = s.items[i].amount
  BY <1>2 DEF ItemAmounts
<1>4. SeedTotal(s) = SumFunctionOnSet(f, DOMAIN s.items)
  BY <1>2, <1>3, Zenon DEF SeedTotal, SumFunction
<1>5. s.items = <<>> \/ DOMAIN s.items = {1} \/ DOMAIN s.items = {1, 2}
  BY SeedItems
<1>6. s.items = <<>> => DOMAIN s.items = {}
  BY SeedItems
<1>7. \A i \in DOMAIN s.items : f[i] \in Nat
  BY <1>3, SeedItems
<1>8. CASE DOMAIN s.items = {1}
  <2>1. SeedTotal(s) = f[1]
    BY <1>4, <1>7, <1>8, SumOfItems
  <2> QED BY <1>1, <1>3, <1>7, <1>8, <2>1, MoneyAssumption DEF MoneyColumn
<1>9. CASE DOMAIN s.items = {1, 2}
  <2>1. SeedTotal(s) = f[1] + f[2]
    BY <1>4, <1>7, <1>9, SumOfItems
  <2>2. f[1] \in Nat /\ f[2] \in Nat
    BY <1>7, <1>9
  <2>3. SeedTotal(s) \in MoneyColumn /\ f[1] \in MoneyColumn /\ f[2] \in MoneyColumn
    BY <1>1, <2>1, <2>2, MoneyAssumption DEF MoneyColumn
  <2> QED BY <1>1, <1>3, <1>9, <2>3
<1>10. CASE s.items = <<>>
  BY <1>1, <1>6, <1>10
<1> QED BY <1>5, <1>8, <1>9, <1>10

(* The audit rows of the seed are audit rows.                              *)
LEMMA SeedTrails ==
  ASSUME SeedFits, NEW s \in SeedClaims, NEW n \in DOMAIN s.trail
  PROVE  s.trail[n] \in AuditRows
<1>1. /\ {"u_employee1", "u_employee2", "u_employee3"} \subseteq UserRefs
      /\ {"u_approver1", "u_approver2", "u_finance1"} \subseteq UserRefs
  BY SeedRoles DEF SeedFits, Approvers, UserRefs
<1>2. ASSUME NEW action \in AuditActions, NEW u \in UserRefs, NEW old \in Statuses, NEW new \in Statuses
      PROVE  Entry(action, u, old, new) \in AuditRows
  BY DEF Entry, AuditRows
<1>3. /\ {"CLAIM_CREATED", "CLAIM_SUBMITTED", "CLAIM_REJECTED", "CLAIM_INFO_REQUESTED",
          "CLAIM_APPROVED", "CLAIM_CANCELLED", "CLAIM_RESUBMITTED"} \subseteq AuditActions
      /\ {"ABSENT", "DRAFT", "PENDING_APPROVAL", "REJECTED", "INFO_REQUESTED", "APPROVED",
          "CANCELLED"} \subseteq Statuses
  BY DEF AuditActions, Statuses
<1>4. ASSUME NEW u \in UserRefs
      PROVE  /\ Created(u) \in AuditRows /\ SubmittedBy(u) \in AuditRows
             /\ RejectedFrom(u) \in AuditRows
  BY <1>2, <1>3 DEF Created, SubmittedBy, RejectedFrom
<1>5. /\ Entry("CLAIM_INFO_REQUESTED", "u_approver2", "PENDING_APPROVAL", "INFO_REQUESTED") \in AuditRows
      /\ Entry("CLAIM_APPROVED", "u_finance1", "PENDING_APPROVAL", "APPROVED") \in AuditRows
      /\ Entry("CLAIM_CANCELLED", "u_employee1", "DRAFT", "CANCELLED") \in AuditRows
      /\ Entry("CLAIM_RESUBMITTED", "u_employee3", "REJECTED", "PENDING_APPROVAL") \in AuditRows
  BY <1>1, <1>2, <1>3
<1>6. ASSUME NEW w \in AuditRows, NEW x \in AuditRows, NEW y \in AuditRows, NEW z \in AuditRows
      PROVE  /\ \A m \in DOMAIN <<w>> : <<w>>[m] \in AuditRows
             /\ \A m \in DOMAIN <<w, x>> : <<w, x>>[m] \in AuditRows
             /\ \A m \in DOMAIN <<w, x, y>> : <<w, x, y>>[m] \in AuditRows
             /\ \A m \in DOMAIN <<w, x, y, z>> : <<w, x, y, z>>[m] \in AuditRows
  OBVIOUS
<1>7. CASE s \in {DraftSeed, PendingSeed, CancelledSeed}
  <2>1. /\ DraftSeed.trail = <<Created("u_employee1")>>
        /\ PendingSeed.trail = <<Created("u_employee2"), SubmittedBy("u_employee2")>>
        /\ CancelledSeed.trail
              = <<Created("u_employee1"),
                  Entry("CLAIM_CANCELLED", "u_employee1", "DRAFT", "CANCELLED")>>
    BY DEF DraftSeed, PendingSeed, CancelledSeed
  <2>2. /\ \A m \in DOMAIN DraftSeed.trail : DraftSeed.trail[m] \in AuditRows
        /\ \A m \in DOMAIN PendingSeed.trail : PendingSeed.trail[m] \in AuditRows
        /\ \A m \in DOMAIN CancelledSeed.trail : CancelledSeed.trail[m] \in AuditRows
    BY <1>1, <1>4, <1>5, <1>6, <2>1
  <2> QED BY <1>7, <2>2
<1>8. CASE s \in {InfoSeed, RejectedSeed, ApprovedSeed}
  <2>1. /\ InfoSeed.trail
              = <<Created("u_employee1"), SubmittedBy("u_employee1"),
                  Entry("CLAIM_INFO_REQUESTED", "u_approver2", "PENDING_APPROVAL", "INFO_REQUESTED")>>
        /\ RejectedSeed.trail
              = <<Created("u_employee3"), SubmittedBy("u_employee3"), RejectedFrom("u_approver1")>>
        /\ ApprovedSeed.trail
              = <<Created("u_employee2"), SubmittedBy("u_employee2"),
                  Entry("CLAIM_APPROVED", "u_finance1", "PENDING_APPROVAL", "APPROVED")>>
    BY DEF InfoSeed, RejectedSeed, ApprovedSeed
  <2>2. /\ \A m \in DOMAIN InfoSeed.trail : InfoSeed.trail[m] \in AuditRows
        /\ \A m \in DOMAIN RejectedSeed.trail : RejectedSeed.trail[m] \in AuditRows
        /\ \A m \in DOMAIN ApprovedSeed.trail : ApprovedSeed.trail[m] \in AuditRows
    BY <1>1, <1>4, <1>5, <1>6, <2>1
  <2> QED BY <1>8, <2>2
<1>9. CASE s = ResubmittedSeed
  <2>1. ResubmittedSeed.trail
          = <<Created("u_employee3"), SubmittedBy("u_employee3"), RejectedFrom("u_approver1"),
              Entry("CLAIM_RESUBMITTED", "u_employee3", "REJECTED", "PENDING_APPROVAL")>>
    BY DEF ResubmittedSeed
  <2>2. \A m \in DOMAIN ResubmittedSeed.trail : ResubmittedSeed.trail[m] \in AuditRows
    BY <1>1, <1>4, <1>5, <1>6, <2>1
  <2> QED BY <1>9, <2>2
<1> QED BY <1>7, <1>8, <1>9, Zenon DEF SeedClaims

(* The empty database is typed.                                            *)
LEMMA SeedTypesInit == SeedInit => SeedTypes
<1>1. AbsentClaim \in ClaimRows
  BY MoneyAssumption, CycleAssumption DEF AbsentClaim, NewClaim, ClaimRows, UserRefs, Statuses, MoneyColumn
<1>2. Entry("NONE", None, "ABSENT", "ABSENT") \in AuditRows
  BY DEF Entry, AuditRows, AuditActions, UserRefs, Statuses
<1> QED BY <1>1, <1>2 DEF SeedInit, SeedTypes, TypeOK, NoItems, NoThread, NoAudit, Threads

(* Every statement keeps the types.                                        *)
LEMMA SeedStepKeepsTypes ==
  ASSUME SeedFits, RowsInv, SeedTypes, NEW b \in Boots, SeedStep(b)
  PROVE  SeedTypes'
<1>1. /\ claims \in [ClaimIds -> ClaimRows]
      /\ items \in [ClaimIds -> [ItemIds -> MoneyColumn \cup {None}]]
      /\ thread \in [ClaimIds -> Threads] /\ audit \in [ClaimIds -> AuditRows]
      /\ active \in SUBSET Approvers /\ users \subseteq Users
      /\ limits = [k \in Categories |-> limits[k]]
  BY DEF SeedTypes, TypeOK
<1>2. /\ AbsentClaim \in ClaimRows /\ NoItems \in [ClaimIds -> [ItemIds -> MoneyColumn \cup {None}]]
      /\ NoThread \in [ClaimIds -> Threads] /\ NoAudit \in [ClaimIds -> AuditRows]
  <2>1. Entry("NONE", None, "ABSENT", "ABSENT") \in AuditRows
    BY DEF Entry, AuditRows, AuditActions, UserRefs, Statuses
  <2>2. AbsentClaim \in ClaimRows
    BY MoneyAssumption, CycleAssumption DEF AbsentClaim, NewClaim, ClaimRows, UserRefs, Statuses, MoneyColumn
  <2> QED BY <2>1, <2>2 DEF NoItems, NoThread, NoAudit, Threads
<1>3. CASE UpsertUser(b)
  <2>1. Statement(b) \in Preparation /\ Statement(b).op = "user"
    BY <1>3, RunFacts DEF UpsertUser
  <2>2. PICK n \in 1..7 : Statement(b) = Do("user", DraftSeed, n)
    BY <2>1, StatementKinds
  <2>3. SeedUsers[Statement(b).n] \in Users
    BY <2>2, DoFacts, SeedRoles DEF SeedFits
  <2> QED BY <1>1, <1>3, <2>3 DEF UpsertUser, SeedTypes, TypeOK
<1>4. CASE UpsertCategory(b)
  <2>1. PICK k, l : limits' = [limits EXCEPT ![k] = l]
    BY <1>4 DEF UpsertCategory
  <2>2. limits' = [m \in Categories |-> limits'[m]]
    BY <1>1, <2>1
  <2> QED BY <1>1, <1>4, <2>2 DEF UpsertCategory, SeedTypes, TypeOK, vars
<1>5. CASE DeleteAudit(b) \/ DeleteMessages(b) \/ DeleteItems(b) \/ DeleteClaims(b) \/ RecordLimits(b)
  BY <1>1, <1>2, <1>5 DEF DeleteAudit, DeleteMessages, DeleteItems, DeleteClaims, RecordLimits,
       SeedTypes, TypeOK, vars
<1>6. ASSUME NEW op \in {"claim", "item", "total", "message", "audit"}, Runs(b, op)
      PROVE  /\ SeedOf(b) \in SeedClaims /\ SeedOf(b).id \in ClaimIds
             /\ op = "item" => Statement(b).n \in DOMAIN SeedOf(b).items
             /\ op = "audit" => Statement(b).n \in DOMAIN SeedOf(b).trail
             /\ op = "total" => SeedOf(b).items # <<>>
  <2>1. Statement(b) \in Insertions /\ Statement(b).op = op
    BY <1>6, RunFacts
  <2>2. Statement(b).seed \in SeedClaims
    BY <2>1, StatementKinds
  <2> QED BY <2>1, <2>2, StatementKinds, SeedAmounts DEF SeedOf
<1>7. CASE InsertClaim(b)
  <2>1. SeedOf(b) \in SeedClaims
    BY <1>6, <1>7 DEF InsertClaim
  <2>2. SeedOf(b).row \in ClaimRows
    BY <2>1, SeedRowsVouched DEF Vouched
  <2> QED BY <1>1, <1>7, <2>2 DEF InsertClaim, SeedTypes, TypeOK
<1>8. CASE InsertItem(b)
  <2>1. PICK s, i : /\ s \in SeedClaims /\ i \in DOMAIN s.items
                    /\ items' = [items EXCEPT ![s.id][i] = s.items[i].amount]
    BY <1>6, <1>8 DEF InsertItem
  <2>2. s.items[i].amount \in MoneyColumn
    BY <2>1, SeedAmounts
  <2>3. items' \in [ClaimIds -> [ItemIds -> MoneyColumn \cup {None}]]
    BY <1>1, <2>1, <2>2
  <2> QED BY <1>1, <1>8, <2>3 DEF InsertItem, SeedTypes, TypeOK
<1>9. CASE UpdateTotal(b)
  <2>1. PICK c \in ClaimIds, total \in MoneyColumn : claims' = [claims EXCEPT ![c].total = total]
    <3>1. SeedOf(b) \in SeedClaims /\ SeedOf(b).id \in ClaimIds /\ SeedOf(b).items # <<>>
      BY <1>6, <1>9 DEF UpdateTotal
    <3>2. SeedTotal(SeedOf(b)) \in MoneyColumn
      BY <3>1, SeedAmounts
    <3> QED BY <1>9, <3>1, <3>2 DEF UpdateTotal
  <2>2. [claims[c] EXCEPT !.total = total] \in ClaimRows
    BY <1>1 DEF ClaimRows
  <2>3. claims' = [claims EXCEPT ![c] = [claims[c] EXCEPT !.total = total]]
    BY <2>1
  <2> QED BY <1>1, <1>9, <2>2, <2>3 DEF UpdateTotal, SeedTypes, TypeOK
<1>10. CASE InsertMessage(b)
  <2>1. PICK c : thread' = [thread EXCEPT ![c].info = "INFO_REQUEST"]
    BY <1>10 DEF InsertMessage
  <2>2. thread' \in [ClaimIds -> Threads]
    BY <1>1, <2>1 DEF Threads
  <2> QED BY <1>1, <1>10, <2>2 DEF InsertMessage, SeedTypes, TypeOK
<1>11. CASE InsertAudit(b)
  <2>1. SeedOf(b) \in SeedClaims /\ Statement(b).n \in DOMAIN SeedOf(b).trail
    BY <1>6, <1>11 DEF InsertAudit
  <2>2. SeedOf(b).trail[Statement(b).n] \in AuditRows
    BY <2>1, SeedTrails
  <2> QED BY <1>1, <1>11, <2>2 DEF InsertAudit, SeedTypes, TypeOK
<1> QED BY <1>3, <1>4, <1>5, <1>7, <1>8, <1>9, <1>10, <1>11 DEF SeedStep

(* So does everything else a container or a user does.                     *)
LEMMA SeedTypesNext ==
  SeedFits /\ RowsInv /\ SeedTypes /\ [SeedNext]_<<vars, seedVars>> => SeedTypes'
<1> SUFFICES ASSUME SeedFits, RowsInv, SeedTypes, [SeedNext]_<<vars, seedVars>>
             PROVE  SeedTypes'
  OBVIOUS
<1>1. ASSUME UNCHANGED <<claims, items, thread, audit, active, users, limits>>
      PROVE  SeedTypes'
  BY <1>1 DEF SeedTypes, TypeOK
<1>2. ASSUME NEW b \in Boots, Start(b) \/ CountUsers(b) \/ Stop(b)
      PROVE  SeedTypes'
  BY <1>1, <1>2 DEF Start, CountUsers, Stop, vars
<1>3. ASSUME NEW b \in Boots, SeedStep(b)
      PROVE  SeedTypes'
  BY <1>3, SeedStepKeepsTypes
<1>4. ASSUME NEW u \in users, NEW c \in NewIds, FileClaim(u, c)
      PROVE  SeedTypes'
  <2>1. u \in UserRefs /\ c \in ClaimIds
    BY IdsAssumption DEF SeedTypes, UserRefs
  <2>2. NewClaim(u) \in ClaimRows
    BY <2>1, MoneyAssumption, CycleAssumption DEF NewClaim, ClaimRows, UserRefs, Statuses, MoneyColumn
  <2>3. claims[c].status \in Statuses /\ NewClaim(u).status \in Statuses
    BY <2>1, <2>2 DEF SeedTypes, TypeOK, ClaimRows
  <2>4. [action |-> "CLAIM_CREATED", actor |-> u, old |-> claims[c].status,
         new |-> NewClaim(u).status] \in AuditRows
    BY <2>1, <2>3 DEF AuditRows, AuditActions
  <2>5. /\ claims' = [claims EXCEPT ![c] = NewClaim(u)]
        /\ audit' = [audit EXCEPT ![c] = [action |-> "CLAIM_CREATED", actor |-> u,
                        old |-> claims[c].status, new |-> NewClaim(u).status]]
        /\ UNCHANGED <<items, thread, active, users, limits>>
    BY <1>4 DEF FileClaim, CreateClaim, Write, RecordAudit
  <2> QED BY <2>2, <2>4, <2>5 DEF SeedTypes, TypeOK
<1>5. ASSUME NEW k \in Edits, EditLimit(k)
      PROVE  SeedTypes'
  <2>1. /\ limits' = [limits EXCEPT ![k] = EditedLimit(k)]
        /\ UNCHANGED <<claims, items, thread, audit, active, users>>
    BY <1>5 DEF EditLimit, vars
  <2> QED BY <2>1 DEF SeedTypes, TypeOK
<1>6. CASE UNCHANGED <<vars, seedVars>>
  BY <1>1, <1>6 DEF vars, seedVars
<1> QED BY <1>2, <1>3, <1>4, <1>5, <1>6 DEF SeedNext
-----------------------------------------------------------------------------
(* The database after some statements of a seed that runs alone.           *)

(* Row r has the columns of the row seed s writes, but for its total.      *)
SameRow(r, s) ==
  /\ r.status = s.row.status /\ r.claimant = s.row.claimant
  /\ r.assignedApprover = s.row.assignedApprover /\ r.decidedBy = s.row.decidedBy
  /\ r.approverApprovedBy = s.row.approverApprovedBy /\ r.rejectedBy = s.row.rejectedBy
  /\ r.clock = s.row.clock

(* What the statements D have written of claim s.                          *)
Recorded(s, D) ==
  /\ Do("claim", s, 0) \notin D => ~Exists(s.id) /\ Do("total", s, 0) \notin D
  /\ Do("claim", s, 0) \in D =>
       /\ SameRow(claims[s.id], s)
       /\ Do("total", s, 0) \in D => claims[s.id].total = SeedTotal(s)
       /\ s.items = <<>> => claims[s.id].total = 0
  /\ \A i \in ItemIds :
       items[s.id][i] = IF Do("item", s, i) \in D THEN s.items[i].amount ELSE None
  /\ Do("message", s, 0) \in D => thread[s.id].info = "INFO_REQUEST"

SeedIdSet == {s.id : s \in SeedClaims}

(* What the tables hold when statements D have been executed.              *)
Contents(D) ==
  /\ \A s \in SeedClaims : Recorded(s, D)
  /\ \A c \in ClaimIds \ SeedIdSet :
       claims[c] = AbsentClaim /\ \A i \in ItemIds : items[c][i] = None
  /\ \A n \in 1..8 : Do("category", DraftSeed, n) \in D => limits[CategoryNames[n]] # None

(* Adding a statement adds it under its kind, claim and number only.       *)
LEMMA AddStatement ==
  ASSUME NEW D, NEW e, NEW op, NEW s, NEW n
  PROVE  /\ Do(op, s, n) \in D => Do(op, s, n) \in D \cup {e}
         /\ e.op # op => (Do(op, s, n) \in D \cup {e} <=> Do(op, s, n) \in D)
         /\ e.seed # s => (Do(op, s, n) \in D \cup {e} <=> Do(op, s, n) \in D)
         /\ e.n # n => (Do(op, s, n) \in D \cup {e} <=> Do(op, s, n) \in D)
<1>1. Do(op, s, n) = e => e.op = op /\ e.seed = s /\ e.n = n
  BY DoFacts
<1> QED BY <1>1

(* The categories the seed writes have limits.                             *)
LEMMA CategoryFacts ==
  /\ \A k \in Categories : CategoryLimits[k] \in Int /\ \E n \in 1..8 : CategoryNames[n] = k
  /\ \A n \in 1..8 : CategoryNames[n] \in Categories
<1>1. Categories = {"Travel", "Lodging", "Meals", "Training", "Supplies", "Software",
                    "ClientEntertainment", "Other"}
  BY DEF Categories, CategoryLimits
<1>2. /\ CategoryNames[1] = "Travel" /\ CategoryNames[2] = "Lodging" /\ CategoryNames[3] = "Meals"
      /\ CategoryNames[4] = "Training" /\ CategoryNames[5] = "Supplies"
      /\ CategoryNames[6] = "Software" /\ CategoryNames[7] = "ClientEntertainment"
      /\ CategoryNames[8] = "Other"
  BY DEF CategoryNames
<1>3. /\ CategoryLimits["Travel"] \in Int /\ CategoryLimits["Lodging"] \in Int
      /\ CategoryLimits["Meals"] \in Int /\ CategoryLimits["Training"] \in Int
      /\ CategoryLimits["Supplies"] \in Int /\ CategoryLimits["Software"] \in Int
      /\ CategoryLimits["ClientEntertainment"] \in Int /\ CategoryLimits["Other"] \in Int
  BY DEF CategoryLimits
<1>4. \A k \in Categories : CategoryLimits[k] \in Int
  BY <1>1, <1>3
<1>5. \A k \in Categories : \E n \in 1..8 : CategoryNames[n] = k
  BY <1>1, <1>2
<1>6. \A n \in 1..8 : n \in {1, 2, 3, 4, 5, 6, 7, 8}
  OBVIOUS
<1>7. \A n \in 1..8 : CategoryNames[n] \in Categories
  BY <1>1, <1>2, <1>6, Zenon
<1> QED BY <1>4, <1>5, <1>7

(* Before the first claim of the seed there is none, whoever was seeding   *)
(* before.                                                                 *)
LEMMA NothingYet ==
  ASSUME NEW D \in SUBSET Preparation, NEW s
  PROVE  /\ Do("claim", s, 0) \notin D /\ Do("total", s, 0) \notin D
         /\ Do("message", s, 0) \notin D /\ \A i : Do("item", s, i) \notin D
<1>1. ASSUME NEW op \in {"claim", "item", "total", "message"}, NEW n
      PROVE  Do(op, s, n) \notin D
  <2>1. Do(op, s, n).op = op
    BY DoFacts
  <2> QED BY <2>1, StatementKinds DEF Deletes
<1> QED BY <1>1

(* An upsert of the preparation adds its row; a delete finds nothing.      *)
LEMMA PreparationContents ==
  ASSUME SeedFits, SeedTypes, NEW D \in SUBSET Preparation, Contents(D),
         NEW e \in Preparation, NEW b, e = Statement(b),
         \/ UpsertUser(b) \/ UpsertCategory(b)
         \/ DeleteAudit(b) \/ DeleteMessages(b) \/ DeleteItems(b) \/ DeleteClaims(b)
  PROVE  Contents(D \cup {e})'
<1>1. D \cup {e} \in SUBSET Preparation
  OBVIOUS
<1>2. /\ \A s \in SeedClaims : s.id \in ClaimIds
      /\ \A s \in SeedClaims : ~Exists(s.id) /\ \A i \in ItemIds : items[s.id][i] = None
  <2>1. ASSUME NEW s \in SeedClaims
        PROVE  /\ s.id \in ClaimIds /\ ~Exists(s.id)
               /\ \A i \in ItemIds : items[s.id][i] = None
    <3>1. Recorded(s, D) /\ s.id \in ClaimIds
      BY SeedAmounts DEF Contents
    <3>2. Do("claim", s, 0) \notin D /\ \A i \in ItemIds : Do("item", s, i) \notin D
      BY NothingYet
    <3> QED BY <3>1, <3>2 DEF Recorded
  <2> QED BY <2>1
<1>3. /\ claims' \in {claims, [c \in ClaimIds |-> AbsentClaim]}
      /\ items' \in {items, NoItems}
  BY DEF UpsertUser, UpsertCategory, DeleteAudit, DeleteMessages, DeleteItems, DeleteClaims, vars
<1>4. AbsentClaim.status = "ABSENT"
  BY DEF AbsentClaim, NewClaim
<1>5. \A s \in SeedClaims : /\ ~Exists(s.id)'
                            /\ \A i \in ItemIds : items'[s.id][i] = None
  BY <1>2, <1>3, <1>4 DEF Exists, NoItems
<1>6. \A s \in SeedClaims : Recorded(s, D \cup {e})'
  <2>1. ASSUME NEW s \in SeedClaims
        PROVE  Recorded(s, D \cup {e})'
    <3>1. /\ Do("claim", s, 0) \notin D \cup {e} /\ Do("total", s, 0) \notin D \cup {e}
          /\ Do("message", s, 0) \notin D \cup {e}
          /\ \A i \in ItemIds : Do("item", s, i) \notin D \cup {e}
      BY <1>1, NothingYet
    <3> QED BY <1>5, <3>1 DEF Recorded
  <2> QED BY <2>1
<1>7. \A c \in ClaimIds \ SeedIdSet :
        claims'[c] = AbsentClaim /\ \A i \in ItemIds : items'[c][i] = None
  BY <1>3 DEF Contents, NoItems
<1>8. ASSUME NEW n \in 1..8, Do("category", DraftSeed, n) \in D \cup {e}
      PROVE  limits'[CategoryNames[n]] # None
  <2>1. CASE UpsertCategory(b)
    <3>1. PICK m \in 1..8 : e = Do("category", DraftSeed, m)
      <4>1. e.op = "category"
        BY <2>1 DEF UpsertCategory, Runs, Statement
      <4> QED BY <4>1, StatementKinds
    <3>2. limits' = [limits EXCEPT ![CategoryNames[m]] = CategoryLimits[CategoryNames[m]]]
      <4>1. Statement(b).n = m
        BY <3>1, DoFacts
      <4> QED BY <2>1, <4>1 DEF UpsertCategory
    <3>3. CategoryNames[n] \in Categories /\ CategoryNames[m] \in Categories
      BY CategoryFacts
    <3>4. CategoryLimits[CategoryNames[m]] # None
      BY <3>3, CategoryFacts, NoneAssumption
    <3>5. CASE CategoryNames[n] = CategoryNames[m]
      BY <3>2, <3>3, <3>4, <3>5 DEF SeedTypes
    <3>6. CASE CategoryNames[n] # CategoryNames[m]
      <4>1. e.n = m /\ n # m
        BY <3>1, <3>6, DoFacts
      <4>2. Do("category", DraftSeed, n) \in D
        BY <1>8, <4>1, AddStatement
      <4>3. limits[CategoryNames[n]] # None
        BY <4>2 DEF Contents
      <4> QED BY <3>2, <3>3, <3>6, <4>3 DEF SeedTypes
    <3> QED BY <3>5, <3>6
  <2>2. CASE ~UpsertCategory(b)
    <3>1. limits' = limits /\ e.op # "category"
      BY <2>2, DoFacts DEF UpsertUser, DeleteAudit, DeleteMessages, DeleteItems, DeleteClaims,
           Runs, Statement
    <3>2. Do("category", DraftSeed, n) \in D
      BY <1>8, <3>1, AddStatement
    <3> QED BY <3>1, <3>2 DEF Contents
  <2> QED BY <2>1, <2>2
<1> QED BY <1>6, <1>7, <1>8 DEF Contents

(* The statements on claim t leave all other claims alone.                 *)
LEMMA OthersRecorded ==
  ASSUME SeedFits, NEW D, Contents(D), NEW t \in SeedClaims, NEW e, e.seed = t, e.op # "category",
         \A c \in ClaimIds \ {t.id} :
           claims'[c] = claims[c] /\ items'[c] = items[c] /\ thread'[c] = thread[c],
         limits' = limits, Recorded(t, D \cup {e})'
  PROVE  Contents(D \cup {e})'
<1>1. ASSUME NEW s \in SeedClaims, s # t
      PROVE  Recorded(s, D \cup {e})'
  <2>1. s.id \in ClaimIds \ {t.id}
    BY <1>1, SeedIds, SeedAmounts
  <2>2. claims'[s.id] = claims[s.id] /\ items'[s.id] = items[s.id] /\ thread'[s.id] = thread[s.id]
    BY <2>1
  <2>3. \A op, n : Do(op, s, n) \in D \cup {e} <=> Do(op, s, n) \in D
    BY <1>1, AddStatement
  <2>4. Recorded(s, D)
    BY DEF Contents
  <2> QED BY <2>2, <2>3, <2>4 DEF Recorded, SameRow, Exists
<1>2. \A c \in ClaimIds \ SeedIdSet :
        claims'[c] = AbsentClaim /\ \A i \in ItemIds : items'[c][i] = None
  BY DEF Contents, SeedIdSet
<1>3. \A n \in 1..8 : Do("category", DraftSeed, n) \in D \cup {e} => limits'[CategoryNames[n]] # None
  BY AddStatement DEF Contents
<1> QED BY <1>1, <1>2, <1>3 DEF Contents

(* The insertions of a claim's parts, one by one.                          *)
LEMMA InsertClaimContents ==
  ASSUME SeedFits, SeedTypes, NEW D, Contents(D), NEW e \in Insertions, NEW b, e = Statement(b),
         InsertClaim(b)
  PROVE  Contents(D \cup {e})'
<1>1. PICK t \in SeedClaims : e.seed = t /\ SeedOf(b) = t /\ e = Do("claim", t, 0) /\ e.op = "claim"
  <2>1. e.op = "claim"
    BY DEF InsertClaim, Runs, Statement
  <2> QED BY <2>1, StatementKinds DEF SeedOf
<1>2. t.id \in ClaimIds /\ SameRow(t.row, t) /\ t.row.total = 0
  BY SeedAmounts, SeedRowsVouched DEF SameRow, Vouched
<1>3. /\ claims' = [claims EXCEPT ![t.id] = t.row] /\ ~Exists(t.id)
      /\ UNCHANGED <<items, thread, limits>>
  BY <1>1 DEF InsertClaim
<1>4. claims'[t.id] = t.row /\ \A c \in ClaimIds \ {t.id} : claims'[c] = claims[c]
  BY <1>2, <1>3 DEF SeedTypes, TypeOK
<1>5. Recorded(t, D) /\ Vouched(t.row)
  BY SeedRowsVouched DEF Contents
<1>6. Do("claim", t, 0) \notin D
  BY <1>3, <1>5 DEF Recorded, SameRow, Vouched, Exists
<1>7. /\ Do("claim", t, 0) \in D \cup {e} /\ Do("total", t, 0) \notin D \cup {e}
      /\ \A i : Do("item", t, i) \in D \cup {e} <=> Do("item", t, i) \in D
      /\ Do("message", t, 0) \in D \cup {e} <=> Do("message", t, 0) \in D
  BY <1>1, <1>5, <1>6, AddStatement DEF Recorded
<1>8. Recorded(t, D \cup {e})'
  <2>1. SameRow(claims[t.id], t)' /\ claims'[t.id].total = 0
    BY <1>2, <1>4 DEF SameRow
  <2> QED BY <1>3, <1>5, <1>7, <2>1 DEF Recorded
<1> QED BY <1>1, <1>3, <1>4, <1>8, OthersRecorded

LEMMA InsertItemContents ==
  ASSUME SeedFits, SeedTypes, NEW D, Contents(D), NEW e \in Insertions, NEW b, e = Statement(b),
         InsertItem(b)
  PROVE  Contents(D \cup {e})'
<1>1. PICK t, n : /\ t \in SeedClaims /\ n \in DOMAIN t.items /\ e.seed = t /\ SeedOf(b) = t
                  /\ e = Do("item", t, n) /\ e.op = "item" /\ Statement(b).n = n
  <2>1. e.op = "item"
    BY DEF InsertItem, Runs, Statement
  <2> QED BY <2>1, StatementKinds DEF SeedOf
<1>2. t.id \in ClaimIds /\ n \in ItemIds
  BY <1>1, SeedAmounts
<1>3. /\ items' = [items EXCEPT ![t.id] = [items[t.id] EXCEPT ![n] = t.items[n].amount]]
      /\ UNCHANGED <<claims, thread, limits>>
  BY <1>1 DEF InsertItem
<1>4. /\ \A c \in ClaimIds \ {t.id} : items'[c] = items[c]
      /\ \A i \in ItemIds : items'[t.id][i] = IF i = n THEN t.items[n].amount ELSE items[t.id][i]
  BY <1>2, <1>3 DEF SeedTypes, TypeOK
<1>5. Recorded(t, D)
  BY <1>1 DEF Contents
<1>6. /\ \A op : op # "item" => (Do(op, t, 0) \in D \cup {e} <=> Do(op, t, 0) \in D)
      /\ \A i : i # n => (Do("item", t, i) \in D \cup {e} <=> Do("item", t, i) \in D)
      /\ Do("item", t, n) \in D \cup {e}
  BY <1>1, DoFacts, AddStatement
<1>7. Recorded(t, D \cup {e})'
  <2>1. \A i \in ItemIds :
          items'[t.id][i] = IF Do("item", t, i) \in D \cup {e} THEN t.items[i].amount ELSE None
    BY <1>4, <1>5, <1>6 DEF Recorded
  <2> QED BY <1>3, <1>5, <1>6, <2>1 DEF Recorded, SameRow, Exists
<1> QED BY <1>1, <1>3, <1>4, <1>7, OthersRecorded

LEMMA UpdateTotalContents ==
  ASSUME SeedFits, SeedTypes, NEW D, Contents(D), NEW e \in Insertions, NEW b, e = Statement(b),
         UpdateTotal(b)
  PROVE  Contents(D \cup {e})'
<1>1. PICK t \in SeedClaims : /\ e.seed = t /\ SeedOf(b) = t /\ e = Do("total", t, 0)
                              /\ e.op = "total" /\ t.items # <<>>
  <2>1. e.op = "total"
    BY DEF UpdateTotal, Runs, Statement
  <2> QED BY <2>1, StatementKinds DEF SeedOf
<1>2. t.id \in ClaimIds
  BY SeedAmounts
<1>3. /\ claims' = [claims EXCEPT ![t.id] = [claims[t.id] EXCEPT !.total = SeedTotal(t)]]
      /\ Exists(t.id) /\ UNCHANGED <<items, thread, limits>>
  BY <1>1 DEF UpdateTotal
<1>4. \A c \in ClaimIds \ {t.id} : claims'[c] = claims[c]
  BY <1>2, <1>3 DEF SeedTypes, TypeOK
<1>5. claims'[t.id] = [claims[t.id] EXCEPT !.total = SeedTotal(t)] /\ claims[t.id] \in ClaimRows
  BY <1>2, <1>3 DEF SeedTypes, TypeOK
<1>6. Recorded(t, D)
  BY <1>1 DEF Contents
<1>7. SameRow(claims[t.id], t)
  BY <1>3, <1>6 DEF Recorded
<1>8. SameRow(claims'[t.id], t) /\ claims'[t.id].total = SeedTotal(t)
  BY <1>5, <1>7 DEF SameRow, ClaimRows
<1>9. /\ Do("claim", t, 0) \in D \cup {e}
      /\ \A i : Do("item", t, i) \in D \cup {e} <=> Do("item", t, i) \in D
      /\ Do("message", t, 0) \in D \cup {e} <=> Do("message", t, 0) \in D
  BY <1>1, <1>3, <1>6, AddStatement DEF Recorded
<1>10. Recorded(t, D \cup {e})'
  BY <1>1, <1>3, <1>6, <1>8, <1>9 DEF Recorded
<1> QED BY <1>1, <1>3, <1>4, <1>10, OthersRecorded

LEMMA InsertMessageContents ==
  ASSUME SeedFits, SeedTypes, NEW D, Contents(D), NEW e \in Insertions, NEW b, e = Statement(b),
         InsertMessage(b)
  PROVE  Contents(D \cup {e})'
<1>1. PICK t \in SeedClaims : e.seed = t /\ SeedOf(b) = t /\ e.op = "message"
  <2>1. e.op = "message"
    BY DEF InsertMessage, Runs, Statement
  <2> QED BY <2>1, StatementKinds DEF SeedOf
<1>2. t.id \in ClaimIds
  BY SeedAmounts
<1>3. /\ thread' = [thread EXCEPT ![t.id].info = "INFO_REQUEST"]
      /\ UNCHANGED <<claims, items, limits>>
  BY <1>1 DEF InsertMessage
<1>4. /\ \A c \in ClaimIds \ {t.id} : thread'[c] = thread[c]
      /\ thread'[t.id].info = "INFO_REQUEST"
  BY <1>2, <1>3 DEF SeedTypes, TypeOK, Threads
<1>5. Recorded(t, D)
  BY <1>1 DEF Contents
<1>6. \A op, n : op # "message" => (Do(op, t, n) \in D \cup {e} <=> Do(op, t, n) \in D)
  BY <1>1, AddStatement
<1>7. Recorded(t, D \cup {e})'
  BY <1>3, <1>4, <1>5, <1>6 DEF Recorded, SameRow, Exists
<1> QED BY <1>1, <1>3, <1>4, <1>7, OthersRecorded

LEMMA InsertAuditContents ==
  ASSUME SeedFits, SeedTypes, NEW D, Contents(D), NEW e \in Insertions, NEW b, e = Statement(b),
         InsertAudit(b)
  PROVE  Contents(D \cup {e})'
<1>1. PICK t \in SeedClaims : e.seed = t /\ e.op = "audit"
  <2>1. e.op = "audit"
    BY DEF InsertAudit, Runs, Statement
  <2> QED BY <2>1, StatementKinds
<1>2. UNCHANGED <<claims, items, thread, limits>>
  BY DEF InsertAudit
<1>3. Recorded(t, D)
  BY <1>1 DEF Contents
<1>4. \A op, n : op # "audit" => (Do(op, t, n) \in D \cup {e} <=> Do(op, t, n) \in D)
  BY <1>1, AddStatement
<1>5. Recorded(t, D \cup {e})'
  BY <1>2, <1>3, <1>4 DEF Recorded, SameRow, Exists
<1> QED BY <1>1, <1>2, <1>5, OthersRecorded

(* Any statement but the last one adds itself to the contents.             *)
LEMMA StatementContents ==
  ASSUME SeedFits, RowsInv, SeedTypes, NEW b \in Boots, SeedStep(b),
         NEW n, n = boot[b].next, n # Len(Program), Contents(Executed(n))
  PROVE  Contents(Executed(n + 1))'
<1>1. n \in 1..Len(Program)
  BY DEF RowsInv
<1>2. PICK e : e = Program[n]
  OBVIOUS
<1>3. /\ e = Statement(b) /\ Executed(n + 1) = Executed(n) \cup {e}
      /\ e \in Preparation => Executed(n) \subseteq Preparation
  BY <1>1, <1>2, ExecutedFacts DEF Statement
<1>4. CASE \/ UpsertUser(b) \/ UpsertCategory(b)
           \/ DeleteAudit(b) \/ DeleteMessages(b) \/ DeleteItems(b) \/ DeleteClaims(b)
  <2>1. PICK op \in {"user", "category"} \cup Deletes : Runs(b, op)
    BY <1>4 DEF UpsertUser, UpsertCategory, DeleteAudit, DeleteMessages, DeleteItems, DeleteClaims,
         Deletes
  <2>2. e \in Preparation /\ Executed(n) \in SUBSET Preparation
    BY <1>3, <2>1, RunFacts
  <2> QED BY <1>3, <1>4, <2>2, PreparationContents
<1>5. CASE \/ InsertClaim(b) \/ InsertItem(b) \/ UpdateTotal(b) \/ InsertMessage(b)
           \/ InsertAudit(b)
  <2>1. PICK op \in {"claim", "item", "total", "message", "audit"} : Runs(b, op)
    BY <1>5 DEF InsertClaim, InsertItem, UpdateTotal, InsertMessage, InsertAudit
  <2>2. e \in Insertions
    BY <1>3, <2>1, RunFacts
  <2>3. Contents(Executed(n) \cup {e})'
    BY <1>3, <1>5, <2>2, InsertClaimContents, InsertItemContents, UpdateTotalContents,
       InsertMessageContents, InsertAuditContents
  <2> QED BY <1>3, <2>3
<1>6. ~RecordLimits(b)
  BY RunFacts DEF RecordLimits
<1> QED BY <1>4, <1>5, <1>6 DEF SeedStep
-----------------------------------------------------------------------------
(* The database after the whole of it.                                     *)

LEMMA SeededClaim ==
  ASSUME SeedFits, SeedTypes, Contents(Preparation \cup Insertions), NEW s \in SeedClaims
  PROVE  /\ SameRow(claims[s.id], s)
         /\ ItemsOf(items[s.id]) = DOMAIN s.items
         /\ claims[s.id].total = SumAmounts(items[s.id])
         /\ s = InfoSeed => thread[s.id].info = "INFO_REQUEST"
<1>1. PICK D : D = Preparation \cup Insertions
  OBVIOUS
<1>2. PartsOf(s) \subseteq D
  BY <1>1 DEF Insertions
<1>3. ASSUME NEW i, i \notin DOMAIN s.items
      PROVE  Do("item", s, i) \notin D
  <2>1. Do("item", s, i).op = "item" /\ Do("item", s, i).seed = s /\ Do("item", s, i).n = i
    BY DoFacts
  <2> QED BY <1>1, <1>3, <2>1, StatementKinds DEF Deletes
<1>4. /\ Do("claim", s, 0) \in D
      /\ s.items # <<>> => Do("total", s, 0) \in D
      /\ s = InfoSeed => Do("message", s, 0) \in D
      /\ \A i \in DOMAIN s.items : Do("item", s, i) \in D
  <2>1. s = InfoSeed => s.asks
    BY SeedItems
  <2> QED BY <1>2, <2>1 DEF PartsOf
<1>5. Recorded(s, D)
  BY <1>1 DEF Contents
<1>6. PICK its : its = items[s.id]
  OBVIOUS
<1>7. \A i \in ItemIds : its[i] = IF i \in DOMAIN s.items THEN s.items[i].amount ELSE None
  BY <1>3, <1>4, <1>5, <1>6 DEF Recorded
<1>8. ItemsOf(its) = DOMAIN s.items /\ \A i \in DOMAIN s.items : its[i] = s.items[i].amount
  <2>1. \A i \in DOMAIN s.items : i \in ItemIds /\ s.items[i].amount # None
    BY SeedAmounts, SeedItems, NoneAssumption
  <2> QED BY <1>7, <2>1 DEF ItemsOf
<1>9. claims[s.id].total = SumAmounts(its)
  <2>1. CASE s.items = <<>>
    <3>1. ItemsOf(its) = {}
      BY <1>8, <2>1, SeedItems
    <3>2. claims[s.id].total = 0
      BY <1>4, <1>5, <2>1 DEF Recorded
    <3> QED BY <3>1, <3>2, SumOfNothing
  <2>2. CASE s.items # <<>>
    <3>1. claims[s.id].total = SeedTotal(s)
      BY <1>4, <1>5, <2>2 DEF Recorded
    <3>2. SumAmounts(its) = SeedTotal(s)
      BY <1>8, <2>2, SeedTotals
    <3> QED BY <3>1, <3>2
  <2> QED BY <2>1, <2>2
<1>10. SameRow(claims[s.id], s) /\ (s = InfoSeed => thread[s.id].info = "INFO_REQUEST")
  BY <1>4, <1>5 DEF Recorded
<1> QED BY <1>6, <1>8, <1>9, <1>10

(* Rows like those of the seed fit whatever total their items have.        *)
LEMMA SeededRow ==
  ASSUME SeedFits, NEW s \in SeedClaims, NEW r, SameRow(r, s)
  PROVE  /\ RowInv(r) /\ SignerInv(r) /\ r.status # "ABSENT"
         /\ IsInReview(r.status) \/ r.status = "APPROVED" => s.items # <<>>
         /\ r.status = "INFO_REQUESTED" => s = InfoSeed
<1>1. SeedUsersExist
  BY DEF SeedFits
<1>2. Vouched(s.row) /\ Whole(s.row)
  BY <1>1, SeedRowsVouched, SeedRowsWhole
<1>3. ~IsAtFinanceStage(r)
  BY <1>2 DEF SameRow, Vouched, Whole, IsAtFinanceStage
<1>4. RowInv(r)
  <2>1. /\ r.status # "ABSENT" => r.claimant \in Users /\ Role[r.claimant] = "CLAIMANT"
        /\ r.assignedApprover # None => r.assignedApprover \in Approvers
        /\ r.approverApprovedBy = None
        /\ IsInReview(r.status) \/ r.status = "APPROVED" => r.assignedApprover # None
        /\ r.status = "APPROVED" => r.decidedBy \in Users /\ Role[r.decidedBy] = "FINANCE"
    BY <1>2 DEF SameRow, Vouched, Whole
  <2>2. /\ r.decidedBy # None <=> r.status \in {"APPROVED", "REJECTED"}
        /\ r.rejectedBy # None <=> r.status = "REJECTED"
        /\ r.status \in {"PENDING_APPROVAL", "PENDING_FINANCE_APPROVAL"} => r.clock = Reviewer(r)
    BY <1>2, <1>3 DEF SameRow, Vouched, Whole, Reviewer, IsAtFinanceStage
  <2> QED BY <1>3, <2>1, <2>2 DEF RowInv
<1>5. SignerInv(r) /\ r.status # "ABSENT"
  BY <1>2 DEF SameRow, Vouched, Whole, SignerInv
<1>6. /\ IsInReview(r.status) \/ r.status = "APPROVED" => s.items # <<>>
      /\ r.status = "INFO_REQUESTED" => s = InfoSeed
  BY SeedRowsVouched, SeedItems DEF SameRow
<1> QED BY <1>4, <1>5, <1>6

(* A claim nobody made breaks nothing.                                     *)
LEMMA AbsentRow == RowInv(AbsentClaim) /\ SignerInv(AbsentClaim) /\ AbsentClaim.total = 0
                   /\ AbsentClaim.status = "ABSENT"
<1>1. PICK r \in [status : {"ABSENT"}, claimant : {None}, assignedApprover : {None},
                  decidedBy : {None}, approverApprovedBy : {None}, rejectedBy : {None},
                  submissionCycle : {1}, total : {0}, clock : {None}] : r = AbsentClaim
  BY DEF AbsentClaim, NewClaim
<1>2. RowInv(r)
  BY <1>1 DEF RowInv, IsInReview, IsAtFinanceStage
<1>3. SignerInv(r)
  BY <1>1, NoneIsNoApprover DEF SignerInv
<1> QED BY <1>1, <1>2, <1>3

(* A database with everything the seed inserts is legal.                   *)
LEMMA CompleteContents ==
  ASSUME SeedFits, SeedTypes, Contents(Preparation \cup Insertions)
  PROVE  /\ LegalDatabase
         /\ \A c \in ClaimIds : \A i \in ItemsOf(items[c]) : limits[CategoryOf(c, i)] # None
<1>1. ASSUME NEW c \in ClaimIds
      PROVE  ClaimInv(c) /\ SignerInv(claims[c])
  <2>1. CASE c \in SeedIdSet
    <3>1. PICK s \in SeedClaims : c = s.id
      BY <2>1 DEF SeedIdSet
    <3>2. /\ SameRow(claims[c], s) /\ ItemsOf(items[c]) = DOMAIN s.items
          /\ claims[c].total = SumAmounts(items[c])
          /\ s = InfoSeed => thread[c].info = "INFO_REQUEST"
      BY <3>1, SeededClaim
    <3>3. /\ RowInv(claims[c]) /\ SignerInv(claims[c]) /\ claims[c].status # "ABSENT"
          /\ IsInReview(claims[c].status) \/ claims[c].status = "APPROVED" => s.items # <<>>
          /\ claims[c].status = "INFO_REQUESTED" => s = InfoSeed
      BY <3>2, SeededRow
    <3>4. s.items # <<>> => DOMAIN s.items # {}
      BY SeedItems
    <3> QED BY <3>2, <3>3, <3>4 DEF ClaimInv, SubjectInv, QuestionInv
  <2>2. CASE c \notin SeedIdSet
    <3>1. claims[c] = AbsentClaim /\ ItemsOf(items[c]) = {}
      BY <2>2 DEF Contents, ItemsOf
    <3>2. SumAmounts(items[c]) = 0
      BY <3>1, SumOfNothing
    <3> QED BY <3>1, <3>2, AbsentRow DEF ClaimInv, SubjectInv, QuestionInv, IsInReview
  <2> QED BY <2>1, <2>2
<1>2. LegalDatabase
  BY <1>1 DEF LegalDatabase, IInv, SignersInv, SeedTypes
<1>3. ASSUME NEW c \in ClaimIds, NEW i \in ItemsOf(items[c])
      PROVE  limits[CategoryOf(c, i)] # None
  <2>1. c \in SeedIdSet
    BY <1>3 DEF Contents, ItemsOf
  <2>2. PICK s \in SeedClaims : s.id = c
    BY <2>1 DEF SeedIdSet
  <2>3. i \in DOMAIN s.items
    BY <2>2, SeededClaim
  <2>4. (CHOOSE t \in SeedClaims : t.id = c) = s
    <3>1. \A t \in SeedClaims : t.id = c => t = s
      BY <2>2, SeedIds
    <3> QED BY <2>2, <3>1
  <2>5. CategoryOf(c, i) = s.items[i].category
    BY <2>4, Zenon DEF CategoryOf
  <2>6. PICK n \in 1..8 : CategoryNames[n] = CategoryOf(c, i)
    BY <2>3, <2>5, SeedItems, CategoryFacts
  <2>7. Do("category", DraftSeed, n) \in Preparation
    BY DEF Preparation
  <2> QED BY <2>6, <2>7 DEF Contents
<1> QED BY <1>2, <1>3

(* Every item carries the limit its category had.                          *)
LimitsRecorded == \A c \in ClaimIds : \A i \in ItemsOf(items[c]) : itemLimit[c][i] # None

(* A seed nothing disturbs finds what it has executed and no more; between *)
(* seeds the database is empty or legal.                                   *)
BuiltInv ==
  ~interrupted /\ ~overlapped =>
    /\ users = {} => Contents({})
    /\ \A b \in Boots : Phase(b) = "seeding" => Contents(Executed(boot[b].next))
    /\ users # {} /\ (\A b \in Boots : Phase(b) # "seeding") => LegalDatabase /\ LimitsRecorded

SeededInv == SeedInv /\ RowsInv /\ SeedTypes /\ BuiltInv

(* Before the first statement nothing is executed.                         *)
LEMMA ExecutedNothing == Executed(1) = {}
BY DEF Executed

(* Before any container runs there is nothing.                             *)
LEMMA BuiltInit == SeedFits /\ SeedInit => BuiltInv
<1> SUFFICES ASSUME SeedFits, SeedInit
             PROVE  BuiltInv
  OBVIOUS
<1>1. \A b \in Boots : Phase(b) = "down"
  BY DEF SeedInit, Phase
<1>2. /\ claims = [c \in ClaimIds |-> AbsentClaim] /\ users = {}
      /\ \A c \in ClaimIds, i \in ItemIds : items[c][i] = None
  BY DEF SeedInit, NoItems
<1>3. \A s \in SeedClaims : Recorded(s, {})
  BY <1>2, SeedAmounts, AbsentRow DEF Recorded, Exists
<1>4. Contents({})
  BY <1>2, <1>3 DEF Contents
<1> QED BY <1>1, <1>2, <1>4 DEF BuiltInv

(* Steps that leave the tables alone.                                      *)
LEMMA TablesKept ==
  ASSUME UNCHANGED <<claims, items, thread, audit, active, limits, itemLimit>>
  PROVE  /\ \A D : Contents(D) => Contents(D)'
         /\ LegalDatabase /\ LimitsRecorded => LegalDatabase' /\ LimitsRecorded'
<1>1. ASSUME NEW D, Contents(D)
      PROVE  Contents(D)'
  BY <1>1 DEF Contents, Recorded, SameRow, Exists
<1>2. LimitsRecorded => LimitsRecorded'
  BY DEF LimitsRecorded
<1>3. LegalDatabase => LegalDatabase'
  BY DEF LegalDatabase, IInv, TypeOK, ClaimInv, SignersInv
<1> QED BY <1>1, <1>2, <1>3

(* Starting, counting users and stopping write nothing.                    *)
LEMMA PhasesKeepBuilt ==
  ASSUME SeededInv, NEW b \in Boots, Start(b) \/ CountUsers(b) \/ Stop(b)
  PROVE  BuiltInv'
<1>1. /\ boot' \in [Boots -> [phase : Phases, next : Nat]]
      /\ \A o \in Boots \ {b} : boot'[o] = boot[o] /\ Phase(o)' = Phase(o)
      /\ users' = users
  BY PhaseFacts DEF SeededInv, Phase
<1>2. /\ \A D : Contents(D) => Contents(D)'
      /\ LegalDatabase /\ LimitsRecorded => LegalDatabase' /\ LimitsRecorded'
  <2>1. UNCHANGED <<claims, items, thread, audit, active, limits, itemLimit>>
    BY DEF Start, CountUsers, Stop, vars
  <2> QED BY <2>1, TablesKept
<1>3. ~interrupted' /\ ~overlapped' => ~interrupted /\ ~overlapped
  BY DEF Start, CountUsers, Stop
<1> SUFFICES ASSUME ~interrupted', ~overlapped', ~interrupted, ~overlapped
             PROVE  /\ users' = {} => Contents({})'
                    /\ \A o \in Boots : Phase(o)' = "seeding" => Contents(Executed(boot[o].next))'
                    /\ users' # {} /\ (\A o \in Boots : Phase(o)' # "seeding") =>
                         LegalDatabase' /\ LimitsRecorded'
  BY <1>3 DEF BuiltInv
<1>4. boot[b] \in [phase : Phases, next : Nat] /\ boot \in [Boots -> [phase : Phases, next : Nat]]
  BY DEF SeededInv, SeedInv
<1>5. users' = {} => Contents({})'
  BY <1>1, <1>2 DEF SeededInv, BuiltInv
<1>6. ASSUME NEW o \in Boots, o # b, Phase(o)' = "seeding"
      PROVE  Contents(Executed(boot[o].next))'
  <2>1. Phase(o) = "seeding" /\ boot'[o] = boot[o]
    BY <1>1, <1>6
  <2>2. PICK D : D = Executed(boot[o].next)
    OBVIOUS
  <2>3. Contents(D)
    BY <2>1, <2>2 DEF SeededInv, BuiltInv
  <2>4. Executed(boot[o].next)' = D
    BY <2>1, <2>2 DEF Executed
  <2> QED BY <1>2, <2>3, <2>4
<1>7. CASE Start(b)
  <2>1. Phase(b)' = "starting" /\ Phase(b) = "down"
    BY <1>4, <1>7 DEF Start, Phase
  <2> QED BY <1>1, <1>2, <1>5, <1>6, <2>1 DEF SeededInv, BuiltInv
<1>8. CASE CountUsers(b)
  <2>1. /\ Phase(b) = "starting" /\ boot'[b].next = boot[b].next
        /\ Phase(b)' = (IF users = {} THEN "seeding" ELSE "serving")
    BY <1>4, <1>8 DEF CountUsers, NeedsSeed, Phase
  <2>2. boot[b].next = 1
    BY <2>1 DEF SeededInv, SeedInv
  <2>3. Executed(boot[b].next)' = {}
    BY <2>1, <2>2, ExecutedNothing DEF Executed
  <2>4. Phase(b)' = "seeding" => Contents(Executed(boot[b].next))'
    BY <1>1, <1>5, <2>1, <2>3
  <2>5. \A o \in Boots : Phase(o)' = "seeding" => Contents(Executed(boot[o].next))'
    BY <1>6, <2>4
  <2>6. (\A o \in Boots : Phase(o)' # "seeding") => \A o \in Boots : Phase(o) # "seeding"
    BY <1>1, <2>1
  <2> QED BY <1>1, <1>2, <1>5, <2>5, <2>6 DEF SeededInv, BuiltInv
<1>9. CASE Stop(b)
  <2>1. Phase(b)' = "down" /\ Phase(b) # "seeding"
    BY <1>4, <1>9 DEF Stop, Phase
  <2> QED BY <1>1, <1>2, <1>5, <1>6, <2>1 DEF SeededInv, BuiltInv
<1> QED BY <1>7, <1>8, <1>9

(* A statement of an undisturbed seed finds what was executed, and adds    *)
(* what it writes; the last one leaves a legal database.                   *)
LEMMA SeedStepKeepsBuilt ==
  ASSUME SeedFits, SeededInv, SeedTypes', NEW b \in Boots, SeedStep(b)
  PROVE  BuiltInv'
<1>1. /\ Phase(b) = "seeding" /\ UNCHANGED overlapped
      /\ \A o \in Boots \ {b} : boot'[o] = boot[o] /\ Phase(o)' = Phase(o)
      /\ users' # {}
  BY SeedStepFacts DEF SeededInv, Phase
<1>2. PICK op \in Ops : Runs(b, op)
  BY DEF SeedStep, UpsertUser, UpsertCategory, DeleteAudit, DeleteMessages, DeleteItems,
         DeleteClaims, InsertClaim, InsertItem, UpdateTotal, InsertMessage, InsertAudit,
         RecordLimits, Ops
<1>3. interrupted' = interrupted
  BY <1>2 DEF Runs
<1> SUFFICES ASSUME ~interrupted, ~overlapped
             PROVE  /\ \A o \in Boots : Phase(o)' = "seeding" => Contents(Executed(boot[o].next))'
                    /\ (\A o \in Boots : Phase(o)' # "seeding") => LegalDatabase' /\ LimitsRecorded'
  BY <1>1, <1>3 DEF BuiltInv
<1>4. \A o \in Boots \ {b} : Phase(o)' # "seeding"
  BY <1>1 DEF SeededInv, SeedInv
<1>5. PICK n : n = boot[b].next
  OBVIOUS
<1>6. Contents(Executed(n))
  BY <1>1, <1>5 DEF SeededInv, BuiltInv
<1>7. boot[b] \in [phase : Phases, next : Nat] /\ boot \in [Boots -> [phase : Phases, next : Nat]]
  BY DEF SeededInv, SeedInv
<1>8. boot' = [boot EXCEPT ![b] = IF boot[b].next = Len(Program)
                                  THEN [boot[b] EXCEPT !.phase = "serving"]
                                  ELSE [boot[b] EXCEPT !.next = boot[b].next + 1]]
  BY <1>2 DEF Runs
<1>9. CASE n # Len(Program)
  <2>1. Phase(b)' = "seeding" /\ boot'[b].next = n + 1
    BY <1>1, <1>5, <1>7, <1>8, <1>9 DEF Phase
  <2>2. Contents(Executed(n + 1))'
    BY <1>5, <1>6, <1>9, StatementContents DEF SeededInv
  <2>3. Executed(boot[b].next)' = Executed(n + 1)
    BY <2>1 DEF Executed
  <2>4. Contents(Executed(boot[b].next))'
    BY <2>2, <2>3
  <2> QED BY <1>4, <2>1, <2>4
<1>10. CASE n = Len(Program)
  <2>1. Phase(b)' = "serving"
    BY <1>5, <1>7, <1>8, <1>10 DEF Phase
  <2>2. op = "limits" /\ n \in 1..Len(Program)
    BY <1>2, <1>5, <1>10, RunFacts DEF SeededInv
  <2>3. RecordLimits(b)
    BY <1>2, <2>2 DEF Runs, SeedStep, UpsertUser, UpsertCategory, DeleteAudit, DeleteMessages,
         DeleteItems, DeleteClaims, InsertClaim, InsertItem, UpdateTotal, InsertMessage, InsertAudit
  <2>4. Contents(Preparation \cup Insertions)
    BY <1>6, <1>10, <2>2, ExecutedFacts
  <2>5. /\ LegalDatabase
        /\ \A c \in ClaimIds : \A i \in ItemsOf(items[c]) : limits[CategoryOf(c, i)] # None
    BY <2>4, CompleteContents DEF SeededInv
  <2>6. UNCHANGED <<claims, items, thread, audit, active>>
    BY <2>3 DEF RecordLimits, vars
  <2>7. LegalDatabase'
    BY <2>5, <2>6 DEF LegalDatabase, IInv, TypeOK, ClaimInv, SignersInv
  <2>8. LimitsRecorded'
    BY <2>3, <2>5, <2>6 DEF RecordLimits, LimitsRecorded, ItemsOf
  <2> QED BY <1>4, <2>1, <2>7, <2>8
<1> QED BY <1>9, <1>10

(* Users keep a legal database legal: the theorems about ClaimLifecycle.   *)
LEMMA UseKeepsBuilt ==
  ASSUME SeededInv, \/ \E u \in users, c \in NewIds : FileClaim(u, c)
                    \/ \E k \in Edits : EditLimit(k)
  PROVE  BuiltInv'
<1>1. UNCHANGED <<users, boot, interrupted, overlapped>> /\ Serving
  BY DEF FileClaim, EditLimit
<1> SUFFICES ASSUME ~interrupted, ~overlapped
             PROVE  BuiltInv'
  BY <1>1 DEF BuiltInv
<1>2. users # {} /\ \A b \in Boots : Phase(b) # "seeding"
  BY <1>1 DEF SeededInv, SeedInv
<1>3. LegalDatabase /\ LimitsRecorded
  BY <1>2 DEF SeededInv, BuiltInv
<1>4. LegalDatabase' /\ LimitsRecorded'
  <2>1. ASSUME NEW u \in users, NEW c \in NewIds, FileClaim(u, c)
        PROVE  LegalDatabase' /\ LimitsRecorded'
    <3>1. u \in Users /\ c \in ClaimIds /\ CreateClaim(u, c)
      BY <2>1, IdsAssumption DEF FileClaim, SeededInv, SeedTypes
    <3>2. [Next]_vars
      BY <3>1 DEF Next, ClaimantStep
    <3>3. LegalDatabase'
      BY <1>3, <3>2, NextInv, NextSigners DEF LegalDatabase
    <3>4. UNCHANGED <<items, itemLimit>>
      BY <2>1 DEF FileClaim, CreateClaim
    <3> QED BY <1>3, <3>3, <3>4 DEF LimitsRecorded
  <2>2. ASSUME NEW k \in Edits, EditLimit(k)
        PROVE  LegalDatabase' /\ LimitsRecorded'
    <3>1. UNCHANGED <<claims, items, thread, audit, active>>
      BY <2>2 DEF EditLimit, vars
    <3>2. LegalDatabase'
      BY <1>3, <3>1 DEF LegalDatabase, IInv, TypeOK, ClaimInv, SignersInv
    <3>3. EditedLimit(k) # None
      <4>1. CategoryLimits[k] \in Int
        BY EditsAssumption, CategoryFacts
      <4> QED BY <4>1, NoneAssumption DEF EditedLimit
    <3>4. ASSUME NEW c \in ClaimIds, NEW i \in ItemsOf(items[c])
          PROVE  itemLimit'[c][i] # None
      <4>1. i \in ItemIds /\ itemLimit[c][i] # None
        BY <1>3 DEF LimitsRecorded, ItemsOf
      <4>2. itemLimit'[c][i] \in {EditedLimit(k), itemLimit[c][i]}
        BY <2>2, <4>1 DEF EditLimit
      <4> QED BY <3>3, <4>1, <4>2
    <3> QED BY <3>1, <3>2, <3>4 DEF LimitsRecorded
  <2> QED BY <2>1, <2>2
<1>5. users' # {} /\ \A b \in Boots : Phase(b)' # "seeding"
  BY <1>1, <1>2 DEF Phase
<1> QED BY <1>4, <1>5 DEF BuiltInv

(* The invariant is inductive.                                             *)
LEMMA SeededNext == SeedFits /\ SeededInv /\ [SeedNext]_<<vars, seedVars>> => SeededInv'
<1> SUFFICES ASSUME SeedFits, SeededInv, [SeedNext]_<<vars, seedVars>>
             PROVE  SeededInv'
  OBVIOUS
<1>1. SeedInv' /\ RowsInv' /\ SeedTypes'
  BY SeedNextInv, RowsNextInv, SeedTypesNext DEF SeededInv, SeedFits
<1>2. ASSUME NEW b \in Boots, Start(b) \/ CountUsers(b) \/ Stop(b)
      PROVE  BuiltInv'
  BY <1>2, PhasesKeepBuilt
<1>3. ASSUME NEW b \in Boots, SeedStep(b)
      PROVE  BuiltInv'
  BY <1>1, <1>3, SeedStepKeepsBuilt
<1>4. ASSUME UNCHANGED <<vars, seedVars>>
      PROVE  BuiltInv'
  <2>1. /\ UNCHANGED <<claims, items, thread, audit, active, limits, itemLimit>>
        /\ UNCHANGED <<users, boot, interrupted, overlapped>>
    BY <1>4 DEF vars, seedVars
  <2>2. /\ \A D : Contents(D) => Contents(D)'
        /\ LegalDatabase /\ LimitsRecorded => LegalDatabase' /\ LimitsRecorded'
    BY <2>1, TablesKept
  <2>3. \A b \in Boots : Phase(b)' = Phase(b)
    BY <2>1 DEF Phase
  <2>4. ASSUME ~interrupted, ~overlapped, NEW b \in Boots, Phase(b)' = "seeding"
        PROVE  Contents(Executed(boot[b].next))'
    <3>1. PICK D : D = Executed(boot[b].next)
      OBVIOUS
    <3>2. Contents(D)
      BY <2>3, <2>4, <3>1 DEF SeededInv, BuiltInv
    <3>3. Executed(boot[b].next)' = D
      BY <2>1, <3>1 DEF Executed
    <3> QED BY <2>2, <3>2, <3>3
  <2> QED BY <2>1, <2>2, <2>3, <2>4 DEF SeededInv, BuiltInv
<1>5. ASSUME \/ \E u \in users, c \in NewIds : FileClaim(u, c)
             \/ \E k \in Edits : EditLimit(k)
      PROVE  BuiltInv'
  BY <1>5, UseKeepsBuilt
<1>6. BuiltInv'
  BY <1>2, <1>3, <1>4, <1>5 DEF SeedNext
<1> QED BY <1>1, <1>6 DEF SeededInv

\* The seed of a container that is neither interrupted nor overlapped leaves a database
\* with every invariant of the services, and a limit for each item; and the database
\* stays so while users file claims and Finance edits limits.
THEOREM SeedServesLegal ==
  ASSUME SeedFits
  PROVE  SeedSpec => []SeedIsLegal
<1>1. SeededInv => (Serving /\ ~interrupted /\ ~overlapped => LegalDatabase /\ LimitsRecorded)
  BY DEF SeededInv, SeedInv, BuiltInv
<1>2. SeedInit => SeededInv
  BY SeedInitInv, RowsInitInv, SeedTypesInit, BuiltInit DEF SeededInv
<1>3. SeededInv /\ [SeedNext]_<<vars, seedVars>> => SeededInv'
  BY SeededNext
<1>4. SeedSpec => [](DecisionIsOfThisRound /\ ClockRunsForHolder /\ OwnDecisionsStayInScope)
  BY SeedLeavesWholeRows DEF SeedFits
<1>5. SeededInv /\ (DecisionIsOfThisRound /\ ClockRunsForHolder /\ OwnDecisionsStayInScope)
        => SeedIsLegal
  <2>1. SUFFICES ASSUME SeededInv, DecisionIsOfThisRound, ClockRunsForHolder,
                        OwnDecisionsStayInScope, Serving
                 PROVE  ~interrupted /\ ~overlapped => LegalDatabase /\ LimitsRecorded
    BY Zenon DEF SeedIsLegal, LimitsRecorded
  <2> QED BY <1>1, <2>1
<1> QED BY <1>2, <1>3, <1>4, <1>5, PTL DEF SeedSpec
=============================================================================
