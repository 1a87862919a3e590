-------------------------- MODULE ApproverAssignment --------------------------
(***************************************************************************)
(* backend/src/services/approverAssignmentService.ts: whose turn it is.    *)
(* ClaimLifecycle leaves open which of several equally loaded approvers a  *)
(* submission goes to; here it is the one the code ranks first, over the   *)
(* claims of all approvers.  Claims go through the stages of               *)
(* ApprovalWorkflow; accepted and withdrawn ones are both closed here.     *)
(*                                                                         *)
(* pickLeastLoadedApprover() counts and ranks under an advisory lock that  *)
(* is held until its claim is committed (ClaimTransactions has the         *)
(* statements); everything else that changes a load commits in between.    *)
(***************************************************************************)
EXTENDS Naturals, FiniteSets, Functions

CONSTANTS
  Approvers,  \* ids of the approvers, numbered in the order of createdAt, id
  Claims,
  Leavers,    \* the approvers that may be inactive
  None,       \* SQL NULL
  MaxChanges, \* bound of the model: changes of loads other than by dealing
  MaxTime     \* bound of the model: the clock stops there

ASSUME ApproversAssumption == Approvers \subseteq Nat /\ None \notin Approvers
ASSUME LeaversAssumption   == Leavers \subseteq Approvers
ASSUME ClaimsAssumption    == IsFiniteSet(Claims)

VARIABLES
  active,     \* approvers with isActive
  claim,      \* table Claim
  deal,       \* the submission that holds the advisory lock, and its result
  now,        \* the clock submittedAt is taken from; two readings may agree
  \* History.
  assigned,   \* when each approver was last given a claim, in whatever way
  shuffled,   \* approvers with a claim moved to or from them since they last submitted to
  came, gone, \* claims that entered or left an approver's load without being dealt
  away        \* approvers who have been inactive

vars == <<active, claim, deal, now, assigned, shuffled, came, gone, away>>
History == <<assigned, shuffled, came, gone>>

Stages == {"open", "approver", "finance", "returned", "closed"}

-----------------------------------------------------------------------------
(* The ranking.                                                            *)

\* openCounts: PENDING_APPROVAL or INFO_REQUESTED, without a sign-off.
OpenOf(a) == {c \in Claims : claim[c].approver = a /\ claim[c].stage = "approver"}
Load(a)   == Cardinality(OpenOf(a))

\* lastAssigned: the claims an approver has now, closed ones included.
SubmittedTo(a) == {c \in Claims : claim[c].approver = a /\ claim[c].submittedAt # 0}

\* max(submittedAt) of a, 0 without any, is not above that of b.
NotLater(a, b) ==
  \A c \in SubmittedTo(a) : \E d \in SubmittedTo(b) :
    claim[c].submittedAt <= claim[d].submittedAt

\* Mutant: the claim goes to whoever was assigned least recently, however loaded.
RanksBeforeByTurn(a, b) == NotLater(a, b) /\ (NotLater(b, a) => a <= b)

RanksBefore(a, b) ==
  \/ Load(a) < Load(b)
  \/ /\ Load(a) = Load(b)
     /\ NotLater(a, b)
     /\ NotLater(b, a) => a <= b

-----------------------------------------------------------------------------
(* Operations.                                                             *)

MayChange == FoldFunction(+, 0, came) + FoldFunction(+, 0, gone) < MaxChanges

\* The row lock of a claim whose submission is waiting to commit.
IsUnlocked(c) == deal # None => deal.claim # c

IsSubmittable(c) == claim[c].stage \in {"open", "returned"}

Times == {t \in {now, now + 1} : t <= MaxTime}

\* Mutant: submittedAt keeps the time of the first submission.
SubmitAsBefore(c, a, t) ==
  claim' = [claim EXCEPT ![c] = [stage |-> "approver", approver |-> a,
              submittedAt |-> IF @.submittedAt = 0 THEN t ELSE @.submittedAt]]

\* runSubmission()'s update.
Submit(c, a, t) ==
  claim' = [claim EXCEPT ![c] = [stage |-> "approver", approver |-> a, submittedAt |-> t]]

\* resolveApprover(): a resubmission stays with its approver while active.
StaysWith(c, isResubmit) == isResubmit /\ claim[c].approver \in active

\* A submission that takes the advisory lock, counts and ranks.
Pick(c, isResubmit) ==
  /\ deal = None
  /\ IsSubmittable(c) /\ ~StaysWith(c, isResubmit)
  /\ \E a \in active :
       /\ \A b \in active : RanksBefore(a, b)
       /\ deal' = [claim |-> c, to |-> a]
  /\ UNCHANGED <<active, claim, now, away, History>>

\* It commits and releases the lock.
Deal ==
  /\ deal # None
  /\ \E t \in Times :
       /\ now' = t
       /\ Submit(deal.claim, deal.to, t)
       /\ assigned' = [assigned EXCEPT ![deal.to] = t]
  /\ shuffled' = (shuffled \cup ({claim[deal.claim].approver} \ {None})) \ {deal.to}
  /\ deal' = None
  /\ UNCHANGED <<active, came, gone, away>>

\* It rolls back.
Abort ==
  /\ deal # None
  /\ deal' = None
  /\ UNCHANGED <<active, claim, now, away, History>>

Resubmit(c) ==
  LET a == claim[c].approver IN
  /\ IsUnlocked(c) /\ IsSubmittable(c) /\ StaysWith(c, TRUE)
  /\ MayChange
  /\ \E t \in Times :
       /\ now' = t
       /\ Submit(c, a, t)
       /\ assigned' = [assigned EXCEPT ![a] = t]
  /\ shuffled' = shuffled \ {a}
  /\ came' = [came EXCEPT ![a] = @ + 1]
  /\ UNCHANGED <<active, deal, gone, away>>

\* cancelClaim(), rejectClaim(), approveClaim() take the claim off the load.
Leave(c, stage) ==
  LET a == claim[c].approver IN
  /\ claim[c].stage = "approver"
  /\ MayChange
  /\ claim' = [claim EXCEPT ![c].stage = stage]
  /\ gone' = [gone EXCEPT ![a] = @ + 1]
  /\ UNCHANGED <<active, deal, now, assigned, shuffled, came, away>>

\* What else ends: a draft is cancelled, Finance decides.
Close(c, stage) ==
  /\ IsUnlocked(c)
  /\ \/ claim[c].stage = "open" /\ stage = "closed"
     \/ claim[c].stage = "finance" /\ stage \in {"closed", "returned"}
  /\ claim' = [claim EXCEPT ![c].stage = stage]
  /\ UNCHANGED <<active, deal, now, away, History>>

\* reassignOne(): submittedAt goes along with the claim.
Reassign(c, to) ==
  LET from == claim[c].approver IN
  /\ claim[c].stage = "approver"
  /\ to \in active /\ to # from
  /\ MayChange
  /\ claim' = [claim EXCEPT ![c].approver = to]
  /\ \E t \in Times : now' = t /\ assigned' = [assigned EXCEPT ![to] = t]
  /\ shuffled' = shuffled \cup {from, to}
  /\ came' = [came EXCEPT ![to] = @ + 1]
  /\ gone' = [gone EXCEPT ![from] = @ + 1]
  /\ UNCHANGED <<active, deal, away>>

\* User.isActive is changed in the database.
SetActive(a) ==
  /\ a \in Leavers
  /\ active' = IF a \in active THEN active \ {a} ELSE active \cup {a}
  /\ away' = away \cup {a}
  /\ UNCHANGED <<claim, deal, now, History>>

Init ==
  /\ \E inactive \in SUBSET Leavers : active = Approvers \ inactive
  /\ away = Approvers \ active
  /\ claim = [c \in Claims |-> [stage |-> "open", approver |-> None, submittedAt |-> 0]]
  /\ deal = None
  /\ now = 1
  /\ assigned = [a \in Approvers |-> 0]
  /\ shuffled = {}
  /\ came = [a \in Approvers |-> 0]
  /\ gone = [a \in Approvers |-> 0]

Next ==
  \/ \E c \in Claims, isResubmit \in BOOLEAN : Pick(c, isResubmit)
  \/ Deal \/ Abort
  \/ \E c \in Claims : Resubmit(c)
  \/ \E c \in Claims, stage \in {"finance", "returned", "closed"} :
       Leave(c, stage)
  \/ \E c \in Claims, stage \in Stages : Close(c, stage)
  \/ \E c \in Claims, to \in Approvers : Reassign(c, to)
  \/ \E a \in Approvers : SetActive(a)

Spec == Init /\ [][Next]_vars

-----------------------------------------------------------------------------
(* Properties.                                                             *)

TypeOK ==
  /\ active \subseteq Approvers
  /\ claim \in [Claims -> [stage : Stages, approver : Approvers \cup {None}, submittedAt : Nat]]
  /\ \A c \in Claims : claim[c].stage = "approver" => claim[c].approver # None
  /\ deal = None \/ deal \in [claim : Claims, to : Approvers]
  /\ now \in Nat
  /\ assigned \in [Approvers -> Nat]
  /\ shuffled \subseteq Approvers
  /\ came \in [Approvers -> Nat] /\ gone \in [Approvers -> Nat]
  /\ away \subseteq Approvers

(* Dealing keeps the approvers level: one has more open claims than        *)
(* another who was active throughout, beyond a difference of one, only by  *)
(* claims that came to the first, or left the second, without being dealt  *)
(* (reassignments, resubmissions, decisions).  A submission that commits   *)
(* on an old count is included (approverAssignmentService.ts:22-54).       *)
LoadsStayLevel ==
  \A a \in Approvers, b \in Approvers \ away :
    Load(a) <= Load(b) + 1 + came[a] + gone[b]

\* The approver a step has picked takes the turn of b, who was just as loaded.
TakesTurnOf(b) ==
  deal = None /\ deal' # None /\ b \in active /\ Load(b) = Load(deal'.to)

(* Turns rotate: of equally loaded approvers the next claim goes to the    *)
(* one who was given a claim least recently, resubmissions included,       *)
(* unless a claim of one of the two has changed hands since                *)
(* (approverAssignmentService.ts:42-53).                                   *)
TurnsRotate ==
  [][\A b \in Approvers \ shuffled :
       TakesTurnOf(b) /\ deal'.to \notin shuffled => assigned[deal'.to] <= assigned[b]]_vars
=============================================================================
