--------------------------- MODULE ClaimTransactions ---------------------------
(***************************************************************************)
(* The operations of ClaimLifecycle taken apart into the SQL statements of *)
(* their transactions, interleaved.  PostgreSQL runs them READ COMMITTED:  *)
(* a statement sees what was committed when it started, an UPDATE waits    *)
(* for the row's lock and then works on the newest committed version, and  *)
(* locks are held to the end of the transaction.                           *)
(*                                                                         *)
(* Operations on one claim start with SELECT ... FOR UPDATE                *)
(* (findClaimForUpdate), so they take turns.  Bulk reassignment does not:  *)
(* it reads its claims unlocked and makes each UPDATE conditional on what  *)
(* it read.  Submission takes an advisory lock on top of the row lock.     *)
(***************************************************************************)
EXTENDS ClaimStateMachine, FiniteSets

CONSTANTS
  Active,     \* the users with isActive
  Claims,     \* claim ids
  ItemIds,    \* line items; each is worth 1
  Requests,   \* requests in flight; each runs one transaction
  Operations, \* what a request may ask for
  InitRows    \* InitRows[c]: what claim c may be when the requests arrive, [row, items]

Approvers == {a \in Active : Role[a] = "APPROVER"}

\* Without an active approver a submission fails before it counts; ClaimLifecycle has that.
ASSUME ActiveAssumption == Active \subseteq Users /\ Approvers # {}

ASSUME ItemsAssumption   == IsFiniteSet(ItemIds)
ASSUME RequestsAssumption == None \notin Requests

Kinds == {"AddItem", "DeleteItem", "Submit", "Resubmit", "Cancel", "Approve", "Reject",
          "RequestInfo", "Respond", "Reassign", "ReassignListed", "ReassignQueue"}

IsBulk(op) == op.kind \in {"ReassignListed", "ReassignQueue"}

ASSUME OperationsAssumption == \A op \in Operations :
  /\ op.kind \in Kinds /\ op.user \in Users
  /\ ~IsBulk(op) => \E c \in Claims : op.claims = {c}
  /\ op.kind = "AddItem" => op.item \in ItemIds

Columns == {"status", "claimant", "assignedApprover", "decidedBy", "approverApprovedBy", "total",
            "createdAt"}

\* What ClaimLifecycle shows of a claim between two transactions.
IsConsistent(row, its) ==
  /\ DOMAIN row = Columns
  /\ its \subseteq ItemIds /\ row.total = Cardinality(its)
  /\ row.status = "PENDING_APPROVAL" => row.approverApprovedBy = None
  /\ row.status = "PENDING_FINANCE_APPROVAL" => row.approverApprovedBy # None

ASSUME InitAssumption ==
  \A c \in Claims : \A start \in InitRows[c] : IsConsistent(start.row, start.items)

VARIABLES
  db,         \* table Claim, committed
  items,      \* table ClaimItem, committed: the items of each claim
  audit,      \* the newest committed AuditLog row of each claim
  submissions,\* how many submissions that counted loads have committed (history)
  rowLock,    \* the request that holds a claim's row lock
  assignLock, \* the request that holds the assignment advisory lock
  tx          \* the transaction of each request

vars == <<db, items, audit, submissions, rowLock, assignLock, tx>>

\* A transaction: the operation, the next statement, the rows it has read, the
\* columns it will set, its uncommitted rows, the claims still to move and the
\* order they came in (bulk), and `submissions` as it was when it counted loads.
NewTx == [pc |-> "idle", op |-> None, read |-> <<>>, set |-> <<>>,
          rows |-> <<>>, todo |-> {}, order |-> <<>>, counted |-> None]

Op(p)    == tx[p].op
Claim(p) == CHOOSE c \in Op(p).claims : TRUE   \* of an operation on one claim
Read(p)  == tx[p].read[Claim(p)]

-----------------------------------------------------------------------------
(* What an operation checks on the row it has read, and what it sets.      *)

IsOwnedEditable(r, u) == r.claimant = u /\ IsEditableStatus(r.status)

Accepts(op, r, its) ==
  CASE op.kind = "AddItem" ->
         IsOwnedEditable(r, op.user) /\ op.item \notin its
    [] op.kind = "DeleteItem" ->
         /\ IsOwnedEditable(r, op.user) /\ op.item \in its
         /\ r.status = "PENDING_APPROVAL" => its # {op.item}
    [] op.kind \in {"Submit", "Resubmit"} ->
         r.claimant = op.user /\ IsSubmittableStatus(r.status) /\ its # {}
    [] op.kind = "Cancel"  -> r.claimant = op.user /\ IsCancellable(r)
    [] op.kind \in {"Approve", "Reject", "RequestInfo"} ->
         IsDecisionMaker(op.user) /\ IsDecidableBy(r, op.user)
    [] op.kind = "Respond" -> IsRespondableBy(r, op.user)
    [] op.kind \in {"Reassign", "ReassignListed", "ReassignQueue"} ->
         /\ IsDecisionMaker(op.user) /\ op.to \in Approvers
         /\ IsReassignableBy(r, op.user) /\ r.assignedApprover # op.to

ItemsAfter(op, its) ==
  CASE op.kind = "AddItem"    -> its \cup {op.item}
    [] op.kind = "DeleteItem" -> its \ {op.item}
    [] OTHER                  -> its

\* The columns the UPDATE statements of the operation set; `approver` is the
\* one resolveApprover() has returned.
Sets(op, r, its, approver) ==
  CASE op.kind \in {"AddItem", "DeleteItem"} ->
         [total |-> Cardinality(ItemsAfter(op, its))]
    [] op.kind \in {"Submit", "Resubmit"} ->
         [status |-> "PENDING_APPROVAL", assignedApprover |-> approver, decidedBy |-> None,
          approverApprovedBy |-> None, total |-> Cardinality(its)]
    [] op.kind = "Cancel" -> [status |-> "CANCELLED"]
    [] op.kind = "Approve" ->
         IF Role[op.user] # "FINANCE" /\ ~IsAtFinanceStage(r) /\ RequiresFinanceApproval(r.total)
         THEN [status |-> "PENDING_FINANCE_APPROVAL", approverApprovedBy |-> op.user]
         ELSE [status |-> "APPROVED", decidedBy |-> op.user]
    [] op.kind = "Reject" -> [status |-> "REJECTED", decidedBy |-> op.user]
    [] op.kind = "RequestInfo" -> [status |-> "INFO_REQUESTED"]
    [] op.kind = "Respond" ->
         [status |-> IF r.status # "INFO_REQUESTED" THEN r.status
                     ELSE IF IsAtFinanceStage(r) THEN "PENDING_FINANCE_APPROVAL"
                     ELSE "PENDING_APPROVAL"]
    [] op.kind = "Reassign" -> [assignedApprover |-> op.to]

-----------------------------------------------------------------------------
(* Statements.                                                             *)

\* What an UPDATE that sets the columns `new` makes of the row `old`.
Over(new, old) ==
  [x \in DOMAIN new \cup DOMAIN old |-> IF x \in DOMAIN new THEN new[x] ELSE old[x]]

\* The transaction of p goes on to statement `pc`, having changed as in `t`.
GoTo(p, pc, t) == tx' = [tx EXCEPT ![p] = [t EXCEPT !.pc = pc]]

Tables == <<db, items, audit, submissions>>
Locks  == <<rowLock, assignLock>>

ReleaseLocks(p) ==
  /\ rowLock' = [c \in Claims |-> IF rowLock[c] = p THEN None ELSE rowLock[c]]
  /\ assignLock' = IF assignLock = p THEN None ELSE assignLock

\* A failed check, an error, the transaction timeout or a lost connection.
Rollback(p) ==
  /\ GoTo(p, "failed", NewTx)
  /\ ReleaseLocks(p)
  /\ UNCHANGED Tables

Begin(p, op) ==
  /\ tx[p].pc = "idle"
  /\ GoTo(p, IF IsBulk(op) THEN "scan" ELSE "lock", [tx[p] EXCEPT !.op = op])
  /\ UNCHANGED <<Tables, Locks>>

\* Mutant: the claim is read without FOR UPDATE.
LockRowNot(p) ==
  /\ tx[p].pc = "lock"
  /\ GoTo(p, "read", tx[p])
  /\ UNCHANGED <<Tables, Locks>>

LockRow(p) ==
  /\ tx[p].pc = "lock"
  /\ rowLock[Claim(p)] = None
  /\ rowLock' = [rowLock EXCEPT ![Claim(p)] = p]
  /\ GoTo(p, "read", tx[p])
  /\ UNCHANGED <<Tables, assignLock>>

ReadRow(p) ==
  /\ tx[p].pc = "read"
  /\ GoTo(p, "check", [tx[p] EXCEPT !.read = [c \in {Claim(p)} |-> db[c]]])
  /\ UNCHANGED <<Tables, Locks>>

\* resolveApprover(): a resubmission stays with its approver, if that one is still active.
PicksApprover(op, r) ==
  op.kind = "Submit" \/ (op.kind = "Resubmit" /\ r.assignedApprover \notin Approvers)

\* Guards, and the reads the new column values are computed from.
Check(p) ==
  LET c == Claim(p) IN
  /\ tx[p].pc = "check"
  /\ Accepts(Op(p), Read(p), items[c])
  /\ IF PicksApprover(Op(p), Read(p))
     THEN GoTo(p, "serialize", tx[p])
     ELSE GoTo(p, "update", [tx[p] EXCEPT
            !.set = Sets(Op(p), Read(p), items[c], Read(p).assignedApprover)])
  /\ UNCHANGED <<Tables, Locks>>

Refuse(p) ==
  /\ tx[p].pc = "check"
  /\ ~Accepts(Op(p), Read(p), items[Claim(p)])
  /\ Rollback(p)

\* pickLeastLoadedApprover(): the advisory lock, then the counts.
\* Mutant: assignment is not serialized.
SerializeAssignmentNot(p) ==
  /\ tx[p].pc = "serialize"
  /\ GoTo(p, "count", tx[p])
  /\ UNCHANGED <<Tables, Locks>>

SerializeAssignment(p) ==
  /\ tx[p].pc = "serialize"
  /\ assignLock = None
  /\ assignLock' = p
  /\ GoTo(p, "count", tx[p])
  /\ UNCHANGED <<Tables, rowLock>>

Load(a) == Cardinality({c \in Claims : db[c].assignedApprover = a /\ IsReassignable(db[c])})

CountLoads(p) ==
  /\ tx[p].pc = "count"
  /\ \E a \in {b \in Approvers : \A d \in Approvers : Load(b) <= Load(d)} :
       GoTo(p, "update", [tx[p] EXCEPT
         !.counted = submissions,
         !.set = Sets(Op(p), Read(p), items[Claim(p)], a)])
  /\ UNCHANGED <<Tables, Locks>>

CanUpdate(p, c) == rowLock[c] \in {None, p}

\* UPDATE "Claim" SET ... WHERE id = c, on the newest committed version.
Update(p) ==
  LET c == Claim(p) IN
  /\ tx[p].pc = "update"
  /\ CanUpdate(p, c)
  /\ rowLock' = [rowLock EXCEPT ![c] = p]
  /\ GoTo(p, "commit", [tx[p] EXCEPT !.rows = [d \in {c} |-> Over(tx[p].set, db[d])]])
  /\ UNCHANGED <<Tables, assignLock>>

\* reassignClaimsBulk(): findMany without a lock, and the checks on its result.
InScan(op, c) ==
  IF op.kind = "ReassignListed" THEN c \in op.claims
  ELSE db[c].assignedApprover = op.from /\ IsReassignable(db[c])

\* The orders ORDER BY createdAt may return rows in: any, among equal times.
Orders(found) ==
  {rank \in [found -> 1..Cardinality(found)] :
     \A c, d \in found : /\ c # d => rank[c] # rank[d]
                         /\ db[c].createdAt < db[d].createdAt => rank[c] < rank[d]}

Scan(p) ==
  LET op == Op(p)
      found == {c \in Claims : InScan(op, c)}
  IN
  /\ tx[p].pc = "scan"
  /\ IF op.to \in Approvers /\ \A c \in found : Accepts(op, db[c], items[c])
     THEN /\ \E order \in Orders(found) :
               GoTo(p, "move", [tx[p] EXCEPT
                 !.todo = found, !.order = order, !.read = [c \in found |-> db[c]]])
          /\ UNCHANGED <<Tables, Locks>>
     ELSE Rollback(p)

\* Mutant: the claims are taken in any order.
NextToMoveAny(p, c) == c \in tx[p].todo

NextToMove(p, c) ==
  c \in tx[p].todo /\ \A d \in tx[p].todo : tx[p].order[c] <= tx[p].order[d]

\* Mutant: the UPDATE is not conditional on what was read.
StillAsReadNot(p, c) == TRUE

\* The WHERE of the conditional UPDATE, on the newest committed version.
StillAsRead(p, c) ==
  /\ db[c].status = tx[p].read[c].status
  /\ db[c].assignedApprover = tx[p].read[c].assignedApprover
  /\ db[c].approverApprovedBy = None

\* reassignOne()'s conditional UPDATE of the next claim; no row updated throws.
MoveClaim(p, c) ==
  /\ tx[p].pc = "move"
  /\ NextToMove(p, c)
  /\ CanUpdate(p, c)
  /\ IF StillAsRead(p, c)
     THEN /\ rowLock' = [rowLock EXCEPT ![c] = p]
          /\ GoTo(p, "move", [tx[p] EXCEPT
               !.todo = @ \ {c},
               !.rows = Over([d \in {c} |-> Over([assignedApprover |-> Op(p).to], db[d])], @)])
          /\ UNCHANGED <<Tables, assignLock>>
     ELSE Rollback(p)

FinishMoves(p) ==
  /\ tx[p].pc = "move" /\ tx[p].todo = {}
  /\ GoTo(p, "commit", tx[p])
  /\ UNCHANGED <<Tables, Locks>>

\* COMMIT: rows, items and audit rows become visible together.
Commit(p) ==
  LET t == tx[p] IN
  /\ t.pc = "commit"
  /\ db' = Over(t.rows, db)
  /\ items' = IF IsBulk(t.op) THEN items
              ELSE [items EXCEPT ![Claim(p)] = ItemsAfter(t.op, @)]
  /\ audit' = Over([c \in DOMAIN t.rows |->
                      [by |-> t.op.user, old |-> t.read[c].status,
                       new |-> Over(t.set, t.read[c]).status]], audit)
  /\ submissions' = IF t.counted # None THEN submissions + 1 ELSE submissions
  /\ GoTo(p, "done", [NewTx EXCEPT !.op = t.op])
  /\ ReleaseLocks(p)

Init ==
  /\ \E start \in [Claims -> UNION {InitRows[c] : c \in Claims}] :
       /\ \A c \in Claims : start[c] \in InitRows[c]
       /\ db    = [c \in Claims |-> start[c].row]
       /\ items = [c \in Claims |-> start[c].items]
       /\ audit = [c \in Claims |-> [by |-> None, old |-> start[c].row.status,
                                                  new |-> start[c].row.status]]
  /\ submissions = 0
  /\ rowLock = [c \in Claims |-> None]
  /\ assignLock = None
  /\ tx = [p \in Requests |-> NewTx]

\* What the database does for a request without being asked again.
Proceed(p) ==
  \/ LockRow(p) \/ ReadRow(p) \/ Check(p) \/ Refuse(p)
  \/ SerializeAssignment(p) \/ CountLoads(p) \/ Update(p)
  \/ Scan(p) \/ FinishMoves(p) \/ Commit(p)
  \/ \E c \in Claims : MoveClaim(p, c)

Fail(p) == tx[p].pc \notin {"idle", "done", "failed"} /\ Rollback(p)

Next ==
  \/ \E p \in Requests, op \in Operations : Begin(p, op)
  \/ \E p \in Requests : Proceed(p)
  \/ \E p \in Requests : Fail(p)

\* A statement that is not waiting for a lock completes; nothing is assumed of
\* rollbacks, so requests may not rely on the timeout to get out of a deadlock.
Fairness == \A p \in Requests : WF_vars(Proceed(p))

Spec == Init /\ [][Next]_vars /\ Fairness

-----------------------------------------------------------------------------
(* Properties of what is committed.                                        *)

InFlight(p) == tx[p].pc \notin {"idle", "done", "failed"}

(* An edit and a decision in flight together cannot leave a total that is  *)
(* not the sum of the items: the second works on what the first committed  *)
(* (claimQueryService.ts:16-21).                                           *)
CommittedTotalIsSum == \A c \in Claims : db[c].total = Cardinality(items[c])

(* Each commit is a step of the approval workflow; in particular nothing   *)
(* interleaved between an approver's read of the total and the approval    *)
(* gets an amount above the threshold past Finance.                        *)
Workflow == INSTANCE ApprovalWorkflow WITH
  ClaimIds <- Claims,
  Values <- 0..Cardinality(ItemIds),
  stage  <- [c \in Claims |-> StageOf(db[c])],
  value  <- [c \in Claims |-> db[c].total],
  signed <- [c \in Claims |-> SignaturesOf(db[c])]

CommitsFollowWorkflow == [][Workflow!Next]_(Workflow!vars)

(* The audit trail has no gaps: the row a commit adds starts at the status *)
(* that commit replaced and ends at the one it left.                       *)
AuditTrailIsContinuous ==
  [][\A c \in Claims : db'[c] # db[c] \/ audit'[c] # audit[c] =>
       audit'[c].old = db[c].status /\ audit'[c].new = db'[c].status]_vars

(* A claim changes hands only while it is still with its approver, and by  *)
(* that approver or Finance, judged by the row being replaced and not by   *)
(* the one bulk reassignment read before (claimReassignmentService.ts:46). *)
OnlyTheHolderHandsOver ==
  [][\A c \in Claims :
       IsInReview(db[c].status) /\ db'[c].assignedApprover # db[c].assignedApprover =>
         IsReassignableBy(db[c], audit'[c].by)]_vars

(* No submission commits between the count of another one and its commit,  *)
(* so two submissions cannot both pick the approver that was least loaded  *)
(* before either (approverAssignmentService.ts:10-12).                     *)
CountsAreFresh == \A p \in Requests : tx[p].counted \in {None, submissions}

\* p waits for a lock that q holds.
WaitsFor(p, q) ==
  /\ p # q
  /\ \/ tx[p].pc = "lock" /\ rowLock[Claim(p)] = q
     \/ tx[p].pc = "serialize" /\ assignLock = q
     \/ tx[p].pc = "move" /\ \E c \in tx[p].todo : NextToMove(p, c) /\ rowLock[c] = q

\* p is a bulk reassignment that has moved one claim and waits for another one
\* created at the same instant.
WaitsAtTie(p) ==
  /\ tx[p].pc = "move"
  /\ \E c \in tx[p].todo, d \in DOMAIN tx[p].rows :
       NextToMove(p, c) /\ db[c].createdAt = db[d].createdAt

\* p is in, or waits for, a circle of requests that all wait at a tie.
IsCaughtByTies(p) ==
  \E waiting \in SUBSET Requests : \E circle \in SUBSET waiting :
    /\ p \in waiting /\ \A q \in waiting : \E r \in waiting : WaitsFor(q, r)
    /\ circle # {} /\ \A q \in circle : WaitsAtTie(q) /\ \E r \in circle : WaitsFor(q, r)

(* Every request ends without help from the transaction timeout or from    *)
(* PostgreSQL's deadlock detection: requests wait for each other in a      *)
(* circle in one case only.  Claims created at the same instant come back  *)
(* in any order (claimReassignmentService.ts:100, 120), so bulk            *)
(* reassignments may lock those in opposite orders; no single operation,   *)
(* submission or bulk of claims with distinct times is ever part of it.    *)
RequestsEnd ==
  \A p \in Requests : InFlight(p) ~> tx[p].pc \in {"done", "failed"} \/ IsCaughtByTies(p)
=============================================================================
