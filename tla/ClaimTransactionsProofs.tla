------------------------ MODULE ClaimTransactionsProofs ------------------------
(***************************************************************************)
(* Proofs that concurrent transactions commit only what operations run one *)
(* after the other would, for any number of requests, claims and items.    *)
(*                                                                         *)
(* The invariant says what the locks are for: while a request holds a      *)
(* claim's row lock, the row it has read is the row that is committed, so  *)
(* what it checked still holds when it writes.  A bulk reassignment knows  *)
(* this only of the claims its conditional updates have locked.            *)
(***************************************************************************)
EXTENDS ClaimTransactions, FiniteSetTheorems, TLAPS

Fields == {"pc", "op", "read", "set", "rows", "todo", "order", "counted"}

PCs == {"idle", "lock", "read", "check", "serialize", "count", "update", "scan", "move",
        "commit", "done", "failed"}

Reading == {"check", "serialize", "count", "update", "commit"}
Single  == {"lock", "read"} \cup Reading

BaseInv ==
  /\ DOMAIN tx = Requests
  /\ \A p \in Requests : /\ DOMAIN tx[p] = Fields /\ tx[p].pc \in PCs
                         /\ tx[p].pc = "idle" => tx[p] = NewTx
  /\ \A p \in Requests : InFlight(p) => Op(p) \in Operations
  /\ DOMAIN rowLock = Claims /\ DOMAIN db = Claims /\ DOMAIN items = Claims /\ DOMAIN audit = Claims
  /\ submissions \in Nat

(* An operation on one claim: what it has read and checked still holds.    *)
SingleInv(p) ==
  LET c == Claim(p)
      t == tx[p]
  IN
  InFlight(p) /\ ~IsBulk(Op(p)) =>
    /\ t.pc \in Single
    /\ t.pc # "lock" => rowLock[c] = p
    /\ t.pc \in Reading => DOMAIN t.read = {c} /\ t.read[c] = db[c]
    /\ t.pc \in Reading \ {"check"} => Accepts(Op(p), db[c], items[c])
    /\ t.pc \in {"update", "commit"} => \E a : t.set = Sets(Op(p), db[c], items[c], a)
    /\ t.pc = "commit" => DOMAIN t.rows = {c} /\ t.rows[c] = Over(t.set, db[c])

(* A bulk reassignment: the claims it has moved, and those it will move.   *)
BulkInv(p) ==
  LET t == tx[p] IN
  InFlight(p) /\ IsBulk(Op(p)) =>
    /\ t.pc \in {"scan", "move", "commit"}
    /\ t.set = <<>> /\ DOMAIN t.rows \subseteq Claims
    /\ t.pc = "scan" => DOMAIN t.rows = {}
    /\ \A c \in t.todo :
         /\ c \in Claims /\ DOMAIN t.read[c] = Columns
         /\ IsReassignableBy(t.read[c], Op(p).user)
    /\ \A c \in DOMAIN t.rows :
         /\ rowLock[c] = p
         /\ DOMAIN t.read[c] = Columns /\ t.read[c].status = db[c].status
         /\ IsReassignableBy(db[c], Op(p).user)
         /\ t.rows[c] = Over([assignedApprover |-> Op(p).to], db[c])

(* A request that has counted loads holds the advisory lock.               *)
CountInv(p) ==
  /\ tx[p].pc = "count" => assignLock = p
  /\ tx[p].counted # None => assignLock = p /\ tx[p].counted = submissions

TxInv(p) == SingleInv(p) /\ BulkInv(p) /\ CountInv(p)

RowsInv == \A c \in Claims : IsConsistent(db[c], items[c])

IInv == BaseInv /\ RowsInv /\ \A p \in Requests : TxInv(p)

-----------------------------------------------------------------------------
(* Lemmas about one step of a transaction.                                 *)

(* Setting nothing leaves a row as it is. *)
LEMMA OverNothing ==
  ASSUME NEW g, NEW x \in DOMAIN g
  PROVE  Over(<<>>, g)[x] = g[x]
<1> DEFINE e == <<>>
<1>1. DOMAIN e = {}
  OBVIOUS
<1> HIDE DEF e
<1>2. Over(e, g)[x] = g[x]
  BY <1>1 DEF Over
<1> QED BY <1>2 DEF e

(* The claim of an operation on one claim. *)
LEMMA ClaimOfSingle ==
  ASSUME NEW p, Op(p) \in Operations, ~IsBulk(Op(p))
  PROVE  Claim(p) \in Claims
<1>1. PICK c \in Claims : Op(p).claims = {c}
  BY OperationsAssumption
<1> QED BY <1>1 DEF Claim

(* What GoTo() yields. *)
LEMMA GoToFacts ==
  ASSUME BaseInv, NEW p \in Requests, NEW t, NEW pc, DOMAIN t = Fields, GoTo(p, pc, t)
  PROVE  /\ DOMAIN tx' = Requests /\ DOMAIN tx'[p] = Fields
         /\ \A q \in Requests \ {p} : tx'[q] = tx[q]
         /\ tx'[p].pc = pc /\ tx'[p].op = t.op /\ tx'[p].read = t.read /\ tx'[p].set = t.set
         /\ tx'[p].rows = t.rows /\ tx'[p].todo = t.todo /\ tx'[p].counted = t.counted
<1>1. tx' = [tx EXCEPT ![p] = [t EXCEPT !.pc = pc]] /\ DOMAIN tx = Requests
  BY DEF GoTo, BaseInv
<1>2. tx'[p] = [t EXCEPT !.pc = pc]
  BY <1>1
<1>3. DOMAIN tx'[p] = Fields /\ tx'[p].pc = pc
  BY <1>2 DEF Fields
<1>4. /\ tx'[p].op = t.op /\ tx'[p].read = t.read /\ tx'[p].set = t.set
      /\ tx'[p].rows = t.rows /\ tx'[p].todo = t.todo /\ tx'[p].counted = t.counted
  BY <1>2 DEF Fields
<1> QED BY <1>1, <1>3, <1>4

(* A transaction that stands still keeps its part of the invariant as long *)
(* as nobody touches what it has locked.                                   *)
LEMMA Bystander ==
  ASSUME BaseInv, NEW q \in Requests, TxInv(q), tx'[q] = tx[q],
         \A c \in Claims : rowLock[c] = q =>
           rowLock'[c] = q /\ db'[c] = db[c] /\ items'[c] = items[c],
         assignLock = q => assignLock' = q,
         tx[q].counted # None => submissions' = submissions
  PROVE  TxInv(q)'
<1>1. Op(q)' = Op(q) /\ Claim(q)' = Claim(q) /\ InFlight(q)' = InFlight(q)
  BY DEF Op, Claim, InFlight
<1>2. SingleInv(q)'
  <2> SUFFICES ASSUME InFlight(q), ~IsBulk(Op(q)) PROVE SingleInv(q)'
    BY <1>1 DEF SingleInv
  <2>1. Claim(q) \in Claims
    BY ClaimOfSingle DEF BaseInv
  <2>2. tx[q].pc # "lock" =>
          rowLock'[Claim(q)] = q /\ db'[Claim(q)] = db[Claim(q)] /\ items'[Claim(q)] = items[Claim(q)]
    BY <2>1 DEF TxInv, SingleInv
  <2>3. CASE tx[q].pc = "lock"
    BY <1>1, <2>3 DEF TxInv, SingleInv, Reading
  <2>4. CASE tx[q].pc # "lock"
    BY <1>1, <2>2, <2>4 DEF TxInv, SingleInv
  <2> QED BY <2>3, <2>4
<1>3. BulkInv(q)'
  <2> SUFFICES ASSUME InFlight(q), IsBulk(Op(q)) PROVE BulkInv(q)'
    BY <1>1 DEF BulkInv
  <2>1. ASSUME NEW c \in DOMAIN tx[q].rows PROVE rowLock'[c] = q /\ db'[c] = db[c]
    BY <2>1 DEF TxInv, BulkInv
  <2> QED BY <1>1, <2>1 DEF TxInv, BulkInv
<1>4. CountInv(q)'
  BY DEF TxInv, CountInv
<1> QED BY <1>2, <1>3, <1>4 DEF TxInv

(* A transaction goes on: nothing is committed, and at most locks nobody   *)
(* else holds change hands.                                                *)
LEMMA Progress ==
  ASSUME IInv, NEW p \in Requests, NEW t, NEW pc \in PCs \ {"idle"}, DOMAIN t = Fields,
         GoTo(p, pc, t), pc \notin {"idle", "done", "failed"} => t.op \in Operations,
         UNCHANGED <<db, items, audit, submissions>>,
         DOMAIN rowLock' = Claims,
         \A c \in Claims : rowLock[c] \in Requests \ {p} => rowLock'[c] = rowLock[c],
         assignLock \in Requests \ {p} => assignLock' = assignLock,
         TxInv(p)'
  PROVE  IInv'
<1>1. /\ DOMAIN tx' = Requests /\ DOMAIN tx'[p] = Fields /\ tx'[p].pc = pc /\ tx'[p].op = t.op
      /\ \A q \in Requests \ {p} : tx'[q] = tx[q]
  BY GoToFacts DEF IInv
<1>2. BaseInv'
  BY <1>1 DEF IInv, BaseInv, InFlight, Op
<1>3. RowsInv'
  BY DEF IInv, RowsInv
<1>4. ASSUME NEW q \in Requests PROVE TxInv(q)'
  BY <1>1, <1>4, Bystander DEF IInv
<1> QED BY <1>2, <1>3, <1>4 DEF IInv

-----------------------------------------------------------------------------
(* One lemma for each statement.                                           *)

(* Rollback leaves nothing behind but released locks. *)
LEMMA RollbackInv ==
  ASSUME IInv, NEW p \in Requests, Rollback(p)
  PROVE  IInv'
<1>1. DOMAIN NewTx = Fields /\ NewTx.counted = None
  BY DEF NewTx, Fields
<1>2. tx'[p].pc = "failed" /\ tx'[p].counted = None
  BY <1>1, GoToFacts DEF Rollback, IInv
<1>3. TxInv(p)'
  BY <1>2 DEF TxInv, SingleInv, BulkInv, CountInv, InFlight
<1>4. DOMAIN rowLock' = Claims /\ \A c \in Claims : rowLock[c] \in Requests \ {p} => rowLock'[c] = rowLock[c]
  BY DEF Rollback, ReleaseLocks
<1>5. assignLock \in Requests \ {p} => assignLock' = assignLock
  BY DEF Rollback, ReleaseLocks
<1> QED BY <1>1, <1>3, <1>4, <1>5, Progress DEF Rollback, Tables, PCs

(* Begin knows nothing yet. *)
LEMMA BeginInv ==
  ASSUME IInv, NEW p \in Requests, NEW op \in Operations, Begin(p, op)
  PROVE  IInv'
<1> DEFINE t == [tx[p] EXCEPT !.op = op]
           pc == IF IsBulk(op) THEN "scan" ELSE "lock"
<1>1. tx[p] = NewTx /\ DOMAIN tx[p] = Fields
  BY DEF IInv, BaseInv, Begin
<1>2. /\ DOMAIN t = Fields /\ t.op = op /\ t.set = <<>> /\ t.rows = <<>>
      /\ t.todo = {} /\ t.counted = None
  BY <1>1 DEF NewTx, Fields
<1>3. GoTo(p, pc, t) /\ UNCHANGED <<db, items, audit, submissions, rowLock, assignLock>>
  BY DEF Begin, Tables, Locks
<1>4. pc \in {"scan", "lock"} /\ (pc = "scan" <=> IsBulk(op))
  OBVIOUS
<1> HIDE DEF t, pc
<1>5. /\ tx'[p].pc = pc /\ tx'[p].op = op /\ tx'[p].set = <<>> /\ tx'[p].rows = <<>>
      /\ tx'[p].todo = {} /\ tx'[p].counted = None
  BY <1>2, <1>3, GoToFacts DEF IInv
<1>6. DOMAIN <<>> = {}
  OBVIOUS
<1>7. TxInv(p)'
  BY <1>4, <1>5, <1>6 DEF TxInv, SingleInv, BulkInv, CountInv, Op, Single, Reading
<1> QED BY <1>2, <1>3, <1>4, <1>7, Progress DEF PCs, IInv, BaseInv

(* What an operation on one claim knows at a statement of its own. *)
LEMMA SingleFacts ==
  ASSUME IInv, NEW p \in Requests, tx[p].pc \in Single \ {"commit"}
  PROVE  /\ Op(p) \in Operations /\ ~IsBulk(Op(p)) /\ Claim(p) \in Claims /\ DOMAIN tx[p] = Fields
         /\ DOMAIN db = Claims /\ DOMAIN items = Claims /\ DOMAIN rowLock = Claims
         /\ SingleInv(p) /\ CountInv(p) /\ InFlight(p)
<1>1. InFlight(p) /\ TxInv(p) /\ BaseInv
  BY DEF InFlight, Single, Reading, IInv
<1>2. Op(p) \in Operations /\ ~IsBulk(Op(p))
  BY <1>1 DEF BaseInv, TxInv, BulkInv, Single, Reading
<1> QED BY <1>1, <1>2, ClaimOfSingle DEF BaseInv, TxInv

(* LockRow waits until nobody holds the row. *)
LEMMA LockRowInv ==
  ASSUME IInv, NEW p \in Requests, LockRow(p)
  PROVE  IInv'
<1>1. /\ Op(p) \in Operations /\ ~IsBulk(Op(p)) /\ Claim(p) \in Claims /\ DOMAIN tx[p] = Fields
      /\ CountInv(p) /\ DOMAIN rowLock = Claims
  BY SingleFacts DEF LockRow, Single
<1>2. /\ tx'[p].pc = "read" /\ Op(p)' = Op(p) /\ tx'[p].counted = tx[p].counted
      /\ Claim(p)' = Claim(p)
  BY <1>1, GoToFacts DEF LockRow, IInv, Op, Claim
<1>3. rowLock'[Claim(p)] = p /\ DOMAIN rowLock' = Claims
  BY <1>1 DEF LockRow
<1>4. TxInv(p)'
  BY <1>1, <1>2, <1>3 DEF LockRow, TxInv, SingleInv, BulkInv, CountInv, Single, Reading, Tables
<1>5. \A c \in Claims : rowLock[c] \in Requests \ {p} => rowLock'[c] = rowLock[c]
  BY <1>1, RequestsAssumption DEF LockRow
<1> QED BY <1>1, <1>3, <1>4, <1>5, Progress DEF LockRow, Tables, Op, PCs

(* ReadRow reads what is committed. *)
LEMMA ReadRowInv ==
  ASSUME IInv, NEW p \in Requests, ReadRow(p)
  PROVE  IInv'
<1> DEFINE t == [tx[p] EXCEPT !.read = [c \in {Claim(p)} |-> db[c]]]
<1>1. /\ Op(p) \in Operations /\ ~IsBulk(Op(p)) /\ Claim(p) \in Claims /\ DOMAIN tx[p] = Fields
      /\ SingleInv(p) /\ CountInv(p) /\ InFlight(p) /\ DOMAIN rowLock = Claims
  BY SingleFacts DEF ReadRow, Single
<1>2. /\ DOMAIN t = Fields /\ t.op = Op(p) /\ t.counted = tx[p].counted
      /\ t.read = [c \in {Claim(p)} |-> db[c]]
  BY <1>1 DEF Fields, Op
<1>3. GoTo(p, "check", t) /\ UNCHANGED <<db, items, audit, submissions, rowLock, assignLock>>
  BY DEF ReadRow, Tables, Locks
<1> HIDE DEF t
<1>4. /\ tx'[p].pc = "check" /\ Op(p)' = Op(p) /\ Claim(p)' = Claim(p)
      /\ tx'[p].counted = tx[p].counted /\ tx'[p].read = t.read
  BY <1>2, <1>3, GoToFacts DEF IInv, Op, Claim
<1>5. rowLock[Claim(p)] = p
  BY <1>1 DEF SingleInv, ReadRow
<1>6. TxInv(p)'
  BY <1>1, <1>2, <1>3, <1>4, <1>5 DEF TxInv, SingleInv, BulkInv, CountInv, Single, Reading
<1> QED BY <1>1, <1>2, <1>3, <1>6, Progress DEF PCs

(* Check judges the committed row. *)
LEMMA CheckInv ==
  ASSUME IInv, NEW p \in Requests, Check(p)
  PROVE  IInv'
<1> DEFINE c == Claim(p)
           set == Sets(Op(p), Read(p), items[c], Read(p).assignedApprover)
<1>1. /\ Op(p) \in Operations /\ ~IsBulk(Op(p)) /\ c \in Claims /\ DOMAIN tx[p] = Fields
      /\ SingleInv(p) /\ CountInv(p) /\ InFlight(p) /\ DOMAIN rowLock = Claims
  BY SingleFacts DEF Check, Single, Reading
<1>2. rowLock[c] = p /\ DOMAIN tx[p].read = {c} /\ Read(p) = db[c]
  BY <1>1 DEF SingleInv, Check, Reading, Read
<1>3. Accepts(Op(p), db[c], items[c]) /\ UNCHANGED <<db, items, audit, submissions, rowLock, assignLock>>
  BY <1>2 DEF Check, Tables, Locks
<1>4. ASSUME NEW t, NEW pc \in {"serialize", "update"}, GoTo(p, pc, t), DOMAIN t = Fields,
             t.op = Op(p), t.counted = tx[p].counted, t.read = tx[p].read,
             pc = "update" => \E a : t.set = Sets(Op(p), db[c], items[c], a)
      PROVE  IInv'
  <2>1. /\ tx'[p].pc = pc /\ Op(p)' = Op(p) /\ Claim(p)' = c /\ tx'[p].set = t.set
        /\ tx'[p].counted = tx[p].counted /\ tx'[p].read = tx[p].read
    BY <1>4, GoToFacts DEF IInv, Op, Claim
  <2>2. SingleInv(p)'
    <3>1. tx'[p].pc = "update" => \E a : tx'[p].set = Sets(Op(p), db[c], items[c], a)
      BY <1>4, <2>1
    <3> QED BY <1>1, <1>2, <1>3, <1>4, <2>1, <3>1 DEF SingleInv, Single, Reading, Read
  <2>3. TxInv(p)'
    BY <1>1, <1>3, <1>4, <2>1, <2>2 DEF TxInv, BulkInv, CountInv
  <2> QED BY <1>1, <1>3, <1>4, <2>3, Progress DEF PCs
<1>5. CASE PicksApprover(Op(p), Read(p))
  BY <1>1, <1>4, <1>5 DEF Check, Op
<1>6. CASE ~PicksApprover(Op(p), Read(p))
  <2> DEFINE t == [tx[p] EXCEPT !.set = set]
  <2>1. GoTo(p, "update", t)
    BY <1>6 DEF Check
  <2>2. /\ DOMAIN t = Fields /\ t.op = Op(p) /\ t.counted = tx[p].counted /\ t.read = tx[p].read
        /\ t.set = Sets(Op(p), db[c], items[c], db[c].assignedApprover)
    BY <1>1, <1>2 DEF Fields, Op
  <2> HIDE DEF t
  <2> QED BY <1>4, <2>1, <2>2
<1> QED BY <1>5, <1>6

(* SerializeAssignment waits until nobody holds the advisory lock. *)
LEMMA SerializeAssignmentInv ==
  ASSUME IInv, NEW p \in Requests, SerializeAssignment(p)
  PROVE  IInv'
<1>1. /\ Op(p) \in Operations /\ ~IsBulk(Op(p)) /\ Claim(p) \in Claims /\ DOMAIN tx[p] = Fields
      /\ SingleInv(p) /\ CountInv(p) /\ InFlight(p) /\ DOMAIN rowLock = Claims
  BY SingleFacts DEF SerializeAssignment, Single, Reading
<1>2. /\ tx'[p].pc = "count" /\ Op(p)' = Op(p) /\ Claim(p)' = Claim(p)
      /\ tx'[p].counted = tx[p].counted /\ tx'[p].read = tx[p].read
  BY <1>1, GoToFacts DEF SerializeAssignment, IInv, Op, Claim
<1>3. UNCHANGED <<db, items, audit, submissions, rowLock>> /\ assignLock' = p /\ assignLock = None
  BY DEF SerializeAssignment, Tables
<1>4. SingleInv(p)'
  BY <1>1, <1>2, <1>3 DEF SerializeAssignment, SingleInv, Single, Reading
<1>5. TxInv(p)'
  BY <1>1, <1>2, <1>3, <1>4 DEF TxInv, BulkInv, CountInv
<1> QED BY <1>1, <1>3, <1>5, RequestsAssumption, Progress DEF SerializeAssignment, Op, PCs

(* CountLoads counts under the advisory lock. *)
LEMMA CountLoadsInv ==
  ASSUME IInv, NEW p \in Requests, CountLoads(p)
  PROVE  IInv'
<1> DEFINE c == Claim(p)
<1>1. /\ Op(p) \in Operations /\ ~IsBulk(Op(p)) /\ c \in Claims /\ DOMAIN tx[p] = Fields
      /\ SingleInv(p) /\ CountInv(p) /\ InFlight(p) /\ DOMAIN rowLock = Claims
  BY SingleFacts DEF CountLoads, Single, Reading
<1>2. rowLock[c] = p /\ DOMAIN tx[p].read = {c} /\ tx[p].read[c] = db[c] /\ Accepts(Op(p), db[c], items[c])
  BY <1>1 DEF SingleInv, CountLoads, Reading
<1>3. PICK a \in Approvers : GoTo(p, "update", [tx[p] EXCEPT !.counted = submissions,
                                     !.set = Sets(Op(p), Read(p), items[c], a)])
  BY DEF CountLoads
<1> DEFINE t == [tx[p] EXCEPT !.counted = submissions, !.set = Sets(Op(p), Read(p), items[c], a)]
<1>4. /\ DOMAIN t = Fields /\ t.op = Op(p) /\ t.counted = submissions /\ t.read = tx[p].read
      /\ t.set = Sets(Op(p), db[c], items[c], a) /\ GoTo(p, "update", t)
  BY <1>1, <1>2, <1>3 DEF Fields, Op, Read
<1> HIDE DEF t
<1>5. /\ tx'[p].pc = "update" /\ Op(p)' = Op(p) /\ Claim(p)' = c /\ tx'[p].set = t.set
      /\ tx'[p].counted = submissions /\ tx'[p].read = tx[p].read
  BY <1>4, GoToFacts DEF IInv, Op, Claim
<1>6. UNCHANGED <<db, items, audit, submissions, rowLock, assignLock>> /\ assignLock = p
  BY <1>1 DEF CountLoads, Tables, Locks, CountInv
<1>7. SingleInv(p)'
  BY <1>1, <1>2, <1>4, <1>5, <1>6 DEF SingleInv, Single, Reading
<1>8. TxInv(p)'
  BY <1>1, <1>5, <1>6, <1>7 DEF TxInv, BulkInv, CountInv
<1> QED BY <1>1, <1>4, <1>6, <1>8, Progress DEF PCs

(* Update writes over the row it has read. *)
LEMMA UpdateInv ==
  ASSUME IInv, NEW p \in Requests, Update(p)
  PROVE  IInv'
<1> DEFINE c == Claim(p)
           t == [tx[p] EXCEPT !.rows = [d \in {c} |-> Over(tx[p].set, db[d])]]
<1>1. /\ Op(p) \in Operations /\ ~IsBulk(Op(p)) /\ c \in Claims /\ DOMAIN tx[p] = Fields
      /\ SingleInv(p) /\ CountInv(p) /\ InFlight(p) /\ DOMAIN rowLock = Claims
  BY SingleFacts DEF Update, Single, Reading
<1>2. /\ rowLock[c] = p /\ DOMAIN tx[p].read = {c} /\ tx[p].read[c] = db[c] /\ Accepts(Op(p), db[c], items[c])
      /\ \E a : tx[p].set = Sets(Op(p), db[c], items[c], a)
  BY <1>1 DEF SingleInv, Update, Reading
<1>3. /\ DOMAIN t = Fields /\ t.op = Op(p) /\ t.counted = tx[p].counted /\ t.read = tx[p].read
      /\ t.set = tx[p].set /\ t.rows = [d \in {c} |-> Over(tx[p].set, db[d])]
  BY <1>1 DEF Fields, Op
<1>4. GoTo(p, "commit", t)
  BY DEF Update
<1> HIDE DEF t
<1>5. /\ tx'[p].pc = "commit" /\ Op(p)' = Op(p) /\ Claim(p)' = c /\ tx'[p].set = tx[p].set
      /\ tx'[p].counted = tx[p].counted /\ tx'[p].read = tx[p].read /\ tx'[p].rows = t.rows
  BY <1>3, <1>4, GoToFacts DEF IInv, Op, Claim
<1>6. /\ UNCHANGED <<db, items, audit, submissions, assignLock>> /\ DOMAIN rowLock' = Claims
      /\ \A d \in Claims : rowLock'[d] = rowLock[d]
  BY <1>1, <1>2 DEF Update, Tables
<1>7. SingleInv(p)'
  BY <1>1, <1>2, <1>3, <1>5, <1>6 DEF SingleInv, Single, Reading
<1>8. TxInv(p)'
  BY <1>1, <1>5, <1>6, <1>7 DEF TxInv, BulkInv, CountInv
<1> QED BY <1>1, <1>3, <1>4, <1>6, <1>8, Progress DEF PCs

(* What a bulk reassignment knows at a statement of its own. *)
LEMMA BulkFacts ==
  ASSUME IInv, NEW p \in Requests, tx[p].pc \in {"scan", "move"}
  PROVE  /\ Op(p) \in Operations /\ IsBulk(Op(p)) /\ DOMAIN tx[p] = Fields
         /\ DOMAIN rowLock = Claims /\ BulkInv(p) /\ CountInv(p) /\ InFlight(p)
<1>1. InFlight(p) /\ TxInv(p) /\ BaseInv
  BY DEF InFlight, IInv
<1> QED BY <1>1 DEF BaseInv, TxInv, SingleInv, Single, Reading

(* Scan reads without a lock; what it read may be old at once. *)
LEMMA ScanInv ==
  ASSUME IInv, NEW p \in Requests, Scan(p)
  PROVE  IInv'
<1> DEFINE found == {c \in Claims : InScan(Op(p), c)}
<1>1. /\ Op(p) \in Operations /\ IsBulk(Op(p)) /\ DOMAIN tx[p] = Fields
      /\ DOMAIN rowLock = Claims /\ BulkInv(p) /\ CountInv(p) /\ InFlight(p)
  BY BulkFacts DEF Scan
<1>2. CASE Rollback(p)
  BY <1>2, RollbackInv
<1>3. CASE ~Rollback(p)
  <2>0. /\ \A c \in found : Accepts(Op(p), db[c], items[c])
        /\ UNCHANGED <<db, items, audit, submissions, rowLock, assignLock>>
    BY <1>3 DEF Scan, Tables, Locks
  <2>9. PICK order \in Orders(found) :
          GoTo(p, "move", [tx[p] EXCEPT
            !.todo = found, !.order = order, !.read = [c \in found |-> db[c]]])
    BY <1>3 DEF Scan
  <2> DEFINE t == [tx[p] EXCEPT !.todo = found, !.order = order, !.read = [c \in found |-> db[c]]]
  <2>1. GoTo(p, "move", t)
    BY <2>9
  <2>2. ASSUME NEW c \in found PROVE IsReassignableBy(db[c], Op(p).user) /\ DOMAIN db[c] = Columns
    <3>1. Accepts(Op(p), db[c], items[c])
      BY <2>0
    <3> QED BY <1>1, <3>1 DEF Accepts, IsBulk, IInv, RowsInv, IsConsistent
  <2>3. found \subseteq Claims
    OBVIOUS
  <2> HIDE DEF found
  <2>4. /\ DOMAIN t = Fields /\ t.op = Op(p) /\ t.counted = tx[p].counted /\ t.set = tx[p].set
        /\ t.rows = tx[p].rows /\ t.todo = found /\ t.read = [c \in found |-> db[c]]
    BY <1>1 DEF Fields, Op
  <2> HIDE DEF t
  <2>5. /\ tx'[p].pc = "move" /\ Op(p)' = Op(p) /\ tx'[p].set = tx[p].set
        /\ tx'[p].rows = tx[p].rows /\ tx'[p].todo = found
        /\ tx'[p].counted = tx[p].counted /\ tx'[p].read = [c \in found |-> db[c]]
    BY <2>1, <2>4, GoToFacts DEF IInv, Op
  <2>6. tx[p].set = <<>> /\ DOMAIN tx[p].rows = {}
    BY <1>1 DEF BulkInv, Scan
  <2>7. BulkInv(p)'
    BY <1>1, <2>0, <2>2, <2>3, <2>5, <2>6 DEF BulkInv
  <2>8. TxInv(p)'
    BY <1>1, <2>0, <2>5, <2>7 DEF TxInv, SingleInv, CountInv
  <2> QED BY <1>1, <2>0, <2>1, <2>4, <2>8, Progress DEF PCs
<1> QED BY <1>2, <1>3

(* MoveClaim locks the claim, and finds it as it was read or gives up. *)
LEMMA MoveClaimInv ==
  ASSUME IInv, NEW p \in Requests, NEW c \in Claims, MoveClaim(p, c)
  PROVE  IInv'
<1> DEFINE new == Over([assignedApprover |-> Op(p).to], db[c])
           rows == Over([d \in {c} |-> Over([assignedApprover |-> Op(p).to], db[d])], tx[p].rows)
           t == [tx[p] EXCEPT !.todo = @ \ {c}, !.rows = rows]
<1>1. /\ Op(p) \in Operations /\ IsBulk(Op(p)) /\ DOMAIN tx[p] = Fields
      /\ DOMAIN rowLock = Claims /\ BulkInv(p) /\ CountInv(p) /\ InFlight(p)
  BY BulkFacts DEF MoveClaim
<1>2. CASE ~StillAsRead(p, c)
  BY <1>2, RollbackInv DEF MoveClaim
<1>3. CASE StillAsRead(p, c)
  <2>1. /\ GoTo(p, "move", t) /\ UNCHANGED <<db, items, audit, submissions, assignLock>>
        /\ rowLock' = [rowLock EXCEPT ![c] = p] /\ rowLock[c] \in {None, p}
    BY <1>3 DEF MoveClaim, CanUpdate, Tables
  <2>2. c \in tx[p].todo
    BY DEF MoveClaim, NextToMove
  <2>3. /\ DOMAIN tx[p].read[c] = Columns /\ tx[p].read[c].status = db[c].status
        /\ IsReassignableBy(db[c], Op(p).user)
    BY <1>1, <1>3, <2>2 DEF BulkInv, StillAsRead, IsReassignableBy, IsReassignable
  <2>4. /\ DOMAIN rows = {c} \cup DOMAIN tx[p].rows /\ rows[c] = new
        /\ \A d \in DOMAIN tx[p].rows : d # c => rows[d] = tx[p].rows[d]
    <3> DEFINE one == [d \in {c} |-> Over([assignedApprover |-> Op(p).to], db[d])]
    <3>1. DOMAIN one = {c} /\ one[c] = new /\ rows = Over(one, tx[p].rows)
      OBVIOUS
    <3> HIDE DEF one, new, rows
    <3>2. rows = [x \in {c} \cup DOMAIN tx[p].rows |-> IF x \in {c} THEN one[x] ELSE tx[p].rows[x]]
      BY <3>1 DEF Over
    <3> QED BY <3>1, <3>2
  <2> HIDE DEF rows, new
  <2>5. /\ DOMAIN t = Fields /\ t.op = Op(p) /\ t.counted = tx[p].counted /\ t.set = tx[p].set
        /\ t.rows = rows /\ t.todo = tx[p].todo \ {c} /\ t.read = tx[p].read
    BY <1>1 DEF Fields, Op
  <2> HIDE DEF t
  <2>6. /\ tx'[p].pc = "move" /\ Op(p)' = Op(p) /\ tx'[p].set = tx[p].set
        /\ tx'[p].rows = rows /\ tx'[p].todo = tx[p].todo \ {c}
        /\ tx'[p].counted = tx[p].counted /\ tx'[p].read = tx[p].read
    BY <2>1, <2>5, GoToFacts DEF IInv, Op
  <2>7. /\ DOMAIN rowLock' = Claims /\ rowLock'[c] = p
        /\ \A d \in Claims : d # c => rowLock'[d] = rowLock[d]
    BY <1>1, <2>1
  <2>8. BulkInv(p)'
    <3>1. DOMAIN rows \subseteq Claims /\ tx[p].set = <<>>
      BY <1>1, <2>4 DEF BulkInv
    <3>2. ASSUME NEW d \in tx'[p].todo
          PROVE  d \in Claims /\ DOMAIN tx'[p].read[d] = Columns /\ IsReassignableBy(tx'[p].read[d], Op(p).user)
      BY <1>1, <2>6, <3>2 DEF BulkInv
    <3>3. ASSUME NEW d \in DOMAIN rows
          PROVE  /\ rowLock'[d] = p
                 /\ DOMAIN tx[p].read[d] = Columns /\ tx[p].read[d].status = db[d].status
                 /\ IsReassignableBy(db[d], Op(p).user)
                 /\ rows[d] = Over([assignedApprover |-> Op(p).to], db[d])
      <4>1. CASE d = c
        BY <2>3, <2>4, <2>7, <4>1 DEF new
      <4>2. CASE d # c
        BY <1>1, <2>4, <2>7, <3>1, <4>2 DEF BulkInv
      <4> QED BY <4>1, <4>2
    <3> QED BY <1>1, <2>1, <2>6, <3>1, <3>2, <3>3 DEF BulkInv
  <2>9. TxInv(p)'
    BY <1>1, <2>1, <2>6, <2>8 DEF TxInv, SingleInv, CountInv
  <2>10. \A d \in Claims : rowLock[d] \in Requests \ {p} => rowLock'[d] = rowLock[d]
    BY <2>1, <2>7, RequestsAssumption
  <2> QED BY <1>1, <2>1, <2>5, <2>7, <2>9, <2>10, Progress DEF PCs
<1> QED BY <1>2, <1>3

(* FinishMoves changes nothing but where the request is. *)
LEMMA FinishMovesInv ==
  ASSUME IInv, NEW p \in Requests, FinishMoves(p)
  PROVE  IInv'
<1>1. /\ Op(p) \in Operations /\ IsBulk(Op(p)) /\ DOMAIN tx[p] = Fields
      /\ DOMAIN rowLock = Claims /\ BulkInv(p) /\ CountInv(p) /\ InFlight(p)
  BY BulkFacts DEF FinishMoves
<1>2. /\ tx'[p].pc = "commit" /\ Op(p)' = Op(p) /\ tx'[p].set = tx[p].set
      /\ tx'[p].rows = tx[p].rows /\ tx'[p].todo = tx[p].todo
      /\ tx'[p].counted = tx[p].counted /\ tx'[p].read = tx[p].read
  BY <1>1, GoToFacts DEF FinishMoves, IInv, Op
<1>3. UNCHANGED <<db, items, audit, submissions, rowLock, assignLock>>
  BY DEF FinishMoves, Tables, Locks
<1>4. BulkInv(p)'
  BY <1>1, <1>2, <1>3 DEF FinishMoves, BulkInv
<1>5. TxInv(p)'
  BY <1>1, <1>2, <1>3, <1>4 DEF TxInv, SingleInv, CountInv
<1> QED BY <1>1, <1>3, <1>5, Progress DEF FinishMoves, PCs, Op

(* Commit: what its operation found acceptable, for each row it writes.    *)
LEMMA CommitFacts ==
  ASSUME IInv, NEW p \in Requests, Commit(p)
  PROVE  /\ Op(p) \in Operations /\ DOMAIN tx[p].rows \subseteq Claims
         /\ DOMAIN db' = Claims /\ DOMAIN audit' = Claims /\ DOMAIN items' = Claims
         /\ \A c \in DOMAIN tx[p].rows : rowLock[c] = p
         /\ \A c \in Claims : db'[c] = IF c \in DOMAIN tx[p].rows THEN tx[p].rows[c] ELSE db[c]
         /\ \A c \in Claims \ DOMAIN tx[p].rows : audit'[c] = audit[c] /\ items'[c] = items[c]
         /\ \A c \in DOMAIN tx[p].rows :
              audit'[c] = [by |-> Op(p).user, old |-> tx[p].read[c].status,
                           new |-> Over(tx[p].set, tx[p].read[c]).status]
         /\ IsBulk(Op(p)) => items' = items
         /\ ~IsBulk(Op(p)) =>
              /\ Claim(p) \in Claims /\ DOMAIN tx[p].rows = {Claim(p)}
              /\ items'[Claim(p)] = ItemsAfter(Op(p), items[Claim(p)])
<1>1. InFlight(p) /\ TxInv(p) /\ BaseInv
  BY DEF InFlight, IInv, Commit
<1>2. Op(p) \in Operations
  BY <1>1 DEF BaseInv
<1>3. ~IsBulk(Op(p)) => Claim(p) \in Claims /\ DOMAIN tx[p].rows = {Claim(p)} /\ rowLock[Claim(p)] = p
  BY <1>1, <1>2, ClaimOfSingle DEF Commit, TxInv, SingleInv
<1>4. DOMAIN tx[p].rows \subseteq Claims /\ \A c \in DOMAIN tx[p].rows : rowLock[c] = p
  BY <1>1, <1>3 DEF TxInv, BulkInv
<1>5. /\ DOMAIN db' = Claims
      /\ \A c \in Claims : db'[c] = IF c \in DOMAIN tx[p].rows THEN tx[p].rows[c] ELSE db[c]
  <2>1. db' = Over(tx[p].rows, db) /\ DOMAIN db = Claims
    BY <1>1 DEF Commit, BaseInv
  <2> QED BY <1>4, <2>1 DEF Over
<1>6. /\ DOMAIN audit' = Claims
      /\ \A c \in Claims \ DOMAIN tx[p].rows : audit'[c] = audit[c]
      /\ \A c \in DOMAIN tx[p].rows :
           audit'[c] = [by |-> Op(p).user, old |-> tx[p].read[c].status,
                        new |-> Over(tx[p].set, tx[p].read[c]).status]
  <2> DEFINE added == [c \in DOMAIN tx[p].rows |->
                         [by |-> Op(p).user, old |-> tx[p].read[c].status,
                          new |-> Over(tx[p].set, tx[p].read[c]).status]]
  <2>1. audit' = Over(added, audit) /\ DOMAIN audit = Claims
    BY <1>1 DEF Commit, BaseInv, Op
  <2>2. DOMAIN added = DOMAIN tx[p].rows
    OBVIOUS
  <2>3. \A c \in DOMAIN tx[p].rows :
          added[c] = [by |-> Op(p).user, old |-> tx[p].read[c].status,
                      new |-> Over(tx[p].set, tx[p].read[c]).status]
    OBVIOUS
  <2> HIDE DEF added
  <2>4. audit' = [x \in DOMAIN added \cup Claims |-> IF x \in DOMAIN added THEN added[x] ELSE audit[x]]
    BY <2>1 DEF Over
  <2> QED BY <1>4, <2>2, <2>3, <2>4
<1>7. CASE IsBulk(Op(p))
  <2>1. items' = items
    BY <1>7 DEF Commit, Op
  <2> QED BY <1>1, <1>2, <1>4, <1>5, <1>6, <1>7, <2>1 DEF BaseInv
<1>8. CASE ~IsBulk(Op(p))
  <2>1. items' = [items EXCEPT ![Claim(p)] = ItemsAfter(Op(p), items[Claim(p)])] /\ DOMAIN items = Claims
    BY <1>1, <1>8 DEF Commit, Op, BaseInv
  <2>2. DOMAIN items' = Claims /\ items'[Claim(p)] = ItemsAfter(Op(p), items[Claim(p)])
    BY <1>3, <1>8, <2>1
  <2>3. \A c \in Claims \ {Claim(p)} : items'[c] = items[c]
    BY <2>1
  <2> QED BY <1>2, <1>3, <1>4, <1>5, <1>6, <1>8, <2>2, <2>3
<1> QED BY <1>7, <1>8

(* What the committed row of an operation on one claim is.                 *)
LEMMA SingleCommit ==
  ASSUME IInv, NEW p \in Requests, Commit(p), ~IsBulk(Op(p))
  PROVE  LET c == Claim(p) IN
         /\ tx[p].read[c] = db[c] /\ Accepts(Op(p), db[c], items[c])
         /\ \E a : tx[p].set = Sets(Op(p), db[c], items[c], a)
         /\ tx[p].rows[c] = Over(tx[p].set, db[c])
<1> QED BY DEF IInv, TxInv, SingleInv, Commit, InFlight, Reading

(* What the columns of that row are, by operation.                         *)
LEMMA RowWritten ==
  ASSUME NEW op \in Operations, ~IsBulk(op), NEW r, DOMAIN r = Columns, NEW its, NEW a,
         NEW s, s = Over(Sets(op, r, its, a), r)
  PROVE  /\ DOMAIN s = Columns
         /\ op.kind \in {"AddItem", "DeleteItem"} =>
              /\ s.total = Cardinality(ItemsAfter(op, its)) /\ s.status = r.status
              /\ s.assignedApprover = r.assignedApprover
              /\ s.approverApprovedBy = r.approverApprovedBy /\ s.decidedBy = r.decidedBy
         /\ op.kind \in {"Submit", "Resubmit"} =>
              /\ s.status = "PENDING_APPROVAL" /\ s.total = Cardinality(its)
              /\ s.approverApprovedBy = None /\ s.decidedBy = None
         /\ op.kind \notin {"AddItem", "DeleteItem", "Submit", "Resubmit"} => s.total = r.total
         /\ op.kind \notin {"Submit", "Resubmit", "Reassign"} =>
              s.assignedApprover = r.assignedApprover
         /\ op.kind = "Cancel" => s.status = "CANCELLED"
         /\ op.kind = "Reject" => s.status = "REJECTED"
         /\ op.kind = "RequestInfo" => s.status = "INFO_REQUESTED"
         /\ op.kind = "Respond" =>
              s.status = IF r.status # "INFO_REQUESTED" THEN r.status
                         ELSE IF IsAtFinanceStage(r) THEN "PENDING_FINANCE_APPROVAL"
                         ELSE "PENDING_APPROVAL"
         /\ op.kind = "Reassign" => s.status = r.status
         /\ op.kind \in {"Cancel", "Reject", "RequestInfo", "Respond", "Reassign"} =>
              s.approverApprovedBy = r.approverApprovedBy
         /\ op.kind \in {"Cancel", "RequestInfo", "Respond", "Reassign"} => s.decidedBy = r.decidedBy
         /\ op.kind = "Approve" =>
              IF Role[op.user] # "FINANCE" /\ ~IsAtFinanceStage(r) /\ RequiresFinanceApproval(r.total)
              THEN s.status = "PENDING_FINANCE_APPROVAL" /\ s.approverApprovedBy = op.user
              ELSE /\ s.status = "APPROVED" /\ s.decidedBy = op.user
                   /\ s.approverApprovedBy = r.approverApprovedBy
<1> DEFINE set == Sets(op, r, its, a)
<1>0. op.kind \in Kinds
  BY OperationsAssumption
<1>1. ASSUME DOMAIN set \subseteq Columns
      PROVE  /\ DOMAIN s = Columns
             /\ \A x \in DOMAIN set : s[x] = set[x]
             /\ \A x \in Columns \ DOMAIN set : s[x] = r[x]
  <2> HIDE DEF set
  <2>1. s = [x \in DOMAIN set \cup Columns |-> IF x \in DOMAIN set THEN set[x] ELSE r[x]]
    BY DEF Over, set
  <2> QED BY <1>1, <2>1
<1>2. CASE op.kind \in {"AddItem", "DeleteItem"}
  <2>1. set = [total |-> Cardinality(ItemsAfter(op, its))]
    BY <1>2 DEF Sets
  <2> HIDE DEF set
  <2>2. DOMAIN set = {"total"} /\ set.total = Cardinality(ItemsAfter(op, its))
    BY <2>1
  <2> QED BY <1>1, <1>2, <2>2 DEF Columns
<1>3. CASE op.kind \in {"Submit", "Resubmit"}
  <2>1. set = [status |-> "PENDING_APPROVAL", assignedApprover |-> a, decidedBy |-> None,
               approverApprovedBy |-> None, total |-> Cardinality(its)]
    BY <1>3 DEF Sets
  <2> HIDE DEF set
  <2>2. /\ DOMAIN set = {"status", "assignedApprover", "decidedBy", "approverApprovedBy", "total"}
        /\ set.status = "PENDING_APPROVAL" /\ set.decidedBy = None
        /\ set.approverApprovedBy = None /\ set.total = Cardinality(its)
    BY <2>1
  <2> QED BY <1>1, <1>3, <2>2 DEF Columns
<1>4. CASE op.kind \in {"Cancel", "RequestInfo", "Respond"}
  <2> DEFINE new == IF op.kind = "Cancel" THEN "CANCELLED"
                   ELSE IF op.kind = "RequestInfo" THEN "INFO_REQUESTED"
                   ELSE IF r.status # "INFO_REQUESTED" THEN r.status
                   ELSE IF IsAtFinanceStage(r) THEN "PENDING_FINANCE_APPROVAL"
                   ELSE "PENDING_APPROVAL"
  <2>1. set = [status |-> new]
    BY <1>4 DEF Sets
  <2> HIDE DEF set
  <2>2. DOMAIN set = {"status"} /\ set.status = new
    BY <2>1
  <2> QED BY <1>1, <1>4, <2>2 DEF Columns
<1>5. CASE op.kind = "Reject"
  <2>1. set = [status |-> "REJECTED", decidedBy |-> op.user]
    BY <1>5 DEF Sets
  <2> HIDE DEF set
  <2>2. DOMAIN set = {"status", "decidedBy"} /\ set.status = "REJECTED"
    BY <2>1
  <2> QED BY <1>1, <1>5, <2>2 DEF Columns
<1>6. CASE op.kind = "Reassign"
  <2>1. set = [assignedApprover |-> op.to]
    BY <1>6 DEF Sets
  <2> HIDE DEF set
  <2>2. DOMAIN set = {"assignedApprover"}
    BY <2>1
  <2> QED BY <1>1, <1>6, <2>2 DEF Columns
<1>7. CASE op.kind = "Approve"
  <2> DEFINE esc == Role[op.user] # "FINANCE" /\ ~IsAtFinanceStage(r) /\ RequiresFinanceApproval(r.total)
  <2>1. set = IF esc THEN [status |-> "PENDING_FINANCE_APPROVAL", approverApprovedBy |-> op.user]
              ELSE [status |-> "APPROVED", decidedBy |-> op.user]
    BY <1>7 DEF Sets
  <2> HIDE DEF set, esc
  <2>2. CASE esc
    <3>1. /\ DOMAIN set = {"status", "approverApprovedBy"}
          /\ set.status = "PENDING_FINANCE_APPROVAL" /\ set.approverApprovedBy = op.user
      BY <2>1, <2>2
    <3> QED BY <1>1, <1>7, <2>2, <3>1 DEF Columns, esc
  <2>3. CASE ~esc
    <3>1. /\ DOMAIN set = {"status", "decidedBy"}
          /\ set.status = "APPROVED" /\ set.decidedBy = op.user
      BY <2>1, <2>3
    <3> QED BY <1>1, <1>7, <2>3, <3>1 DEF Columns, esc
  <2> QED BY <2>2, <2>3
<1> QED BY <1>0, <1>2, <1>3, <1>4, <1>5, <1>6, <1>7 DEF Kinds, IsBulk

(* The row of a bulk move. *)
LEMMA RowMoved ==
  ASSUME NEW r, DOMAIN r = Columns, NEW to, NEW s, s = Over([assignedApprover |-> to], r)
  PROVE  /\ DOMAIN s = Columns /\ s.status = r.status /\ s.total = r.total
         /\ s.approverApprovedBy = r.approverApprovedBy /\ s.decidedBy = r.decidedBy
<1> DEFINE set == [assignedApprover |-> to]
<1>1. DOMAIN set = {"assignedApprover"}
  OBVIOUS
<1> HIDE DEF set
<1>2. s = [x \in DOMAIN set \cup Columns |-> IF x \in DOMAIN set THEN set[x] ELSE r[x]]
  BY DEF Over, set
<1>3. DOMAIN s = {"assignedApprover"} \cup Columns /\ \A x \in Columns \ {"assignedApprover"} : s[x] = r[x]
  BY <1>1, <1>2
<1> QED BY <1>3 DEF Columns

(* The rows a commit writes are as ClaimLifecycle would show them.         *)
LEMMA CommitRowsInv ==
  ASSUME IInv, NEW p \in Requests, Commit(p)
  PROVE  RowsInv'
<1> SUFFICES ASSUME NEW c \in Claims PROVE IsConsistent(db[c], items[c])'
  BY DEF RowsInv
<1>1. IsConsistent(db[c], items[c])
  BY DEF IInv, RowsInv
<1>2. /\ Op(p) \in Operations
      /\ db'[c] = IF c \in DOMAIN tx[p].rows THEN tx[p].rows[c] ELSE db[c]
      /\ c \notin DOMAIN tx[p].rows => items'[c] = items[c]
      /\ IsBulk(Op(p)) => items' = items
      /\ ~IsBulk(Op(p)) =>
           /\ DOMAIN tx[p].rows = {Claim(p)}
           /\ items'[Claim(p)] = ItemsAfter(Op(p), items[Claim(p)])
  BY CommitFacts
<1>3. CASE c \notin DOMAIN tx[p].rows
  BY <1>1, <1>2, <1>3
<1>4. CASE c \in DOMAIN tx[p].rows /\ IsBulk(Op(p))
  <2>1. db'[c] = Over([assignedApprover |-> Op(p).to], db[c])
    BY <1>2, <1>4 DEF IInv, TxInv, BulkInv, Commit, InFlight
  <2>2. /\ DOMAIN db'[c] = Columns /\ db'[c].status = db[c].status /\ db'[c].total = db[c].total
        /\ db'[c].approverApprovedBy = db[c].approverApprovedBy
    BY <1>1, <2>1, RowMoved DEF IsConsistent
  <2> QED BY <1>1, <1>2, <1>4, <2>2 DEF IsConsistent
<1>5. CASE c \in DOMAIN tx[p].rows /\ ~IsBulk(Op(p))
  <2> DEFINE op == Op(p)
             r == db[c]
             its == items[c]
             s == db'[c]
  <2>1. c = Claim(p) /\ db'[c] = tx[p].rows[c] /\ items'[c] = ItemsAfter(op, its)
    BY <1>2, <1>5
  <2>2. \E a : s = Over(Sets(op, r, its, a), r)
    BY <1>5, <2>1, SingleCommit
  <2>3. op \in Operations /\ op.kind \in Kinds /\ op.user # None /\ ~IsBulk(op)
    BY <1>2, <1>5, OperationsAssumption, NoneAssumption
  <2>4. /\ op.kind = "AddItem" => op.item \in ItemIds
        /\ DOMAIN r = Columns /\ its \subseteq ItemIds /\ r.total = Cardinality(its)
        /\ r.status = "PENDING_APPROVAL" => r.approverApprovedBy = None
        /\ r.status = "PENDING_FINANCE_APPROVAL" => r.approverApprovedBy # None
    BY <1>1, <2>3, OperationsAssumption DEF IsConsistent
  <2> HIDE DEF op, r, its, s
  <2> SUFFICES IsConsistent(s, ItemsAfter(op, its))
    BY <2>1 DEF s
  <2>5. /\ ItemsAfter(op, its) \subseteq ItemIds
        /\ op.kind \notin {"AddItem", "DeleteItem"} => ItemsAfter(op, its) = its
    BY <2>3, <2>4 DEF ItemsAfter
  <2>6. PICK a : s = Over(Sets(op, r, its, a), r)
    BY <2>2
  <2>7. CASE op.kind \in {"AddItem", "DeleteItem"}
    <3>1. /\ DOMAIN s = Columns /\ s.total = Cardinality(ItemsAfter(op, its)) /\ s.status = r.status
          /\ s.approverApprovedBy = r.approverApprovedBy
      BY <2>3, <2>4, <2>6, <2>7, RowWritten
    <3> QED BY <2>4, <2>5, <3>1 DEF IsConsistent
  <2>8. CASE op.kind \in {"Submit", "Resubmit"}
    <3>1. /\ DOMAIN s = Columns /\ s.total = Cardinality(its) /\ s.status = "PENDING_APPROVAL"
          /\ s.approverApprovedBy = None
      BY <2>3, <2>4, <2>6, <2>8, RowWritten
    <3> QED BY <2>4, <2>5, <2>8, <3>1 DEF IsConsistent
  <2>9. CASE op.kind \in {"Cancel", "Reject", "RequestInfo", "Respond", "Reassign"}
    <3>1. /\ DOMAIN s = Columns /\ s.total = r.total /\ s.approverApprovedBy = r.approverApprovedBy
          /\ op.kind = "Cancel" => s.status = "CANCELLED"
          /\ op.kind = "Reject" => s.status = "REJECTED"
          /\ op.kind = "RequestInfo" => s.status = "INFO_REQUESTED"
          /\ op.kind = "Respond" =>
               s.status = IF r.status # "INFO_REQUESTED" THEN r.status
                          ELSE IF IsAtFinanceStage(r) THEN "PENDING_FINANCE_APPROVAL"
                          ELSE "PENDING_APPROVAL"
          /\ op.kind = "Reassign" => s.status = r.status
      BY <2>3, <2>4, <2>6, <2>9, RowWritten
    <3>2. /\ s.status = "PENDING_APPROVAL" => s.approverApprovedBy = None
          /\ s.status = "PENDING_FINANCE_APPROVAL" => s.approverApprovedBy # None
      BY <2>4, <2>9, <3>1 DEF IsAtFinanceStage
    <3> QED BY <2>4, <2>5, <2>9, <3>1, <3>2 DEF IsConsistent
  <2>10. CASE op.kind = "Approve"
    <3>1. /\ DOMAIN s = Columns /\ s.total = r.total
          /\ \/ s.status = "PENDING_FINANCE_APPROVAL" /\ s.approverApprovedBy = op.user
             \/ s.status = "APPROVED"
      BY <2>3, <2>4, <2>6, <2>10, RowWritten
    <3> QED BY <2>3, <2>4, <2>5, <2>10, <3>1 DEF IsConsistent
  <2> QED BY <2>3, <2>7, <2>8, <2>9, <2>10 DEF Kinds, IsBulk
<1> QED BY <1>3, <1>4, <1>5

(* A commit touches nothing another transaction has locked or counted.     *)
LEMMA CommitInv ==
  ASSUME IInv, NEW p \in Requests, Commit(p)
  PROVE  IInv'
<1> DEFINE t == [NewTx EXCEPT !.op = tx[p].op]
<1>1. GoTo(p, "done", t) /\ DOMAIN t = Fields /\ t.counted = None
  BY DEF Commit, NewTx, Fields
<1> HIDE DEF t
<1>2. /\ DOMAIN tx' = Requests /\ DOMAIN tx'[p] = Fields /\ tx'[p].pc = "done" /\ tx'[p].counted = None
      /\ \A q \in Requests \ {p} : tx'[q] = tx[q]
  BY <1>1, GoToFacts DEF IInv
<1>3. /\ DOMAIN rowLock' = Claims
      /\ \A c \in Claims : rowLock'[c] = IF rowLock[c] = p THEN None ELSE rowLock[c]
      /\ assignLock' = IF assignLock = p THEN None ELSE assignLock
      /\ submissions' = IF tx[p].counted # None THEN submissions + 1 ELSE submissions
  BY DEF Commit, ReleaseLocks
<1>4. BaseInv'
  <2>1. submissions' \in Nat
    BY <1>3 DEF IInv, BaseInv
  <2> QED BY <1>2, <1>3, <2>1, CommitFacts DEF IInv, BaseInv, InFlight, Op, PCs
<1>5. ASSUME NEW q \in Requests PROVE TxInv(q)'
  <2>1. CASE q = p
    BY <1>2, <2>1 DEF TxInv, SingleInv, BulkInv, CountInv, InFlight
  <2>2. CASE q # p
    <3>1. ASSUME NEW c \in Claims, rowLock[c] = q
          PROVE  rowLock'[c] = q /\ db'[c] = db[c] /\ items'[c] = items[c]
      BY <1>3, <2>2, <3>1, CommitFacts
    <3>2. assignLock = q => assignLock' = q
      BY <1>3, <2>2
    <3>3. tx[q].counted # None => submissions' = submissions
      BY <1>3, <2>2 DEF IInv, TxInv, CountInv
    <3> QED BY <1>2, <2>2, <3>1, <3>2, <3>3, Bystander DEF IInv
  <2> QED BY <2>1, <2>2
<1> QED BY <1>4, <1>5, CommitRowsInv DEF IInv

-----------------------------------------------------------------------------
(* The invariant holds in every reachable state.                           *)

LEMMA InitInv == Init => IInv
<1> SUFFICES ASSUME Init PROVE IInv
  OBVIOUS
<1>1. /\ DOMAIN NewTx = Fields /\ NewTx.pc = "idle" /\ NewTx.counted = None
  BY DEF NewTx, Fields
<1>2. BaseInv
  BY <1>1 DEF Init, BaseInv, PCs, InFlight
<1>3. RowsInv
  <2> SUFFICES ASSUME NEW c \in Claims PROVE IsConsistent(db[c], items[c])
    BY DEF RowsInv
  <2>1. PICK start \in InitRows[c] : db[c] = start.row /\ items[c] = start.items
    BY DEF Init
  <2> QED BY <2>1, InitAssumption
<1>4. \A p \in Requests : TxInv(p)
  BY <1>1 DEF Init, TxInv, SingleInv, BulkInv, CountInv, InFlight
<1> QED BY <1>2, <1>3, <1>4 DEF IInv

LEMMA NextInv == IInv /\ [Next]_vars => IInv'
<1> SUFFICES ASSUME IInv, [Next]_vars PROVE IInv'
  OBVIOUS
<1>1. CASE UNCHANGED vars
  <2>1. BaseInv' /\ RowsInv'
    BY <1>1 DEF vars, IInv, BaseInv, RowsInv, InFlight, Op
  <2>2. ASSUME NEW p \in Requests PROVE TxInv(p)'
    BY <1>1, Bystander DEF vars, IInv
  <2> QED BY <2>1, <2>2 DEF IInv
<1>2. ASSUME NEW p \in Requests, NEW op \in Operations, Begin(p, op) PROVE IInv'
  BY <1>2, BeginInv
<1>3. ASSUME NEW p \in Requests, Proceed(p) PROVE IInv'
  BY <1>3, LockRowInv, ReadRowInv, CheckInv, SerializeAssignmentInv, CountLoadsInv, UpdateInv,
     ScanInv, MoveClaimInv, FinishMovesInv, CommitInv, RollbackInv DEF Proceed, Refuse
<1>4. ASSUME NEW p \in Requests, Fail(p) PROVE IInv'
  BY <1>4, RollbackInv DEF Fail
<1> QED BY <1>1, <1>2, <1>3, <1>4 DEF Next

THEOREM Invariance == Spec => []IInv
<1> QED BY InitInv, NextInv, PTL DEF Spec

-----------------------------------------------------------------------------
(* What a step may commit.                                                 *)

(* Only a commit changes the tables. *)
LEMMA OnlyCommits ==
  ASSUME [Next]_vars
  PROVE  UNCHANGED Tables \/ \E p \in Requests : Commit(p)
<1>1. ASSUME NEW p \in Requests, NEW c \in Claims, MoveClaim(p, c) PROVE UNCHANGED Tables
  BY <1>1 DEF MoveClaim, Rollback, Tables
<1>2. ASSUME NEW p \in Requests, Scan(p) PROVE UNCHANGED Tables
  BY <1>2 DEF Scan, Rollback
<1>3. ASSUME NEW p \in Requests, Proceed(p), ~Commit(p) PROVE UNCHANGED Tables
  BY <1>1, <1>2, <1>3 DEF Proceed, LockRow, ReadRow, Check, Refuse, SerializeAssignment, CountLoads,
     Update, FinishMoves, Rollback
<1>4. CASE UNCHANGED vars
  BY <1>4 DEF vars, Tables
<1> QED BY <1>3, <1>4 DEF Next, Begin, Fail, Rollback

(* The audit row of a commit tells the status it replaces and the one it   *)
(* leaves, and only its rows and their audit rows change.                  *)
LEMMA CommitAudits ==
  ASSUME IInv, NEW p \in Requests, Commit(p), NEW c \in Claims
  PROVE  IF c \in DOMAIN tx[p].rows
         THEN audit'[c].by = Op(p).user /\ audit'[c].old = db[c].status
                /\ audit'[c].new = db'[c].status
         ELSE db'[c] = db[c] /\ audit'[c] = audit[c]
<1>1. CASE c \notin DOMAIN tx[p].rows
  BY <1>1, CommitFacts
<1>2. ASSUME c \in DOMAIN tx[p].rows
      PROVE  /\ db'[c] = tx[p].rows[c] /\ audit'[c].by = Op(p).user
             /\ audit'[c].old = tx[p].read[c].status
             /\ audit'[c].new = Over(tx[p].set, tx[p].read[c]).status
  <2>1. db'[c] = tx[p].rows[c]
    BY <1>2, CommitFacts
  <2>2. audit'[c] = [by |-> Op(p).user, old |-> tx[p].read[c].status,
                     new |-> Over(tx[p].set, tx[p].read[c]).status]
    BY <1>2, CommitFacts
  <2> QED BY <2>1, <2>2
<1>3. CASE c \in DOMAIN tx[p].rows /\ ~IsBulk(Op(p))
  <2>1. c = Claim(p)
    BY <1>3, CommitFacts
  <2>2. tx[p].read[c] = db[c] /\ tx[p].rows[c] = Over(tx[p].set, db[c])
    BY <1>3, <2>1, SingleCommit
  <2> QED BY <1>2, <1>3, <2>2
<1>4. CASE c \in DOMAIN tx[p].rows /\ IsBulk(Op(p))
  <2>1. /\ tx[p].set = <<>> /\ DOMAIN tx[p].read[c] = Columns /\ tx[p].read[c].status = db[c].status
        /\ tx[p].rows[c] = Over([assignedApprover |-> Op(p).to], db[c])
    BY <1>4 DEF IInv, TxInv, BulkInv, Commit, InFlight
  <2>2. Over(tx[p].set, tx[p].read[c]).status = db[c].status
    BY <2>1, OverNothing DEF Columns
  <2>3. DOMAIN db[c] = Columns
    BY DEF IInv, RowsInv, IsConsistent
  <2>4. tx[p].rows[c].status = db[c].status
    BY <2>1, <2>3, RowMoved
  <2> QED BY <1>2, <1>4, <2>1, <2>2, <2>4
<1> QED BY <1>1, <1>3, <1>4

(* A bulk commit changes the approver of claims its user may reassign, and *)
(* nothing else of them.                                                   *)
LEMMA BulkCommit ==
  ASSUME IInv, NEW p \in Requests, Commit(p), IsBulk(Op(p)), NEW c \in DOMAIN tx[p].rows
  PROVE  /\ IsReassignableBy(db[c], Op(p).user)
         /\ db'[c].status = db[c].status /\ db'[c].total = db[c].total
         /\ db'[c].approverApprovedBy = db[c].approverApprovedBy
         /\ db'[c].decidedBy = db[c].decidedBy
<1>1. c \in Claims /\ db'[c] = tx[p].rows[c]
  BY CommitFacts
<1>2. /\ IsReassignableBy(db[c], Op(p).user)
      /\ tx[p].rows[c] = Over([assignedApprover |-> Op(p).to], db[c])
  BY DEF IInv, TxInv, BulkInv, Commit, InFlight
<1>3. DOMAIN db[c] = Columns
  BY <1>1 DEF IInv, RowsInv, IsConsistent
<1> QED BY <1>1, <1>2, <1>3, RowMoved

(* The commit of an operation on one claim: it was accepted on the row it  *)
(* replaces.                                                               *)
LEMMA SingleStep ==
  ASSUME IInv, NEW p \in Requests, Commit(p), ~IsBulk(Op(p))
  PROVE  LET c == Claim(p) IN
         /\ c \in Claims /\ DOMAIN tx[p].rows = {c}
         /\ \A d \in Claims \ {c} : db'[d] = db[d]
         /\ Op(p) \in Operations /\ Op(p).kind \in Kinds /\ Op(p).user # None
         /\ DOMAIN db[c] = Columns /\ IsConsistent(db[c], items[c])
         /\ Accepts(Op(p), db[c], items[c])
         /\ \E a : db'[c] = Over(Sets(Op(p), db[c], items[c], a), db[c])
<1>1. /\ Claim(p) \in Claims /\ DOMAIN tx[p].rows = {Claim(p)}
      /\ \A d \in Claims \ {Claim(p)} : db'[d] = db[d]
      /\ Op(p) \in Operations /\ db'[Claim(p)] = tx[p].rows[Claim(p)]
  BY CommitFacts
<1>2. Op(p).kind \in Kinds /\ Op(p).user # None
  BY <1>1, OperationsAssumption, NoneAssumption
<1>3. IsConsistent(db[Claim(p)], items[Claim(p)]) /\ DOMAIN db[Claim(p)] = Columns
  BY <1>1 DEF IInv, RowsInv, IsConsistent
<1> QED BY <1>1, <1>2, <1>3, SingleCommit

-----------------------------------------------------------------------------
(* Theorems.                                                               *)

(* The total a transaction commits is that of the items it commits, however *)
(* edits and decisions interleave.                                         *)
THEOREM TotalsAreSums == Spec => []CommittedTotalIsSum
<1>1. IInv => CommittedTotalIsSum
  BY DEF IInv, RowsInv, IsConsistent, CommittedTotalIsSum
<1> QED BY <1>1, Invariance, PTL

(* No submission works with a count that another submission has outdated.  *)
THEOREM SubmissionsCountFresh == Spec => []CountsAreFresh
<1>1. IInv => CountsAreFresh
  BY DEF IInv, TxInv, CountInv, CountsAreFresh
<1> QED BY <1>1, Invariance, PTL

(* The audit trail of concurrent transactions has no gaps.                 *)
THEOREM AuditHasNoGaps == Spec => AuditTrailIsContinuous
<1> DEFINE Audited == \A c \in Claims : db'[c] # db[c] \/ audit'[c] # audit[c] =>
                        audit'[c].old = db[c].status /\ audit'[c].new = db'[c].status
<1>1. ASSUME IInv, [Next]_vars PROVE Audited
  <2>1. CASE UNCHANGED Tables
    BY <2>1 DEF Tables
  <2>2. ASSUME NEW p \in Requests, Commit(p) PROVE Audited
    BY <1>1, <2>2, CommitAudits
  <2> QED BY <1>1, <2>1, <2>2, OnlyCommits
<1>2. IInv /\ [Next]_vars => [Audited]_vars
  BY <1>1
<1> QED BY <1>2, Invariance, PTL DEF Spec, AuditTrailIsContinuous

(* Who hands a claim over holds it in the row being replaced.              *)
THEOREM HandoversAreByHolder == Spec => OnlyTheHolderHandsOver
<1> DEFINE ByHolder == \A c \in Claims :
             IsInReview(db[c].status) /\ db'[c].assignedApprover # db[c].assignedApprover =>
               IsReassignableBy(db[c], audit'[c].by)
<1>1. ASSUME IInv, NEW p \in Requests, Commit(p), NEW c \in Claims,
             IsInReview(db[c].status), db'[c].assignedApprover # db[c].assignedApprover
      PROVE  IsReassignableBy(db[c], audit'[c].by)
  <2>1. c \in DOMAIN tx[p].rows /\ audit'[c].by = Op(p).user
    BY <1>1, CommitAudits
  <2>2. CASE IsBulk(Op(p))
    BY <1>1, <2>1, <2>2, BulkCommit
  <2>3. CASE ~IsBulk(Op(p))
    <3> DEFINE op == Op(p)
               r == db[c]
               its == items[c]
    <3>1. /\ c = Claim(p) /\ op \in Operations /\ op.kind \in Kinds /\ DOMAIN r = Columns
          /\ Accepts(op, r, its)
          /\ \E a : db'[c] = Over(Sets(op, r, its, a), r)
      BY <1>1, <2>1, <2>3, SingleStep
    <3> HIDE DEF op, r, its
    <3>2. PICK a : db'[c] = Over(Sets(op, r, its, a), r)
      BY <3>1
    <3>3. ~IsBulk(op) /\ IsInReview(r.status) /\ db'[c].assignedApprover # r.assignedApprover
      BY <1>1, <2>3 DEF op, r
    <3>4. op.kind \in {"Submit", "Resubmit", "Reassign"}
      BY <3>1, <3>2, <3>3, RowWritten
    <3>5. op.kind = "Reassign"
      BY <3>1, <3>3, <3>4 DEF Accepts, IsSubmittableStatus, IsInReview
    <3>6. IsReassignableBy(r, op.user)
      BY <3>1, <3>5 DEF Accepts
    <3> QED BY <2>1, <3>6 DEF op, r
  <2> QED BY <2>2, <2>3
<1>2. ASSUME IInv, [Next]_vars PROVE ByHolder
  BY <1>1, <1>2, OnlyCommits DEF Tables
<1>3. IInv /\ [Next]_vars => [ByHolder]_vars
  BY <1>2
<1> QED BY <1>3, Invariance, PTL DEF Spec, OnlyTheHolderHandsOver

-----------------------------------------------------------------------------
(* Every commit is a step of ApprovalWorkflow, or none.                    *)

(* The stage of a row, status by status. *)
LEMMA StageFacts ==
  ASSUME NEW r
  PROVE  /\ r.status \in {"ABSENT", "DRAFT"} => StageOf(r) = "open"
         /\ IsAtFinanceStage(r) => StageOf(r) = "finance"
         /\ r.status = "APPROVED" => StageOf(r) = "accepted"
         /\ r.status = "REJECTED" => StageOf(r) = "returned"
         /\ r.status = "CANCELLED" => StageOf(r) = "withdrawn"
         /\ IsInReview(r.status) /\ ~IsAtFinanceStage(r) => StageOf(r) = "approver"
BY DEF StageOf, IsAtFinanceStage, IsInReview

(* A commit that rewrites one row updates that claim's stage, value and    *)
(* signatures.                                                             *)
LEMMA AbstractUpdate ==
  ASSUME NEW c \in Claims, \A d \in Claims \ {c} : db'[d] = db[d]
  PROVE  /\ [d \in Claims |-> StageOf(db[d])]' =
              [[d \in Claims |-> StageOf(db[d])] EXCEPT ![c] = StageOf(db'[c])]
         /\ [d \in Claims |-> db[d].total]' =
              [[d \in Claims |-> db[d].total] EXCEPT ![c] = db'[c].total]
         /\ [d \in Claims |-> SignaturesOf(db[d])]' =
              [[d \in Claims |-> SignaturesOf(db[d])] EXCEPT ![c] = SignaturesOf(db'[c])]
OBVIOUS

(* A commit the workflow does not see. *)
LEMMA AbstractStutter ==
  ASSUME \A d \in Claims : /\ StageOf(db'[d]) = StageOf(db[d]) /\ db'[d].total = db[d].total
                           /\ SignaturesOf(db'[d]) = SignaturesOf(db[d])
  PROVE  UNCHANGED Workflow!vars
BY DEF Workflow!vars

(* The total of any set of line items is a value of the workflow. *)
LEMMA TotalsAreValues ==
  ASSUME NEW its \in SUBSET ItemIds
  PROVE  Cardinality(its) \in 0..Cardinality(ItemIds)
<1>1. /\ IsFiniteSet(its) /\ Cardinality(its) \in Nat /\ Cardinality(ItemIds) \in Nat
      /\ Cardinality(its) <= Cardinality(ItemIds)
  BY ItemsAssumption, FS_Subset, FS_CardinalityType
<1> QED BY <1>1

(* A signature, seen from the workflow. *)
LEMMA AbstractSignature ==
  ASSUME NEW c \in Claims, \A d \in Claims \ {c} : db'[d] = db[d], db'[c].total = db[c].total
  PROVE  /\ /\ StageOf(db[c]) = "approver"
            /\ StageOf(db'[c]) = IF db[c].total > Threshold THEN "finance" ELSE "accepted"
            /\ SignaturesOf(db'[c]) = SignaturesOf(db[c]) \cup {"APPROVER"}
            => Workflow!ApproverSigns(c)
         /\ /\ StageOf(db[c]) \in {"approver", "finance"}
            /\ StageOf(db'[c]) = "accepted"
            /\ SignaturesOf(db'[c]) = SignaturesOf(db[c]) \cup {"FINANCE"}
            => Workflow!FinanceSigns(c)
<1>1. UNCHANGED [d \in Claims |-> db[d].total]
  OBVIOUS
<1>2. ASSUME StageOf(db[c]) = "approver",
             StageOf(db'[c]) = IF db[c].total > Threshold THEN "finance" ELSE "accepted",
             SignaturesOf(db'[c]) = SignaturesOf(db[c]) \cup {"APPROVER"}
      PROVE  Workflow!ApproverSigns(c)
  BY <1>1, <1>2 DEF Workflow!ApproverSigns
<1>3. ASSUME StageOf(db[c]) \in {"approver", "finance"}, StageOf(db'[c]) = "accepted",
             SignaturesOf(db'[c]) = SignaturesOf(db[c]) \cup {"FINANCE"}
      PROVE  Workflow!FinanceSigns(c)
  BY <1>1, <1>3 DEF Workflow!FinanceSigns
<1> QED BY <1>2, <1>3

(* A step of the workflow for one claim. *)
LEMMA WorkflowStep ==
  ASSUME NEW c \in Claims,
         \/ Workflow!Amend(c)        \/ Workflow!Present(c) \/ Workflow!ApproverSigns(c)
         \/ Workflow!FinanceSigns(c) \/ Workflow!Return(c)  \/ Workflow!Withdraw(c)
  PROVE  Workflow!Next
BY DEF Workflow!Next

(* The commit of an operation on one claim. *)
LEMMA SingleRefines ==
  ASSUME IInv, IInv', NEW p \in Requests, Commit(p), ~IsBulk(Op(p)), NEW c, c = Claim(p)
  PROVE  [Workflow!Next]_(Workflow!vars)
<1> DEFINE op == Op(p)
           r == db[c]
           s == db'[c]
           its == items[c]
<1>1. /\ c \in Claims /\ \A d \in Claims \ {c} : db'[d] = db[d]
      /\ op \in Operations /\ op.kind \in Kinds /\ op.user # None /\ ~IsBulk(op)
      /\ DOMAIN r = Columns /\ IsConsistent(r, its) /\ Accepts(op, r, its)
      /\ \E a : s = Over(Sets(op, r, its, a), r)
  BY SingleStep
<1>2. s.total \in 0..Cardinality(ItemIds)
  <2>1. s.total = Cardinality(items'[c]) /\ items'[c] \in SUBSET ItemIds
    BY <1>1 DEF IInv, RowsInv, IsConsistent
  <2> QED BY <2>1, TotalsAreValues
<1>3. ASSUME StageOf(s) = StageOf(r), s.total = r.total, SignaturesOf(s) = SignaturesOf(r)
      PROVE  UNCHANGED Workflow!vars
  BY <1>1, <1>3, AbstractStutter
<1> HIDE DEF op, r, s, its
<1>0. c \in Claims
  BY <1>1
<1>4. /\ [d \in Claims |-> StageOf(db[d])]' = [[d \in Claims |-> StageOf(db[d])] EXCEPT ![c] = StageOf(s)]
      /\ [d \in Claims |-> db[d].total]' = [[d \in Claims |-> db[d].total] EXCEPT ![c] = s.total]
      /\ [d \in Claims |-> SignaturesOf(db[d])]' =
           [[d \in Claims |-> SignaturesOf(db[d])] EXCEPT ![c] = SignaturesOf(s)]
      /\ [d \in Claims |-> StageOf(db[d])][c] = StageOf(r)
      /\ [d \in Claims |-> db[d].total][c] = r.total
      /\ [d \in Claims |-> SignaturesOf(db[d])][c] = SignaturesOf(r)
  BY <1>1, AbstractUpdate DEF r, s
<1>5. PICK a : s = Over(Sets(op, r, its, a), r)
  BY <1>1
<1>6. CASE op.kind \in {"AddItem", "DeleteItem"}
  <2>1. /\ s.status = r.status /\ s.approverApprovedBy = r.approverApprovedBy
        /\ s.decidedBy = r.decidedBy
    BY <1>1, <1>5, <1>6, RowWritten
  <2>2. r.status \in {"DRAFT", "REJECTED", "PENDING_APPROVAL"}
    BY <1>1, <1>6 DEF Accepts, IsOwnedEditable, IsEditableStatus
  <2>3. StageOf(r) \in {"open", "returned", "approver"} /\ StageOf(s) = StageOf(r)
    BY <2>1, <2>2, StageFacts DEF IsAtFinanceStage, IsInReview
  <2>4. SignaturesOf(s) = SignaturesOf(r)
    BY <2>1 DEF SignaturesOf
  <2>5. Workflow!Amend(c)
    BY <1>2, <1>4, <2>3, <2>4 DEF Workflow!Amend
  <2> QED BY <1>0, <2>5, WorkflowStep
<1>7. CASE op.kind \in {"Submit", "Resubmit"}
  <2>1. /\ s.status = "PENDING_APPROVAL" /\ s.total = Cardinality(its) /\ s.approverApprovedBy = None
    BY <1>1, <1>5, <1>7, RowWritten
  <2>2. r.status \in {"DRAFT", "REJECTED"} /\ r.total = Cardinality(its)
    BY <1>1, <1>7 DEF Accepts, IsSubmittableStatus, IsConsistent
  <2>3. StageOf(r) \in {"open", "returned"} /\ StageOf(s) = "approver" /\ SignaturesOf(s) = {}
    BY <2>1, <2>2, StageFacts DEF SignaturesOf, IsAtFinanceStage, IsInReview
  <2>4. Workflow!Present(c)
    BY <1>4, <2>1, <2>2, <2>3 DEF Workflow!Present
  <2> QED BY <1>0, <2>4, WorkflowStep
<1>8. CASE op.kind = "Cancel"
  <2>1. /\ s.status = "CANCELLED" /\ s.total = r.total /\ s.approverApprovedBy = r.approverApprovedBy
    BY <1>1, <1>5, <1>8, RowWritten
  <2>2. r.status \in {"DRAFT", "PENDING_APPROVAL"}
    BY <1>1, <1>8 DEF Accepts, IsCancellable
  <2>3. /\ StageOf(r) \in {"open", "approver"} /\ StageOf(s) = "withdrawn"
        /\ SignaturesOf(s) = SignaturesOf(r)
    BY <2>1, <2>2, StageFacts DEF SignaturesOf, IsAtFinanceStage, IsInReview
  <2>4. Workflow!Withdraw(c)
    BY <1>4, <2>1, <2>3 DEF Workflow!Withdraw
  <2> QED BY <1>0, <2>4, WorkflowStep
<1>9. CASE op.kind = "Approve"
  <2> DEFINE escalates == Role[op.user] # "FINANCE" /\ ~IsAtFinanceStage(r)
                            /\ RequiresFinanceApproval(r.total)
  <2>1. s.total = r.total /\ IsDecisionMaker(op.user) /\ IsDecidableBy(r, op.user)
    BY <1>1, <1>5, <1>9, RowWritten DEF Accepts
  <2>2. IF escalates
        THEN s.status = "PENDING_FINANCE_APPROVAL" /\ s.approverApprovedBy = op.user
        ELSE /\ s.status = "APPROVED" /\ s.decidedBy = op.user
             /\ s.approverApprovedBy = r.approverApprovedBy
    BY <1>1, <1>5, <1>9, RowWritten
  <2>3. CASE escalates
    <3>1. StageOf(r) = "approver" /\ StageOf(s) = "finance" /\ r.total > Threshold
      BY <2>1, <2>2, <2>3, StageFacts DEF IsDecidableBy, IsAtFinanceStage, RequiresFinanceApproval
    <3>2. SignaturesOf(s) = SignaturesOf(r) \cup {"APPROVER"}
      BY <1>1, <2>1, <2>2, <2>3 DEF SignaturesOf, IsDecidableBy, IsInReview
    <3>3. Workflow!ApproverSigns(c)
      BY <1>1, <2>1, <3>1, <3>2, AbstractSignature DEF r, s
    <3> QED BY <1>0, <3>3, WorkflowStep
  <2>4. ASSUME ~escalates
        PROVE  StageOf(s) = "accepted" /\ SignaturesOf(s) = SignaturesOf(r) \cup {Role[op.user]}
    BY <2>1, <2>2, <2>4, StageFacts DEF SignaturesOf, IsDecidableBy, IsInReview
  <2>5. CASE ~escalates /\ Role[op.user] = "FINANCE"
    <3>1. StageOf(r) \in {"approver", "finance"}
      BY <2>1, StageFacts DEF IsDecidableBy
    <3>2. StageOf(s) = "accepted" /\ SignaturesOf(s) = SignaturesOf(r) \cup {"FINANCE"}
      BY <2>4, <2>5
    <3>3. Workflow!FinanceSigns(c)
      BY <1>1, <2>1, <3>1, <3>2, AbstractSignature DEF r, s
    <3> QED BY <1>0, <3>3, WorkflowStep
  <2>6. CASE ~escalates /\ Role[op.user] # "FINANCE"
    <3>1. Role[op.user] = "APPROVER" /\ StageOf(r) = "approver" /\ ~(r.total > Threshold)
      BY <2>1, <2>6, StageFacts DEF IsDecidableBy, IsDecisionMaker, RequiresFinanceApproval
    <3>2. StageOf(s) = "accepted" /\ SignaturesOf(s) = SignaturesOf(r) \cup {"APPROVER"}
      BY <2>4, <2>6, <3>1
    <3>3. Workflow!ApproverSigns(c)
      BY <1>1, <2>1, <3>1, <3>2, AbstractSignature DEF r, s
    <3> QED BY <1>0, <3>3, WorkflowStep
  <2> QED BY <2>3, <2>5, <2>6
<1>10. CASE op.kind = "Reject"
  <2>1. /\ s.status = "REJECTED" /\ s.total = r.total /\ s.approverApprovedBy = r.approverApprovedBy
    BY <1>1, <1>5, <1>10, RowWritten
  <2>2. IsInReview(r.status)
    BY <1>1, <1>10 DEF Accepts, IsDecidableBy
  <2>3. /\ StageOf(r) \in {"approver", "finance"} /\ StageOf(s) = "returned"
        /\ SignaturesOf(s) = SignaturesOf(r)
    BY <2>1, <2>2, StageFacts DEF SignaturesOf, IsInReview
  <2>4. Workflow!Return(c)
    BY <1>4, <2>1, <2>3 DEF Workflow!Return
  <2> QED BY <1>0, <2>4, WorkflowStep
<1>11. CASE op.kind \in {"RequestInfo", "Respond", "Reassign"}
  <2>1. /\ s.total = r.total /\ s.approverApprovedBy = r.approverApprovedBy
        /\ s.decidedBy = r.decidedBy
        /\ op.kind = "RequestInfo" => s.status = "INFO_REQUESTED"
        /\ op.kind = "Respond" =>
             s.status = IF r.status # "INFO_REQUESTED" THEN r.status
                        ELSE IF IsAtFinanceStage(r) THEN "PENDING_FINANCE_APPROVAL"
                        ELSE "PENDING_APPROVAL"
        /\ op.kind = "Reassign" => s.status = r.status
    BY <1>1, <1>5, <1>11, RowWritten
  <2>2. IsInReview(r.status)
    BY <1>1, <1>11 DEF Accepts, IsDecidableBy, IsRespondableBy, IsReassignableBy, IsReassignable, IsInReview
  <2>3. /\ r.status = "PENDING_APPROVAL" => r.approverApprovedBy = None
        /\ r.status = "PENDING_FINANCE_APPROVAL" => r.approverApprovedBy # None
    BY <1>1 DEF IsConsistent
  <2>4. IsInReview(s.status) /\ (IsAtFinanceStage(s) <=> IsAtFinanceStage(r))
    BY <1>11, <2>1, <2>2, <2>3 DEF IsAtFinanceStage, IsInReview
  <2>5. StageOf(s) = StageOf(r) /\ SignaturesOf(s) = SignaturesOf(r)
    BY <2>1, <2>2, <2>4, StageFacts DEF SignaturesOf, IsInReview
  <2> QED BY <1>3, <2>1, <2>5
<1> QED BY <1>1, <1>6, <1>7, <1>8, <1>9, <1>10, <1>11 DEF Kinds, IsBulk

(* Interleaved transactions implement the approval workflow: nothing that  *)
(* commits between the read of a total and its approval gets an amount     *)
(* above the threshold past Finance.                                       *)
THEOREM CommitsAreWorkflowSteps == Spec => CommitsFollowWorkflow
<1>1. ASSUME IInv, [Next]_vars PROVE [Workflow!Next]_(Workflow!vars)
  <2>1. CASE UNCHANGED Tables
    BY <2>1 DEF Tables, Workflow!vars
  <2>2. ASSUME NEW p \in Requests, Commit(p) PROVE [Workflow!Next]_(Workflow!vars)
    <3>1. CASE IsBulk(Op(p))
      <4>1. ASSUME NEW d \in Claims
            PROVE  /\ StageOf(db'[d]) = StageOf(db[d]) /\ db'[d].total = db[d].total
                   /\ SignaturesOf(db'[d]) = SignaturesOf(db[d])
        <5>1. CASE d \in DOMAIN tx[p].rows
          BY <1>1, <2>2, <3>1, <5>1, BulkCommit DEF StageOf, SignaturesOf, IsAtFinanceStage
        <5>2. CASE d \notin DOMAIN tx[p].rows
          BY <1>1, <2>2, <5>2, CommitFacts
        <5> QED BY <5>1, <5>2
      <4> QED BY <4>1, AbstractStutter
    <3>2. CASE ~IsBulk(Op(p))
      BY <1>1, <2>2, <3>2, NextInv, SingleRefines
    <3> QED BY <3>1, <3>2
  <2> QED BY <1>1, <2>1, <2>2, OnlyCommits
<1>2. IInv /\ [Next]_vars => [Workflow!Next]_(Workflow!vars)
  BY <1>1
<1> QED BY <1>2, Invariance, PTL DEF Spec, CommitsFollowWorkflow
=============================================================================
