------------------------ MODULE ApprovalRemindersProofs ------------------------
(***************************************************************************)
(* Proofs that a claim is reminded about once per window, and that marks,  *)
(* emails and audit rows agree, for any number of claims, runs and         *)
(* recipients.  Liveness stays with the model checker.                     *)
(*                                                                         *)
(* The argument: a claim some run has marked cannot be marked by another,  *)
(* because the WHERE of claimForRun() repeats what the run has read, and   *)
(* a run reads claims whose mark is missing or a window old.  When the     *)
(* clock is reset in between, the claim has not waited long enough.  A     *)
(* claim can be marked again in its window only after a release, so after  *)
(* every run that emailed about it was told of no delivery.                *)
(***************************************************************************)
EXTENDS ApprovalReminders, TLAPS

PCs == {"idle", "finance", "group", "claim", "send", "release"}

ReadRows == [status : Remindable, reminded : {None, RepeatEvery}, count : Nat,
             by : Approvers \cup {"FINANCE"}]

Reads == UNION {[S -> ReadRows] : S \in SUBSET Claims}

Recipients == Approvers \cup Finance

RunRows == [pc : PCs, read : Reads, left : SUBSET Claims, finance : SUBSET Finance,
            to : SUBSET Recipients, todo : SUBSET Claims,
            claimed : SUBSET Claims, send : SUBSET Recipients, mailed : BOOLEAN,
            delivered : SUBSET Recipients]

ClaimRows == [status : Remindable \cup {"OTHER"}, approver : Approvers, waited : 0..FirstAfter,
              reminded : 0..RepeatEvery \cup {None}, count : Nat, mark : Runs \cup {None}]

TypeInv ==
  /\ row \in [Claims -> ClaimRows]
  /\ run \in [Runs -> RunRows]
  /\ mails \in [Claims -> Nat]
  /\ audits \in [Claims -> Nat]
  /\ lost \in [Claims -> Nat]

(* What a run has read about the claims it still deals with.               *)
ReadInv(t) ==
  \A c \in t.left \cup t.todo \cup t.claimed :
    /\ t.read[c].status \in Remindable
    /\ t.read[c].reminded \in {None, RepeatEvery}
    /\ t.read[c].count \in Nat
    /\ t.read[c].count = 0 <=> t.read[c].reminded = None

(* Marks and emails, by where a run is.                                    *)
PhaseInv(t) ==
  /\ t.pc \in {"idle", "finance", "group"} => t.claimed = {}
  /\ t.pc # "send" => ~t.mailed
  /\ t.delivered # {} => t.mailed
  /\ t.pc = "release" => t.todo = t.claimed

(* A claim marked by run r: the mark stands unless the clock was reset.    *)
MarkInv(r, c) ==
  /\ row[c].waited < FirstAfter \/ (row[c].reminded = 0 /\ row[c].mark = r)
  /\ mails[c] = lost[c] + (IF run[r].mailed THEN 1 ELSE 0)
  /\ audits[c] = 0

RunInv(r) ==
  /\ ReadInv(run[r])
  /\ PhaseInv(run[r])
  /\ \A c \in run[r].claimed : MarkInv(r, c)

(* No claim is marked by two runs at a time.                               *)
PairInv(r, q) == r # q => run[r].claimed \cap run[q].claimed = {}

(* The columns of a claim, and its history.                                *)
RowInv(c) ==
  /\ row[c].count = 0 <=> row[c].reminded = None
  /\ row[c].waited < FirstAfter => row[c].reminded = None
  /\ mails[c] <= 1 + lost[c]
  /\ mails[c] > lost[c] => \/ row[c].status = "OTHER"
                           \/ row[c].waited < FirstAfter
                           \/ row[c].reminded \in 0..(RepeatEvery - 1)
  /\ audits[c] + lost[c] <= mails[c]
  /\ audits[c] + lost[c] < mails[c] => c \in cut \/ \E r \in Runs : c \in run[r].claimed

IInv ==
  /\ TypeInv
  /\ \A r \in Runs : RunInv(r)
  /\ \A r, q \in Runs : PairInv(r, q)
  /\ \A c \in Claims : RowInv(c)

-----------------------------------------------------------------------------
(* Lemmas about the rows a run reads.                                      *)

(* A run that has not started is a run. *)
LEMMA NoRunIsRun == NoRun \in RunRows
<1>1. <<>> \in [{} -> ReadRows]
  OBVIOUS
<1>2. <<>> \in Reads
  BY <1>1 DEF Reads
<1> QED BY <1>2 DEF NoRun, RunRows, PCs

(* A run goes on without touching a claim.                                 *)
LEMMA RunStep ==
  ASSUME IInv, NEW r \in Runs, NEW t \in RunRows, run' = [run EXCEPT ![r] = t],
         UNCHANGED <<row, mails, audits, lost, cut>>, ReadInv(t), PhaseInv(t),
         t.claimed = run[r].claimed,
         t.claimed # {} => t.mailed = run[r].mailed
  PROVE  IInv'
<1>1. TypeInv'
  BY DEF IInv, TypeInv
<1>2. \A q \in Runs : run'[q] = IF q = r THEN t ELSE run[q]
  BY DEF IInv, TypeInv
<1>3. \A q \in Runs : run'[q].claimed = run[q].claimed
  BY <1>2
<1>4. ASSUME NEW q \in Runs PROVE RunInv(q)'
  <2>1. ReadInv(run'[q]) /\ PhaseInv(run'[q])
    BY <1>2, <1>4 DEF IInv, RunInv
  <2>2. ASSUME NEW c \in run[q].claimed PROVE MarkInv(q, c)'
    BY <1>2, <1>4, <2>2 DEF IInv, RunInv, MarkInv
  <2> QED BY <1>3, <2>1, <2>2 DEF RunInv, ReadInv, PhaseInv
<1>5. ASSUME NEW q \in Runs, NEW s \in Runs PROVE PairInv(q, s)'
  BY <1>3, <1>5 DEF IInv, PairInv
<1>6. ASSUME NEW d \in Claims PROVE RowInv(d)'
  BY <1>3, <1>6 DEF IInv, RowInv
<1> QED BY <1>1, <1>4, <1>5, <1>6 DEF IInv

(* A row the rest of the system writes: the clock runs on, or is reset.    *)
LEMMA MoveInv ==
  ASSUME IInv, NEW c \in Claims, NEW new \in ClaimRows, SetRow(c, new),
         \/ new.waited = 0 /\ new.reminded = None /\ new.count = 0
         \/ new = [row[c] EXCEPT !.status = "OTHER"]
  PROVE  IInv'
<1> USE DaysAssumption, NullAssumption DEF IInv, TypeInv, SetRow, Others, History
<1>1. TypeInv'
  OBVIOUS
<1>2. ASSUME NEW q \in Runs PROVE RunInv(q)'
  <2>1. ASSUME NEW d \in run[q].claimed PROVE MarkInv(q, d)'
    <3>1. d \in Claims /\ MarkInv(q, d)
      BY <2>1 DEF RunInv, RunRows
    <3>2. row[d] \in ClaimRows
      BY <3>1
    <3>3. row'[d].waited < FirstAfter \/ (row'[d].reminded = 0 /\ row'[d].mark = q)
      <4>1. row'[d] = IF d = c THEN new ELSE row[d]
        BY <3>1
      <4>2. row[d].waited < FirstAfter \/ (row[d].reminded = 0 /\ row[d].mark = q)
        BY <3>1 DEF MarkInv
      <4>3. CASE new.waited = 0
        BY <4>1, <4>2, <4>3
      <4>4. CASE new = [row[c] EXCEPT !.status = "OTHER"]
        <5>1. row[c] \in ClaimRows
          OBVIOUS
        <5>2. new.waited = row[c].waited /\ new.reminded = row[c].reminded /\ new.mark = row[c].mark
          BY <4>4, <5>1 DEF ClaimRows
        <5> QED BY <4>1, <4>2, <5>2
      <4> QED BY <4>3, <4>4
    <3>4. UNCHANGED <<run, mails, lost, audits>>
      OBVIOUS
    <3> QED BY <3>1, <3>3, <3>4, Zenon DEF MarkInv
  <2> QED BY <2>1 DEF RunInv, ReadInv, PhaseInv
<1>3. ASSUME NEW q \in Runs, NEW s \in Runs PROVE PairInv(q, s)'
  BY <1>3 DEF PairInv
<1>4. ASSUME NEW d \in Claims PROVE RowInv(d)'
  <2>1. row[d] \in ClaimRows /\ RowInv(d)
    BY <1>4
  <2>2. /\ row'[d].count = 0 <=> row'[d].reminded = None
        /\ row'[d].waited < FirstAfter => row'[d].reminded = None
        /\ \/ row'[d] = row[d] \/ row'[d].status = "OTHER" \/ row'[d].waited < FirstAfter
    BY <2>1 DEF RowInv, ClaimRows
  <2>3. UNCHANGED <<run, mails, audits, lost, cut>>
    OBVIOUS
  <2> QED BY <2>1, <2>2, <2>3, Zenon DEF RowInv
<1> QED BY <1>1, <1>2, <1>3, <1>4

(* A claim enters or leaves a queue, or changes hands. *)
LEMMA MovesInv ==
  ASSUME IInv, NEW c \in Claims, Move(c)
  PROVE  IInv'
<1>1. row[c] \in ClaimRows
  BY DEF IInv, TypeInv
<1>2. ASSUME NEW r \in ClaimRows
      PROVE  /\ StartReviewClock(r) \in ClaimRows /\ StartReviewClock(r).waited = 0
             /\ StartReviewClock(r).reminded = None /\ StartReviewClock(r).count = 0
  <2>1. 0 \in 0..FirstAfter /\ 0 \in Nat
    BY DaysAssumption
  <2>2. StartReviewClock(r) \in ClaimRows
    BY <2>1 DEF StartReviewClock, ClaimRows
  <2> QED BY <2>2 DEF StartReviewClock, ClaimRows
<1>3. ASSUME NEW status \in Remindable, EnterQueue(c, status) PROVE IInv'
  <2>1. [row[c] EXCEPT !.status = status] \in ClaimRows
    BY <1>1 DEF ClaimRows
  <2> QED BY <1>2, <1>3, <2>1, MoveInv DEF EnterQueue
<1>4. ASSUME Escalate(c) PROVE IInv'
  <2>1. [row[c] EXCEPT !.status = "PENDING_FINANCE_APPROVAL"] \in ClaimRows
    BY <1>1 DEF ClaimRows, Remindable
  <2> QED BY <1>2, <1>4, <2>1, MoveInv DEF Escalate
<1>5. ASSUME NEW a \in Approvers, HandOver(c, a) PROVE IInv'
  <2>1. [row[c] EXCEPT !.approver = a] \in ClaimRows
    BY <1>1 DEF ClaimRows
  <2> QED BY <1>2, <1>5, <2>1, MoveInv DEF HandOver
<1>6. ASSUME LeaveQueue(c) PROVE IInv'
  <2>1. [row[c] EXCEPT !.status = "OTHER"] \in ClaimRows
    BY <1>1 DEF ClaimRows
  <2> QED BY <1>6, <2>1, MoveInv DEF LeaveQueue
<1> QED BY <1>3, <1>4, <1>5, <1>6 DEF Move

-----------------------------------------------------------------------------
(* One lemma for each operation of a run.                                  *)

(* Scan keeps the invariant. *)
LEMMA ScanInv ==
  ASSUME IInv, NEW r \in Runs, Scan(r)
  PROVE  IInv'
<1> DEFINE t == [NoRun EXCEPT
       !.pc = "finance", !.left = {c \in Claims : Overdue(row[c])},
       !.read = [c \in {d \in Claims : Overdue(row[d])} |->
         [status |-> row[c].status, reminded |-> row[c].reminded, count |-> row[c].count,
          by |-> IF row[c].status = "PENDING_APPROVAL" /\ row[c].approver \in active
                 THEN row[c].approver ELSE "FINANCE"]]]
<1> USE DaysAssumption, NullAssumption DEF Scan, Overdue
<1>1. r \in Runs /\ run[r] \in RunRows /\ ReadInv(run[r]) /\ PhaseInv(run[r]) /\ row \in [Claims -> ClaimRows]
  BY DEF IInv, TypeInv, RunInv
<1>2. run' = [run EXCEPT ![r] = t] /\ UNCHANGED <<row, mails, audits, lost, cut>>
  BY <1>1 DEF GoTo, Others, History, NoRun, RunRows
<1>3. t \in RunRows
  <2>1. DOMAIN t.read = {c \in Claims : Overdue(row[c])} /\ t.read \in [DOMAIN t.read -> ReadRows]
    BY <1>1 DEF NoRun, ReadRows, ClaimRows, Overdue
  <2>2. t.read \in Reads
    BY <2>1 DEF Reads
  <2> QED BY <2>2 DEF NoRun, RunRows, PCs
<1>4. ReadInv(t) /\ PhaseInv(t)
  BY <1>1 DEF ReadInv, PhaseInv, NoRun, RunRows, ClaimRows, IInv, RowInv
<1>5. t.claimed = run[r].claimed /\ (t.claimed # {} => t.mailed = run[r].mailed)
  BY <1>1 DEF PhaseInv, NoRun, RunRows
<1> HIDE DEF t
<1> QED BY <1>1, <1>2, <1>3, <1>4, <1>5, RunStep

(* LoadFinance keeps the invariant. *)
LEMMA LoadFinanceInv ==
  ASSUME IInv, NEW r \in Runs, LoadFinance(r)
  PROVE  IInv'
<1> DEFINE t == [run[r] EXCEPT !.pc = "group", !.finance = Finance \cap active]
<1> USE DaysAssumption, NullAssumption DEF LoadFinance
<1>1. r \in Runs /\ run[r] \in RunRows /\ ReadInv(run[r]) /\ PhaseInv(run[r]) /\ row \in [Claims -> ClaimRows]
  BY DEF IInv, TypeInv, RunInv
<1>2. run' = [run EXCEPT ![r] = t] /\ UNCHANGED <<row, mails, audits, lost, cut>>
  BY <1>1 DEF GoTo, Others, History, NoRun, RunRows
<1>3. t \in RunRows
  BY <1>1, NoRunIsRun DEF RunRows, PCs, NoRun, Recipients
<1>4. ReadInv(t) /\ PhaseInv(t)
  BY <1>1 DEF ReadInv, PhaseInv, NoRun, RunRows
<1>5. t.claimed = run[r].claimed /\ (t.claimed # {} => t.mailed = run[r].mailed)
  BY <1>1 DEF PhaseInv, NoRun, RunRows
<1> HIDE DEF t
<1> QED BY <1>1, <1>2, <1>3, <1>4, <1>5, RunStep

(* Group keeps the invariant. *)
LEMMA GroupInv ==
  ASSUME IInv, NEW r \in Runs, NEW by \in Approvers \cup {"FINANCE"}, Group(r, by)
  PROVE  IInv'
<1> DEFINE group == {c \in run[r].left : run[r].read[c].by = by}
           to == IF by = "FINANCE" THEN run[r].finance ELSE {by}
           t == [NoRun EXCEPT !.pc = IF to = {} THEN "group" ELSE "claim",
                   !.read = run[r].read, !.finance = run[r].finance,
                   !.left = run[r].left \ group, !.to = to,
                   !.todo = IF to = {} THEN {} ELSE group]
<1> USE DaysAssumption, NullAssumption DEF Group
<1>1. r \in Runs /\ run[r] \in RunRows /\ ReadInv(run[r]) /\ PhaseInv(run[r]) /\ row \in [Claims -> ClaimRows]
  BY DEF IInv, TypeInv, RunInv
<1>2. run' = [run EXCEPT ![r] = t] /\ UNCHANGED <<row, mails, audits, lost, cut>>
  <2>1. t = [[NoRun EXCEPT !.read = run[r].read, !.finance = run[r].finance,
                           !.left = run[r].left \ group, !.to = to,
                           !.todo = IF to = {} THEN {} ELSE group]
              EXCEPT !.pc = IF to = {} THEN "group" ELSE "claim"]
    BY DEF NoRun
  <2> HIDE DEF t
  <2> QED BY <2>1 DEF GoTo, Others, History
<1>3. t \in RunRows
  BY <1>1, NoRunIsRun DEF RunRows, PCs, NoRun, Recipients
<1>4. ReadInv(t) /\ PhaseInv(t)
  BY <1>1 DEF ReadInv, PhaseInv, NoRun, RunRows
<1>5. t.claimed = run[r].claimed /\ (t.claimed # {} => t.mailed = run[r].mailed)
  BY <1>1 DEF PhaseInv, NoRun, RunRows
<1> HIDE DEF t
<1> QED BY <1>1, <1>2, <1>3, <1>4, <1>5, RunStep

(* EndRun keeps the invariant. *)
LEMMA EndRunInv ==
  ASSUME IInv, NEW r \in Runs, EndRun(r)
  PROVE  IInv'
<1> DEFINE t == NoRun
<1> USE DaysAssumption, NullAssumption DEF EndRun
<1>1. r \in Runs /\ run[r] \in RunRows /\ ReadInv(run[r]) /\ PhaseInv(run[r]) /\ row \in [Claims -> ClaimRows]
  BY DEF IInv, TypeInv, RunInv
<1>2. run' = [run EXCEPT ![r] = t] /\ UNCHANGED <<row, mails, audits, lost, cut>>
  <2>1. [NoRun EXCEPT !.pc = "idle"] = NoRun
    BY DEF NoRun
  <2> QED BY <2>1 DEF GoTo, Others, History
<1>3. t \in RunRows
  BY <1>1, NoRunIsRun DEF RunRows, PCs, NoRun, Recipients
<1>4. ReadInv(t) /\ PhaseInv(t)
  BY <1>1 DEF ReadInv, PhaseInv, NoRun, RunRows
<1>5. t.claimed = run[r].claimed /\ (t.claimed # {} => t.mailed = run[r].mailed)
  BY <1>1 DEF PhaseInv, NoRun, RunRows
<1> HIDE DEF t
<1> QED BY <1>1, <1>2, <1>3, <1>4, <1>5, RunStep

(* StartSending keeps the invariant. *)
LEMMA StartSendingInv ==
  ASSUME IInv, NEW r \in Runs, StartSending(r)
  PROVE  IInv'
<1> DEFINE t == [run[r] EXCEPT !.pc = IF run[r].claimed = {} THEN "group" ELSE "send", !.send = run[r].to]
<1> USE DaysAssumption, NullAssumption DEF StartSending
<1>1. r \in Runs /\ run[r] \in RunRows /\ ReadInv(run[r]) /\ PhaseInv(run[r]) /\ row \in [Claims -> ClaimRows]
  BY DEF IInv, TypeInv, RunInv
<1>2. run' = [run EXCEPT ![r] = t] /\ UNCHANGED <<row, mails, audits, lost, cut>>
  BY <1>1 DEF GoTo, Others, History, NoRun, RunRows
<1>3. t \in RunRows
  BY <1>1, NoRunIsRun DEF RunRows, PCs, NoRun, Recipients
<1>4. ReadInv(t) /\ PhaseInv(t)
  BY <1>1 DEF ReadInv, PhaseInv, NoRun, RunRows
<1>5. t.claimed = run[r].claimed /\ (t.claimed # {} => t.mailed = run[r].mailed)
  BY <1>1 DEF PhaseInv, NoRun, RunRows
<1> HIDE DEF t
<1> QED BY <1>1, <1>2, <1>3, <1>4, <1>5, RunStep

(* SendFails keeps the invariant. *)
LEMMA SendFailsInv ==
  ASSUME IInv, NEW r \in Runs, NEW u \in Recipients, SendFails(r, u)
  PROVE  IInv'
<1> DEFINE t == [run[r] EXCEPT !.pc = "send", !.send = @ \ {u}]
<1> USE DaysAssumption, NullAssumption DEF SendFails
<1>1. r \in Runs /\ run[r] \in RunRows /\ ReadInv(run[r]) /\ PhaseInv(run[r]) /\ row \in [Claims -> ClaimRows]
  BY DEF IInv, TypeInv, RunInv
<1>2. run' = [run EXCEPT ![r] = t] /\ UNCHANGED <<row, mails, audits, lost, cut>>
  BY <1>1 DEF GoTo, Others, History, NoRun, RunRows
<1>3. t \in RunRows
  BY <1>1, NoRunIsRun DEF RunRows, PCs, NoRun, Recipients
<1>4. ReadInv(t) /\ PhaseInv(t)
  BY <1>1 DEF ReadInv, PhaseInv, NoRun, RunRows
<1>5. t.claimed = run[r].claimed /\ (t.claimed # {} => t.mailed = run[r].mailed)
  BY <1>1 DEF PhaseInv, NoRun, RunRows
<1> HIDE DEF t
<1> QED BY <1>1, <1>2, <1>3, <1>4, <1>5, RunStep

(* ClaimForRun keeps the invariant: what it marks nobody else has marked,  *)
(* and nobody has been emailed about since it fell due.                    *)
LEMMA ClaimForRunInv ==
  ASSUME IInv, NEW r \in Runs, NEW c \in Claims, ClaimForRun(r, c)
  PROVE  IInv'
<1>1. run[r] \in RunRows /\ RunInv(r) /\ row[c] \in ClaimRows /\ RowInv(c) /\ TypeInv
  BY DEF IInv, TypeInv
<1>2. CASE StillOverdue(r, c)
  <2> DEFINE t == [run[r] EXCEPT !.pc = "claim", !.todo = @ \ {c}, !.claimed = @ \cup {c}]
             new == [row[c] EXCEPT !.reminded = 0, !.mark = r,
                                   !.count = IF @ < MaxCount THEN @ + 1 ELSE @]
  <2> USE DaysAssumption, NullAssumption, CountAssumption
  <2>1. run' = [run EXCEPT ![r] = t] /\ row' = [row EXCEPT ![c] = new] /\ UNCHANGED <<mails, audits, lost, cut>>
    BY <1>1, <1>2 DEF ClaimForRun, GoTo, Others, History, RunRows, ClaimRows, TypeInv
  <2>2. t \in RunRows /\ new \in ClaimRows
    <3>1. t \in RunRows
      BY <1>1 DEF RunRows, PCs
    <3> DEFINE n == IF row[c].count < MaxCount THEN row[c].count + 1 ELSE row[c].count
    <3>2. n \in Nat /\ 0 \in 0..RepeatEvery
      BY <1>1 DEF ClaimRows
    <3>3. new = [row[c] EXCEPT !.reminded = 0, !.mark = r, !.count = n]
      BY <1>1 DEF ClaimRows
    <3> HIDE DEF n
    <3>4. [row[c] EXCEPT !.reminded = 0, !.mark = r, !.count = n] \in ClaimRows
      BY <1>1, <3>2 DEF ClaimRows
    <3> QED BY <3>1, <3>3, <3>4
  <2>3. /\ t.claimed = run[r].claimed \cup {c} /\ t.delivered = {} /\ t.pc = "claim"
        /\ ~t.mailed /\ t.mailed = run[r].mailed /\ ReadInv(t)
    BY <1>1 DEF ClaimForRun, RunRows, RunInv, PhaseInv, ReadInv
  <2>4. new.waited = FirstAfter /\ new.reminded = 0 /\ new.mark = r /\ new.count # 0
    BY <1>1, <1>2 DEF StillOverdue, ClaimRows
  <2>5. /\ row[c].waited = FirstAfter /\ row[c].reminded \in {None, RepeatEvery}
        /\ row[c].status \in Remindable /\ mails[c] = lost[c] /\ audits[c] = 0
    BY <1>1, <1>2 DEF StillOverdue, ClaimForRun, RunInv, ReadInv, RowInv, TypeInv, Remindable
  <2>6. ASSUME NEW q \in Runs, c \in run[q].claimed PROVE FALSE
    BY <2>5, <2>6 DEF IInv, RunInv, MarkInv
  <2> HIDE DEF t, new
  <2>7. TypeInv'
    BY <1>1, <2>1, <2>2 DEF TypeInv
  <2>8. /\ \A q \in Runs : run'[q] = IF q = r THEN t ELSE run[q]
        /\ \A d \in Claims : row'[d] = IF d = c THEN new ELSE row[d]
    BY <1>1, <2>1 DEF TypeInv
  <2>9. ASSUME NEW q \in Runs PROVE RunInv(q)'
    <3>1. ReadInv(run'[q]) /\ PhaseInv(run'[q])
      BY <2>3, <2>8 DEF IInv, RunInv, PhaseInv
    <3>2. ASSUME NEW d \in Claims, d \in run'[q].claimed PROVE MarkInv(q, d)'
      <4>1. CASE d = c
        <5>1. q = r
          BY <2>6, <2>8, <3>2, <4>1
        <5> QED BY <1>1, <2>1, <2>3, <2>4, <2>5, <2>8, <4>1, <5>1 DEF MarkInv, TypeInv
      <4>2. CASE d # c
        <5>1. d \in run[q].claimed /\ run'[q].mailed = run[q].mailed
          BY <2>3, <2>8, <3>2, <4>2
        <5>2. MarkInv(q, d)
          BY <5>1 DEF IInv, RunInv
        <5> QED BY <2>1, <2>8, <4>2, <5>1, <5>2 DEF MarkInv
      <4> QED BY <4>1, <4>2
    <3>3. run'[q].claimed \subseteq Claims
      BY <2>7 DEF TypeInv, RunRows
    <3> QED BY <3>1, <3>2, <3>3 DEF RunInv, ReadInv, PhaseInv
  <2>10. ASSUME NEW q \in Runs, NEW s \in Runs PROVE PairInv(q, s)'
    BY <2>3, <2>6, <2>8 DEF IInv, PairInv
  <2>11. ASSUME NEW d \in Claims PROVE RowInv(d)'
    <3>1. RowInv(d)
      BY DEF IInv
    <3>2. CASE d = c
      <4>1. lost[c] \in Nat /\ mails' = mails /\ audits' = audits /\ lost' = lost /\ cut' = cut
        BY <1>1, <2>1 DEF TypeInv
      <4>2. row'[c].waited = FirstAfter /\ row'[c].reminded = 0 /\ row'[c].count # 0
        BY <2>4, <2>8
      <4>3. audits[c] + lost[c] = mails[c] /\ mails[c] \in Nat
        BY <2>5, <4>1
      <4>4. ~(audits'[d] + lost'[d] < mails'[d]) /\ audits'[d] + lost'[d] <= mails'[d]
        BY <3>2, <4>1, <4>3
      <4>5. /\ row'[d].count = 0 <=> row'[d].reminded = None
            /\ row'[d].waited < FirstAfter => row'[d].reminded = None
            /\ mails'[d] <= 1 + lost'[d] /\ row'[d].reminded \in 0..(RepeatEvery - 1)
        <5>1. /\ 0 # None /\ FirstAfter \in Nat /\ RepeatEvery \in Nat \ {0}
              /\ 0 \in 0..(RepeatEvery - 1)
          BY DaysAssumption, NullAssumption
        <5>2. mails'[d] <= 1 + lost'[d]
          BY <2>5, <3>2, <4>1
        <5>3. ~(row'[d].waited < FirstAfter)
          BY <3>2, <4>2, <5>1
        <5> QED BY <3>2, <4>2, <5>1, <5>2, <5>3, Zenon
      <4> QED BY <4>4, <4>5, Zenon DEF RowInv
    <3>3. CASE d # c
      <4>1. row'[d] = row[d] /\ \A q \in Runs : d \in run[q].claimed => d \in run'[q].claimed
        BY <2>3, <2>8, <3>3
      <4> QED BY <2>1, <3>1, <4>1 DEF RowInv
    <3> QED BY <3>2, <3>3
  <2> QED BY <2>7, <2>9, <2>10, <2>11 DEF IInv
<1>3. CASE ~StillOverdue(r, c)
  <2> DEFINE t == [run[r] EXCEPT !.pc = "claim", !.todo = @ \ {c}]
  <2>1. run' = [run EXCEPT ![r] = t] /\ UNCHANGED <<row, mails, audits, lost, cut>>
    BY <1>1, <1>3 DEF ClaimForRun, GoTo, Others, History, RunRows
  <2>2. t \in RunRows
    BY <1>1 DEF RunRows, PCs
  <2>3. ReadInv(t) /\ PhaseInv(t)
    BY <1>1 DEF ReadInv, PhaseInv, RunInv, RunRows, ClaimForRun
  <2>4. t.claimed = run[r].claimed /\ t.mailed = run[r].mailed
    BY <1>1 DEF RunRows
  <2> HIDE DEF t
  <2> QED BY <2>1, <2>2, <2>3, <2>4, RunStep
<1> QED BY <1>2, <1>3

(* A run that emails somebody keeps the invariant: the first email counts  *)
(* for every claim of the group, and none of them has been counted before. *)
LEMMA MailedInv ==
  ASSUME IInv, NEW r \in Runs, NEW t \in RunRows, run' = [run EXCEPT ![r] = t], Mailed(r),
         UNCHANGED <<row, audits, lost, cut>>, ReadInv(t), PhaseInv(t),
         t.claimed = run[r].claimed, t.mailed
  PROVE  IInv'
<1>1. run[r] \in RunRows /\ RunInv(r) /\ TypeInv
  BY DEF IInv, TypeInv
<1>2. CASE run[r].mailed
  <2>1. UNCHANGED mails
    BY <1>2 DEF Mailed
  <2> QED BY <1>2, <2>1, RunStep
<1>3. CASE ~run[r].mailed
  <2>1. \A d \in Claims : mails'[d] = IF d \in run[r].claimed THEN mails[d] + 1 ELSE mails[d]
    BY <1>3 DEF Mailed
  <2>2. \A d \in Claims : d \in run[r].claimed => mails[d] = lost[d] /\ mails'[d] = lost[d] + 1
    BY <1>1, <1>3, <2>1 DEF RunInv, MarkInv, TypeInv
  <2>3. mails' \in [Claims -> Nat]
    <3>1. mails' = [c \in Claims |-> IF c \in run[r].claimed THEN mails[c] + 1 ELSE mails[c]]
      BY <1>3 DEF Mailed
    <3>2. \A d \in Claims : mails'[d] \in Nat
      BY <1>1, <2>1 DEF TypeInv
    <3> QED BY <3>1, <3>2
  <2>4. TypeInv'
    BY <1>1, <2>3 DEF TypeInv
  <2>5. \A q \in Runs : run'[q] = IF q = r THEN t ELSE run[q]
    BY <1>1 DEF TypeInv
  <2>6. ASSUME NEW q \in Runs PROVE RunInv(q)'
    <3>1. ReadInv(run'[q]) /\ PhaseInv(run'[q])
      BY <2>5 DEF IInv, RunInv
    <3>2. run'[q].claimed = run[q].claimed /\ run[q].claimed \subseteq Claims
      BY <1>1, <2>5 DEF TypeInv, RunRows
    <3>3. ASSUME NEW d \in run[q].claimed PROVE MarkInv(q, d)'
      <4>1. MarkInv(q, d) /\ d \in Claims
        BY <3>2, <3>3 DEF IInv, RunInv
      <4>2. CASE q = r
        BY <2>2, <2>5, <3>3, <4>1, <4>2 DEF MarkInv
      <4>3. CASE q # r
        <5>1. d \notin run[r].claimed
          BY <3>3, <4>3 DEF IInv, PairInv
        <5> QED BY <2>1, <2>5, <4>1, <4>3, <5>1 DEF MarkInv
      <4> QED BY <4>2, <4>3
    <3> QED BY <3>1, <3>2, <3>3 DEF RunInv, ReadInv, PhaseInv
  <2>7. ASSUME NEW q \in Runs, NEW s \in Runs PROVE PairInv(q, s)'
    BY <2>5 DEF IInv, PairInv
  <2>8. ASSUME NEW d \in Claims PROVE RowInv(d)'
    <3>1. RowInv(d) /\ \A q \in Runs : run'[q].claimed = run[q].claimed
      BY <2>5 DEF IInv
    <3>2. CASE d \in run[r].claimed
      <4>1. MarkInv(r, d) /\ row[d] \in ClaimRows /\ lost[d] \in Nat
        BY <1>1, <3>2 DEF RunInv, TypeInv
      <4> QED BY <2>2, <3>1, <3>2, <4>1, DaysAssumption DEF RowInv, MarkInv, ClaimRows
    <3>3. CASE d \notin run[r].claimed
      BY <2>1, <3>1, <3>3 DEF RowInv
    <3> QED BY <3>2, <3>3
  <2> QED BY <2>4, <2>6, <2>7, <2>8 DEF IInv
<1> QED BY <1>2, <1>3

(* Send keeps the invariant. *)
LEMMA SendInv ==
  ASSUME IInv, NEW r \in Runs, NEW u \in Recipients, Send(r, u)
  PROVE  IInv'
<1> DEFINE t == [run[r] EXCEPT !.pc = "send", !.send = @ \ {u}, !.mailed = TRUE,
                               !.delivered = @ \cup {u}]
<1>1. run[r] \in RunRows /\ RunInv(r) /\ TypeInv
  BY DEF IInv, TypeInv
<1>2. run' = [run EXCEPT ![r] = t] /\ Mailed(r) /\ UNCHANGED <<row, audits, lost, cut>>
  BY <1>1 DEF Send, GoTo, Others, RunRows
<1>3. t \in RunRows
  BY <1>1 DEF RunRows, PCs
<1>4. ReadInv(t) /\ PhaseInv(t)
  BY <1>1 DEF ReadInv, PhaseInv, RunInv, RunRows
<1>5. t.claimed = run[r].claimed /\ t.mailed
  BY <1>1 DEF RunRows
<1> HIDE DEF t
<1> QED BY <1>2, <1>3, <1>4, <1>5, MailedInv

(* So does an email that is sent by a call that throws. *)
LEMMA AnswerLostInv ==
  ASSUME IInv, NEW r \in Runs, NEW u \in Recipients, AnswerLost(r, u)
  PROVE  IInv'
<1> DEFINE t == [run[r] EXCEPT !.pc = "send", !.send = @ \ {u}, !.mailed = TRUE]
<1>1. run[r] \in RunRows /\ RunInv(r) /\ TypeInv
  BY DEF IInv, TypeInv
<1>2. run' = [run EXCEPT ![r] = t] /\ Mailed(r) /\ UNCHANGED <<row, audits, lost, cut>>
  BY <1>1 DEF AnswerLost, GoTo, Others, RunRows
<1>3. t \in RunRows
  BY <1>1 DEF RunRows, PCs
<1>4. ReadInv(t) /\ PhaseInv(t)
  BY <1>1 DEF ReadInv, PhaseInv, RunInv, RunRows
<1>5. t.claimed = run[r].claimed /\ t.mailed
  BY <1>1 DEF RunRows
<1> HIDE DEF t
<1> QED BY <1>2, <1>3, <1>4, <1>5, MailedInv

(* StartRelease keeps the invariant: what the run has emailed about        *)
(* without being told so counts as lost.                                   *)
LEMMA StartReleaseInv ==
  ASSUME IInv, NEW r \in Runs, StartRelease(r)
  PROVE  IInv'
<1> DEFINE t == [run[r] EXCEPT !.pc = "release", !.todo = run[r].claimed, !.mailed = FALSE]
<1>1. run[r] \in RunRows /\ RunInv(r) /\ TypeInv
  BY DEF IInv, TypeInv
<1>2. run' = [run EXCEPT ![r] = t] /\ UNCHANGED <<row, mails, audits, cut>>
  BY <1>1 DEF StartRelease, GoTo, Others, RunRows
<1>3. t \in RunRows
  BY <1>1 DEF RunRows, PCs
<1>4. ReadInv(t) /\ PhaseInv(t)
  BY <1>1 DEF StartRelease, NothingDelivered, ReadInv, PhaseInv, RunInv, RunRows
<1>5. t.claimed = run[r].claimed /\ ~t.mailed
  BY <1>1 DEF RunRows
<1> HIDE DEF t
<1>6. \A d \in Claims :
        lost'[d] = IF run[r].mailed /\ d \in run[r].claimed THEN lost[d] + 1 ELSE lost[d]
  BY DEF StartRelease
<1>7. TypeInv'
  <2>1. lost' = [c \in Claims |-> IF run[r].mailed /\ c \in run[r].claimed
                                  THEN lost[c] + 1 ELSE lost[c]]
    BY DEF StartRelease
  <2>2. \A d \in Claims : lost'[d] \in Nat
    BY <1>1, <1>6 DEF TypeInv
  <2>3. lost' \in [Claims -> Nat]
    BY <2>1, <2>2
  <2> QED BY <1>1, <1>2, <1>3, <2>3 DEF TypeInv
<1>8. \A q \in Runs : run'[q] = IF q = r THEN t ELSE run[q]
  BY <1>1, <1>2 DEF TypeInv
<1>9. \A d \in run[r].claimed : d \in Claims /\ lost'[d] = mails[d]
  BY <1>1, <1>6 DEF RunInv, MarkInv, TypeInv, RunRows
<1>10. ASSUME NEW q \in Runs PROVE RunInv(q)'
  <2>1. ReadInv(run'[q]) /\ PhaseInv(run'[q])
    BY <1>4, <1>8 DEF IInv, RunInv
  <2>2. ASSUME NEW d \in run[q].claimed PROVE MarkInv(q, d)'
    <3>1. MarkInv(q, d) /\ d \in Claims /\ lost[d] \in Nat /\ mails[d] \in Nat
      BY <1>1, <2>2 DEF IInv, RunInv, TypeInv, RunRows
    <3>2. CASE q = r
      BY <1>2, <1>5, <1>8, <1>9, <2>2, <3>1, <3>2 DEF MarkInv
    <3>3. CASE q # r
      <4>1. d \notin run[r].claimed
        BY <2>2, <3>3 DEF IInv, PairInv
      <4> QED BY <1>2, <1>6, <1>8, <3>1, <3>3, <4>1 DEF MarkInv
    <3> QED BY <3>2, <3>3
  <2> QED BY <1>5, <1>8, <2>1, <2>2 DEF RunInv, ReadInv, PhaseInv
<1>11. ASSUME NEW q \in Runs, NEW s \in Runs PROVE PairInv(q, s)'
  BY <1>5, <1>8 DEF IInv, PairInv
<1>12. ASSUME NEW d \in Claims PROVE RowInv(d)'
  <2>1. /\ RowInv(d) /\ \A q \in Runs : run'[q].claimed = run[q].claimed
        /\ mails[d] \in Nat /\ audits[d] \in Nat /\ lost[d] \in Nat
    BY <1>1, <1>5, <1>8 DEF IInv, TypeInv
  <2>2. CASE d \in run[r].claimed
    <3>1. audits[d] = 0 /\ lost'[d] = mails[d]
      BY <1>1, <1>9, <2>2 DEF RunInv, MarkInv
    <3> QED BY <1>2, <2>1, <3>1 DEF RowInv
  <2>3. CASE d \notin run[r].claimed
    BY <1>2, <1>6, <2>1, <2>3 DEF RowInv
  <2> QED BY <2>2, <2>3
<1> QED BY <1>7, <1>10, <1>11, <1>12 DEF IInv

(* ReleaseClaim keeps the invariant: it restores what was there before its *)
(* own mark, and nothing when the clock was reset since.                   *)
LEMMA ReleaseClaimInv ==
  ASSUME IInv, NEW r \in Runs, NEW c \in Claims, ReleaseClaim(r, c)
  PROVE  IInv'
<1> DEFINE t == [run[r] EXCEPT !.pc = IF run[r].todo = {c} THEN "group" ELSE "release",
                               !.todo = @ \ {c}, !.claimed = @ \ {c}]
           new == IF OwnMark(r, c)
                  THEN [row[c] EXCEPT !.reminded = run[r].read[c].reminded,
                                      !.count = run[r].read[c].count, !.mark = None]
                  ELSE row[c]
<1>1. run[r] \in RunRows /\ RunInv(r) /\ TypeInv /\ row[c] \in ClaimRows /\ RowInv(c)
  BY DEF IInv, TypeInv
<1>2. c \in run[r].claimed /\ c \in run[r].todo /\ ~run[r].mailed /\ run[r].todo = run[r].claimed
  BY <1>1 DEF ReleaseClaim, RunInv, PhaseInv
<1>3. mails[c] = lost[c] /\ audits[c] = 0 /\ lost[c] \in Nat
  BY <1>1, <1>2 DEF RunInv, MarkInv, TypeInv
<1>4. run' = [run EXCEPT ![r] = t] /\ row' = [row EXCEPT ![c] = new] /\ UNCHANGED <<mails, audits, lost, cut>>
  BY <1>1 DEF ReleaseClaim, GoTo, Others, History, RunRows, TypeInv
<1>5. /\ run[r].read[c].count \in Nat /\ run[r].read[c].reminded \in {None, RepeatEvery}
      /\ run[r].read[c].count = 0 <=> run[r].read[c].reminded = None
  BY <1>1, <1>2 DEF RunInv, ReadInv
<1>6. t \in RunRows /\ new \in ClaimRows
  <2>1. t \in RunRows
    BY <1>1 DEF RunRows, PCs
  <2>2. run[r].read[c].reminded \in 0..RepeatEvery \cup {None}
    BY <1>5, DaysAssumption
  <2>3. new \in ClaimRows
    BY <1>1, <1>5, <2>2 DEF ClaimRows
  <2> QED BY <2>1, <2>3
<1>7. /\ t.claimed = run[r].claimed \ {c} /\ ~t.mailed /\ ReadInv(t) /\ PhaseInv(t)
  BY <1>1, <1>2 DEF RunRows, ReadInv, PhaseInv, RunInv
<1>8. /\ new.count = 0 <=> new.reminded = None
      /\ new.waited < FirstAfter => new.reminded = None
  BY <1>1, <1>5, NullAssumption DEF RowInv, OwnMark, ClaimRows
<1> HIDE DEF t, new
<1>9. TypeInv'
  BY <1>1, <1>4, <1>6 DEF TypeInv
<1>10. /\ \A q \in Runs : run'[q] = IF q = r THEN t ELSE run[q]
       /\ \A d \in Claims : row'[d] = IF d = c THEN new ELSE row[d]
  BY <1>1, <1>4 DEF TypeInv
<1>11. ASSUME NEW q \in Runs PROVE RunInv(q)'
  <2>1. ReadInv(run'[q]) /\ PhaseInv(run'[q])
    BY <1>7, <1>10 DEF IInv, RunInv
  <2>2. ASSUME NEW d \in run'[q].claimed PROVE MarkInv(q, d)'
    <3>1. d \in run[q].claimed /\ d \in Claims
      BY <1>1, <1>7, <1>10, <2>2 DEF TypeInv, RunRows
    <3>2. d # c
      BY <1>2, <1>7, <1>10, <2>2, <3>1 DEF IInv, PairInv
    <3> QED BY <1>2, <1>4, <1>7, <1>10, <3>1, <3>2 DEF IInv, RunInv, MarkInv
  <2> QED BY <2>1, <2>2 DEF RunInv, ReadInv, PhaseInv
<1>12. ASSUME NEW q \in Runs, NEW s \in Runs PROVE PairInv(q, s)'
  BY <1>7, <1>10 DEF IInv, PairInv
<1>13. ASSUME NEW d \in Claims PROVE RowInv(d)'
  <2>1. RowInv(d)
    BY DEF IInv
  <2>2. CASE d = c
    BY <1>3, <1>4, <1>8, <1>10, <2>2 DEF RowInv
  <2>3. CASE d # c
    <3>1. row'[d] = row[d] /\ \A q \in Runs : d \in run[q].claimed => d \in run'[q].claimed
      BY <1>7, <1>10, <2>3
    <3> QED BY <1>4, <2>1, <3>1 DEF RowInv
  <2> QED BY <2>2, <2>3
<1> QED BY <1>9, <1>11, <1>12, <1>13 DEF IInv

(* RecordReminders keeps the invariant: every claim it records was emailed *)
(* about, by this run and no other.                                        *)
LEMMA RecordRemindersInv ==
  ASSUME IInv, NEW r \in Runs, RecordReminders(r)
  PROVE  IInv'
<1> DEFINE t == [run[r] EXCEPT !.pc = "group", !.claimed = {}, !.mailed = FALSE, !.delivered = {}]
<1>1. run[r] \in RunRows /\ RunInv(r) /\ TypeInv
  BY DEF IInv, TypeInv
<1>2. run' = [run EXCEPT ![r] = t] /\ UNCHANGED <<row, mails, lost, cut>>
  BY <1>1 DEF RecordReminders, GoTo, Others, RunRows
<1>3. t \in RunRows
  BY <1>1 DEF RunRows, PCs
<1>4. ReadInv(t) /\ PhaseInv(t) /\ t.claimed = {}
  BY <1>1 DEF ReadInv, PhaseInv, RunInv, RunRows
<1> HIDE DEF t
<1>5. \A d \in Claims : audits'[d] = IF d \in run[r].claimed THEN audits[d] + 1 ELSE audits[d]
  BY DEF RecordReminders
<1>6. \A d \in run[r].claimed : audits[d] = 0 /\ mails[d] = lost[d] + 1
  BY <1>1 DEF RecordReminders, NothingDelivered, RunInv, PhaseInv, MarkInv
<1>7. audits' \in [Claims -> Nat]
  <2>1. audits' = [c \in Claims |-> IF c \in run[r].claimed THEN audits[c] + 1 ELSE audits[c]]
    BY DEF RecordReminders
  <2>2. \A d \in Claims : audits'[d] \in Nat
    BY <1>1, <1>5, <1>6 DEF TypeInv
  <2> QED BY <2>1, <2>2
<1>8. TypeInv'
  BY <1>1, <1>2, <1>3, <1>7 DEF TypeInv
<1>9. \A q \in Runs : run'[q] = IF q = r THEN t ELSE run[q]
  BY <1>1, <1>2 DEF TypeInv
<1>10. ASSUME NEW q \in Runs PROVE RunInv(q)'
  <2>1. ReadInv(run'[q]) /\ PhaseInv(run'[q])
    BY <1>4, <1>9 DEF IInv, RunInv
  <2>2. ASSUME NEW d \in run'[q].claimed PROVE MarkInv(q, d)'
    <3>1. q # r /\ d \in run[q].claimed /\ d \in Claims
      BY <1>1, <1>4, <1>9, <2>2 DEF TypeInv, RunRows
    <3>2. d \notin run[r].claimed
      BY <3>1 DEF IInv, PairInv
    <3> QED BY <1>2, <1>5, <1>9, <3>1, <3>2 DEF IInv, RunInv, MarkInv
  <2> QED BY <2>1, <2>2 DEF RunInv, ReadInv, PhaseInv
<1>11. ASSUME NEW q \in Runs, NEW s \in Runs PROVE PairInv(q, s)'
  BY <1>4, <1>9 DEF IInv, PairInv
<1>12. ASSUME NEW d \in Claims PROVE RowInv(d)'
  <2>1. RowInv(d) /\ mails[d] \in Nat /\ lost[d] \in Nat
    BY <1>1 DEF IInv, TypeInv
  <2>2. CASE d \in run[r].claimed
    BY <1>2, <1>5, <1>6, <2>1, <2>2 DEF RowInv
  <2>3. CASE d \notin run[r].claimed
    <3>1. audits'[d] = audits[d] /\ \A q \in Runs : d \in run[q].claimed => d \in run'[q].claimed
      BY <1>5, <1>9, <2>3
    <3> QED BY <1>2, <2>1, <3>1 DEF RowInv
  <2> QED BY <2>2, <2>3
<1> QED BY <1>8, <1>10, <1>11, <1>12 DEF IInv

(* A day passes. *)
LEMMA TickInv ==
  ASSUME IInv, Tick
  PROVE  IInv'
<1> USE DaysAssumption, NullAssumption
<1>1. TypeInv /\ UNCHANGED run /\ \A r \in Runs : run[r].pc = "idle"
  BY DEF IInv, Tick, InProgress
<1>2. \A r \in Runs : run[r].claimed = {}
  BY <1>1 DEF IInv, RunInv, PhaseInv
<1>3. ASSUME NEW c \in Claims
      PROVE  row'[c] = [row[c] EXCEPT !.waited = IF @ < FirstAfter THEN @ + 1 ELSE @,
                          !.reminded = IF @ \in 0..(RepeatEvery - 1) THEN @ + 1 ELSE @,
                          !.mark = None]
  BY DEF Tick
<1>4. ASSUME NEW c \in Claims
      PROVE  /\ row'[c] \in ClaimRows
             /\ row'[c].status = row[c].status /\ row'[c].count = row[c].count
             /\ row'[c].reminded = None <=> row[c].reminded = None
             /\ row'[c].waited < FirstAfter => row[c].waited < FirstAfter
  <2> DEFINE w == IF row[c].waited < FirstAfter THEN row[c].waited + 1 ELSE row[c].waited
             m == IF row[c].reminded \in 0..(RepeatEvery - 1) THEN row[c].reminded + 1 ELSE row[c].reminded
  <2>1. row[c] \in ClaimRows
    BY <1>1 DEF TypeInv
  <2>2. w \in 0..FirstAfter /\ (w < FirstAfter => row[c].waited < FirstAfter)
    BY <2>1 DEF ClaimRows
  <2>3. m \in 0..RepeatEvery \cup {None} /\ (m = None <=> row[c].reminded = None)
    BY <2>1 DEF ClaimRows
  <2>4. row'[c] = [row[c] EXCEPT !.waited = w, !.reminded = m, !.mark = None]
    BY <1>3
  <2> HIDE DEF w, m
  <2>5. row'[c] \in ClaimRows
    BY <2>1, <2>2, <2>3, <2>4 DEF ClaimRows
  <2> QED BY <2>1, <2>2, <2>3, <2>4, <2>5 DEF ClaimRows
<1>5. \A c \in Claims : /\ mails'[c]  = IF Overdue(row'[c]) THEN 0 ELSE mails[c]
                        /\ audits'[c] = IF Overdue(row'[c]) THEN 0 ELSE audits[c]
                        /\ lost'[c] = IF Overdue(row'[c]) THEN 0 ELSE lost[c]
                        /\ c \in cut' <=> c \in cut /\ ~Overdue(row'[c])
  BY <1>1 DEF Tick
<1>6. TypeInv'
  <2>1. row' \in [Claims -> ClaimRows]
    <3>1. row' = [c \in Claims |-> row'[c]]
      BY DEF Tick
    <3> QED BY <1>4, <3>1
  <2>2. \A c \in Claims : mails'[c] \in Nat /\ audits'[c] \in Nat /\ lost'[c] \in Nat
    BY <1>1, <1>5 DEF TypeInv
  <2>3. /\ mails' = [c \in Claims |-> mails'[c]] /\ audits' = [c \in Claims |-> audits'[c]]
        /\ lost' = [c \in Claims |-> lost'[c]]
    BY DEF Tick
  <2>4. /\ mails' \in [Claims -> Nat] /\ audits' \in [Claims -> Nat]
        /\ lost' \in [Claims -> Nat]
    BY <2>2, <2>3
  <2> QED BY <1>1, <2>1, <2>4 DEF TypeInv
<1>7. ASSUME NEW c \in Claims PROVE RowInv(c)'
  <2>1. RowInv(c)
    BY DEF IInv
  <2>2. CASE Overdue(row'[c])
    BY <1>4, <1>5, <2>1, <2>2 DEF RowInv
  <2>3. CASE ~Overdue(row'[c])
    <3>1. \/ row'[c].status = "OTHER" \/ row'[c].waited < FirstAfter
          \/ row'[c].reminded \in 0..(RepeatEvery - 1)
      BY <1>4, <2>3 DEF Overdue, ClaimRows
    <3> QED BY <1>1, <1>2, <1>4, <1>5, <2>1, <2>3, <3>1 DEF RowInv
  <2> QED BY <2>2, <2>3
<1>8. ASSUME NEW r \in Runs PROVE RunInv(r)'
  BY <1>1, <1>2 DEF IInv, RunInv, ReadInv, PhaseInv
<1>9. ASSUME NEW r \in Runs, NEW q \in Runs PROVE PairInv(r, q)'
  BY <1>1, <1>2 DEF PairInv
<1> QED BY <1>6, <1>7, <1>8, <1>9 DEF IInv

(* Runs are cut off, and with them what they had marked. *)
LEMMA CrashInv ==
  ASSUME IInv, NEW S \in {Runs} \cup {{r} : r \in Runs}, Crash(S)
  PROVE  IInv'
<1>1. /\ TypeInv /\ UNCHANGED <<row, mails, audits, lost>>
      /\ \A r \in Runs : run'[r] = IF r \in S THEN NoRun ELSE run[r]
      /\ cut' = cut \cup UNION {run[r].claimed : r \in S}
  BY DEF IInv, Crash, Unfinished
<1>2. run' \in [Runs -> RunRows]
  <2>1. run' = [r \in Runs |-> IF r \in S THEN NoRun ELSE run[r]]
    BY DEF Crash
  <2> QED BY <1>1, <2>1, NoRunIsRun DEF TypeInv
<1>3. NoRun.claimed = {} /\ ReadInv(NoRun) /\ PhaseInv(NoRun)
  BY DEF NoRun, ReadInv, PhaseInv
<1>4. ASSUME NEW r \in Runs PROVE RunInv(r)'
  <2>1. CASE r \in S
    BY <1>1, <1>3, <2>1 DEF RunInv, ReadInv, PhaseInv
  <2>2. CASE r \notin S
    <3>1. run'[r] = run[r] /\ RunInv(r)
      BY <1>1, <2>2 DEF IInv
    <3> QED BY <1>1, <3>1 DEF RunInv, ReadInv, PhaseInv, MarkInv
  <2> QED BY <2>1, <2>2
<1>5. ASSUME NEW r \in Runs, NEW q \in Runs PROVE PairInv(r, q)'
  BY <1>1, <1>3 DEF IInv, PairInv
<1>6. ASSUME NEW c \in Claims PROVE RowInv(c)'
  <2>1. ASSUME NEW r \in Runs, c \in run[r].claimed PROVE c \in cut' \/ c \in run'[r].claimed
    BY <1>1, <2>1
  <2>2. RowInv(c) /\ cut \subseteq cut'
    BY <1>1 DEF IInv
  <2> QED BY <1>1, <2>1, <2>2 DEF RowInv
<1> QED BY <1>1, <1>2, <1>4, <1>5, <1>6 DEF IInv, TypeInv

-----------------------------------------------------------------------------
(* The invariant.                                                          *)

(* Init establishes it: nothing waits, nobody is reminded. *)
LEMMA InitInv == Init => IInv
<1> SUFFICES ASSUME Init PROVE IInv
  OBVIOUS
<1> USE DaysAssumption, NullAssumption DEF Init
<1>1. TypeInv
  BY NoRunIsRun DEF TypeInv, RunRows, ClaimRows, PCs, NoRun
<1>2. ASSUME NEW r \in Runs PROVE RunInv(r)
  BY <1>2 DEF RunInv, ReadInv, PhaseInv, NoRun
<1>3. ASSUME NEW r \in Runs, NEW q \in Runs PROVE PairInv(r, q)
  BY <1>3 DEF PairInv, NoRun
<1>4. ASSUME NEW c \in Claims PROVE RowInv(c)
  BY <1>4 DEF RowInv
<1> QED BY <1>1, <1>2, <1>3, <1>4 DEF IInv

(* Every step keeps it. *)
LEMMA NextInv == IInv /\ [Next]_vars => IInv'
<1> SUFFICES ASSUME IInv, [Next]_vars PROVE IInv'
  OBVIOUS
<1>1. ASSUME NEW r \in Runs, Proceed(r) PROVE IInv'
  BY <1>1, LoadFinanceInv, GroupInv, EndRunInv, ClaimForRunInv, StartSendingInv, SendInv,
     AnswerLostInv, SendFailsInv, StartReleaseInv, ReleaseClaimInv, RecordRemindersInv DEF Proceed, Recipients
<1>2. ASSUME NEW u, SetActive(u) PROVE IInv'
  BY <1>2 DEF SetActive, History, IInv, TypeInv, RunInv, MarkInv, PairInv, RowInv
<1>3. CASE UNCHANGED vars
  BY <1>3 DEF vars, IInv, TypeInv, RunInv, MarkInv, PairInv, RowInv
<1> QED BY <1>1, <1>2, <1>3, ScanInv, MovesInv, TickInv, CrashInv DEF Next

(* The invariant holds throughout. *)
LEMMA Invariance == Spec => []IInv
<1> QED BY InitInv, NextInv, PTL DEF Spec

-----------------------------------------------------------------------------
(* The theorems.                                                           *)

(* "Only one run can remind about it per window"                           *)
(* (approvalReminderService.ts:13-15): whatever runs overlap, however many *)
(* recipients a group has, and whichever emails fail; a run more for each  *)
(* that was told of no delivery although its emails were sent.             *)
THEOREM RemindedOncePerWindow == Spec => []OneReminderPerWindow
<1>1. IInv => OneReminderPerWindow
  BY DEF IInv, RowInv, OneReminderPerWindow
<1> QED BY <1>1, Invariance, PTL

(* lastRemindedAt and reminderCount agree, and a wait that is too short    *)
(* shows no reminder: releaseClaim() (approvalReminderService.ts) never    *)
(* restores marks of an earlier wait.                                      *)
THEOREM MarksAgree == Spec => []BookkeepingAgrees
<1>1. IInv => BookkeepingAgrees
  BY DEF IInv, RowInv, BookkeepingAgrees
<1> QED BY <1>1, Invariance, PTL

(* An audit row stands for a run that emailed somebody, and every such run *)
(* has its row once it is over, unless it was told of no delivery, or a    *)
(* crash cut it off.                                                       *)
THEOREM AuditsFollowMails == Spec => []AuditMatchesMail
<1>1. IInv => AuditMatchesMail
  BY DEF IInv, RowInv, AuditMatchesMail
<1> QED BY <1>1, Invariance, PTL
=============================================================================
