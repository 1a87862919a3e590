--------------------------- MODULE ApprovalReminders ---------------------------
(***************************************************************************)
(* approvalReminderService.ts: runs of the reminder job, concurrent with   *)
(* each other and with everything that moves a claim between reviewers.    *)
(* A run reads the overdue claims, claims each with a conditional update,  *)
(* emails each recipient, and records what it delivered in a transaction   *)
(* of its own; when nothing could be delivered it takes its marks back.    *)
(* That an email could not be delivered is what the run was told: the mail *)
(* service may have accepted it, and only its answer was lost.             *)
(*                                                                         *)
(* Time is counted in days, and only as far as the code looks: `waited`    *)
(* and `reminded` are the ages of assignedAt and lastRemindedAt, capped.   *)
(* A run ends on the day it starts; so between its read and its updates    *)
(* equal ages mean equal timestamps.                                       *)
(***************************************************************************)
EXTENDS Integers, FiniteSets

CONSTANTS
  Claims,
  Approvers,
  Finance,     \* users with role FINANCE
  Runs,        \* runs that may be in progress together
  FirstAfter,  \* REMINDER_FIRST_AFTER_DAYS
  RepeatEvery, \* REMINDER_REPEAT_EVERY_DAYS
  MaxCount,    \* bound: reminderCount is followed up to here
  MaxCrashes,  \* bound: how often runs are cut off
  MaxLost,     \* bound: runs per window that mail about a claim and are told of no delivery
  None

ASSUME DaysAssumption == FirstAfter \in Nat \ {0} /\ RepeatEvery \in Nat \ {0}
ASSUME CountAssumption == MaxCount \in Nat \ {0}
ASSUME LossAssumption == MaxLost \in Nat
ASSUME NullAssumption == None \notin Nat

VARIABLES
  row,      \* the columns of each claim the job reads and writes
  active,   \* users with isActive = true
  run,      \* the runs
  crashes,  \* how often runs have been cut off
  mails,    \* (history) runs that emailed about a claim since it last fell due
  audits,   \* (history) those of them that recorded having done so
  lost,     \* (history) those of them that were told of no delivery, and gave it up
  cut       \* (history) claims a crash left between mark and audit row

vars == <<row, active, run, crashes, mails, audits, lost, cut>>

Remindable == {"PENDING_APPROVAL", "PENDING_FINANCE_APPROVAL"}

NoRun == [pc |-> "idle", read |-> <<>>, left |-> {}, finance |-> {}, to |-> {},
          todo |-> {}, claimed |-> {}, send |-> {}, mailed |-> FALSE, delivered |-> {}]

GoTo(r, pc, t) == run' = [run EXCEPT ![r] = [t EXCEPT !.pc = pc]]

Others == <<active, crashes>>
History == <<mails, audits, lost, cut>>

-----------------------------------------------------------------------------
(* What the rest of the system does to the clock.                          *)

StartReviewClock(claim) == [claim EXCEPT !.waited = 0, !.reminded = None, !.count = 0, !.mark = None]

SetRow(c, new) ==
  /\ row' = [row EXCEPT ![c] = new]
  /\ UNCHANGED <<run, Others, History>>

\* Submission, resubmission, or the claimant's answer.
EnterQueue(c, status) ==
  /\ row[c].status = "OTHER"
  /\ SetRow(c, StartReviewClock([row[c] EXCEPT !.status = status]))

Escalate(c) ==
  /\ row[c].status = "PENDING_APPROVAL"
  /\ SetRow(c, StartReviewClock([row[c] EXCEPT !.status = "PENDING_FINANCE_APPROVAL"]))

HandOver(c, a) ==
  /\ row[c].status = "PENDING_APPROVAL"
  /\ a \in active /\ a # row[c].approver
  /\ SetRow(c, StartReviewClock([row[c] EXCEPT !.approver = a]))

\* A decision, a cancellation or a question.
LeaveQueue(c) ==
  /\ row[c].status \in Remindable
  /\ SetRow(c, [row[c] EXCEPT !.status = "OTHER"])

SetActive(u) ==
  /\ active' = (active \ {u}) \cup ({u} \ active)
  /\ UNCHANGED <<row, run, crashes, History>>

-----------------------------------------------------------------------------
(* One run.                                                                *)

\* Mutant: only claims never reminded before are found.
OverdueOnce(claim) ==
  /\ claim.status \in Remindable
  /\ claim.waited = FirstAfter
  /\ claim.reminded = None

\* overdueClaimsWhere()
Overdue(claim) ==
  /\ claim.status \in Remindable
  /\ claim.waited = FirstAfter
  /\ claim.reminded \in {None, RepeatEvery}

\* The claims are read with their approvers, so who is to be told of a claim is
\* settled here: its approver, or Finance.
Scan(r) ==
  LET overdue == {c \in Claims : Overdue(row[c])} IN
  /\ run[r].pc = "idle"
  /\ overdue # {}
  /\ GoTo(r, "finance", [NoRun EXCEPT
       !.left = overdue,
       !.read = [c \in overdue |->
         [status |-> row[c].status, reminded |-> row[c].reminded, count |-> row[c].count,
          by |-> IF row[c].status = "PENDING_APPROVAL" /\ row[c].approver \in active
                 THEN row[c].approver ELSE "FINANCE"]]])
  /\ UNCHANGED <<row, Others, History>>

LoadFinance(r) ==
  /\ run[r].pc = "finance"
  /\ GoTo(r, "group", [run[r] EXCEPT !.finance = Finance \cap active])
  /\ UNCHANGED <<row, Others, History>>

\* groupByRecipient(): one group per approver, then Finance's; claims that need
\* Finance are skipped when Finance has nobody.
Group(r, by) ==
  LET group == {c \in run[r].left : run[r].read[c].by = by}
      to    == IF by = "FINANCE" THEN run[r].finance ELSE {by}
  IN
  /\ run[r].pc = "group"
  /\ group # {}
  /\ by = "FINANCE" => group = run[r].left
  /\ GoTo(r, IF to = {} THEN "group" ELSE "claim",
          [NoRun EXCEPT !.read = run[r].read, !.finance = run[r].finance,
                        !.left = run[r].left \ group, !.to = to,
                        !.todo = IF to = {} THEN {} ELSE group])
  /\ UNCHANGED <<row, Others, History>>

EndRun(r) ==
  /\ run[r].pc = "group" /\ run[r].left = {}
  /\ GoTo(r, "idle", NoRun)
  /\ UNCHANGED <<row, Others, History>>

\* Mutant: the mark is set whatever has happened to the claim.
StillOverdueAnyway(r, c) == TRUE

\* The WHERE of claimForRun().
StillOverdue(r, c) ==
  /\ row[c].status = run[r].read[c].status
  /\ row[c].waited = FirstAfter
  /\ row[c].reminded = run[r].read[c].reminded

\* claimForRun(), one claim at a time.
ClaimForRun(r, c) ==
  /\ run[r].pc = "claim"
  /\ c \in run[r].todo
  /\ IF StillOverdue(r, c)
     THEN /\ row' = [row EXCEPT ![c].reminded = 0, ![c].mark = r,
                                ![c].count = IF @ < MaxCount THEN @ + 1 ELSE @]
          /\ GoTo(r, "claim", [run[r] EXCEPT !.todo = @ \ {c}, !.claimed = @ \cup {c}])
     ELSE /\ GoTo(r, "claim", [run[r] EXCEPT !.todo = @ \ {c}])
          /\ UNCHANGED row
  /\ UNCHANGED <<Others, History>>

\* Nothing claimed: on to the next group.
StartSending(r) ==
  /\ run[r].pc = "claim" /\ run[r].todo = {}
  /\ GoTo(r, IF run[r].claimed = {} THEN "group" ELSE "send", [run[r] EXCEPT !.send = run[r].to])
  /\ UNCHANGED <<row, Others, History>>

\* The mail service accepts an email of run r, about all its claims at once.
Mailed(r) ==
  mails' = IF run[r].mailed THEN mails
           ELSE [c \in Claims |-> IF c \in run[r].claimed THEN mails[c] + 1 ELSE mails[c]]

Send(r, u) ==
  /\ run[r].pc = "send"
  /\ u \in run[r].send
  /\ Mailed(r)
  /\ GoTo(r, "send", [run[r] EXCEPT !.send = @ \ {u}, !.mailed = TRUE,
                                    !.delivered = @ \cup {u}])
  /\ UNCHANGED <<row, Others, audits, lost, cut>>

\* The email is accepted, and the call that sent it throws: the answer is lost, or late.
AnswerLost(r, u) ==
  /\ run[r].pc = "send"
  /\ u \in run[r].send
  /\ \A c \in run[r].claimed : lost[c] < MaxLost
  /\ Mailed(r)
  /\ GoTo(r, "send", [run[r] EXCEPT !.send = @ \ {u}, !.mailed = TRUE])
  /\ UNCHANGED <<row, Others, audits, lost, cut>>

SendFails(r, u) ==
  /\ run[r].pc = "send"
  /\ u \in run[r].send
  /\ GoTo(r, "send", [run[r] EXCEPT !.send = @ \ {u}])
  /\ UNCHANGED <<row, Others, History>>

\* Mutant: what was sent is recorded without looking whether it was delivered.
NothingDeliveredNever(r) == FALSE

NothingDelivered(r) == run[r].delivered = {}

StartRelease(r) ==
  /\ run[r].pc = "send" /\ run[r].send = {} /\ NothingDelivered(r)
  /\ GoTo(r, "release", [run[r] EXCEPT !.todo = run[r].claimed, !.mailed = FALSE])
  /\ lost' = [c \in Claims |-> IF run[r].mailed /\ c \in run[r].claimed
                               THEN lost[c] + 1 ELSE lost[c]]
  /\ UNCHANGED <<row, Others, mails, audits, cut>>

\* Mutant: the release is not conditional on the run's own mark.
OwnMarkAny(r, c) == TRUE

OwnMark(r, c) == row[c].reminded = 0 /\ row[c].mark = r

\* releaseClaims(), one claim at a time: back to what was read.
ReleaseClaim(r, c) ==
  /\ run[r].pc = "release"
  /\ c \in run[r].todo
  /\ row' = IF OwnMark(r, c)
            THEN [row EXCEPT ![c].reminded = run[r].read[c].reminded,
                             ![c].count = run[r].read[c].count, ![c].mark = None]
            ELSE row
  /\ GoTo(r, IF run[r].todo = {c} THEN "group" ELSE "release",
          [run[r] EXCEPT !.todo = @ \ {c}, !.claimed = @ \ {c}])
  /\ UNCHANGED <<Others, History>>

\* The audit rows of the group, in one transaction.
RecordReminders(r) ==
  /\ run[r].pc = "send" /\ run[r].send = {} /\ ~NothingDelivered(r)
  /\ audits' = [c \in Claims |-> IF c \in run[r].claimed THEN audits[c] + 1 ELSE audits[c]]
  /\ GoTo(r, "group", [run[r] EXCEPT !.claimed = {}, !.mailed = FALSE, !.delivered = {}])
  /\ UNCHANGED <<row, Others, mails, lost, cut>>

-----------------------------------------------------------------------------
InProgress(r) == run[r].pc # "idle"

\* The next day; no run lasts into it.  A claim falls due (again) for a reminder.
Tick ==
  LET Older(claim) == [claim EXCEPT
        !.waited = IF @ < FirstAfter THEN @ + 1 ELSE @,
        !.reminded = IF @ \in 0..(RepeatEvery - 1) THEN @ + 1 ELSE @,
        !.mark = None]
  IN
  /\ \A r \in Runs : ~InProgress(r)
  /\ row' = [c \in Claims |-> Older(row[c])]
  /\ mails'  = [c \in Claims |-> IF Overdue(row'[c]) THEN 0 ELSE mails[c]]
  /\ audits' = [c \in Claims |-> IF Overdue(row'[c]) THEN 0 ELSE audits[c]]
  /\ lost'   = [c \in Claims |-> IF Overdue(row'[c]) THEN 0 ELSE lost[c]]
  /\ cut' = {c \in cut : ~Overdue(row'[c])}
  /\ UNCHANGED <<run, Others>>

\* Claims marked by a run that has not finished with them.
Unfinished(r) == run[r].claimed

\* Runs end where they are: one of them because a statement failed, which the
\* job only logs, or all of them because the server died.
Crash(S) ==
  /\ crashes < MaxCrashes
  /\ \E r \in S : InProgress(r)
  /\ crashes' = crashes + 1
  /\ cut' = cut \cup UNION {Unfinished(r) : r \in S}
  /\ run' = [r \in Runs |-> IF r \in S THEN NoRun ELSE run[r]]
  /\ UNCHANGED <<row, active, mails, audits, lost>>

Init ==
  /\ row \in [Claims -> {[status |-> "OTHER", approver |-> a, waited |-> 0, reminded |-> None,
                          count |-> 0, mark |-> None] : a \in Approvers}]
  /\ active = Approvers \cup Finance
  /\ run = [r \in Runs |-> NoRun]
  /\ crashes = 0 /\ cut = {}
  /\ mails = [c \in Claims |-> 0] /\ audits = [c \in Claims |-> 0]
  /\ lost = [c \in Claims |-> 0]

Proceed(r) ==
  \/ LoadFinance(r) \/ EndRun(r) \/ StartSending(r) \/ StartRelease(r) \/ RecordReminders(r)
  \/ \E by \in Approvers \cup {"FINANCE"} : Group(r, by)
  \/ \E c \in Claims : ClaimForRun(r, c) \/ ReleaseClaim(r, c)
  \/ \E u \in Approvers \cup Finance : Send(r, u) \/ AnswerLost(r, u) \/ SendFails(r, u)

Move(c) ==
  \/ \E status \in Remindable : EnterQueue(c, status)
  \/ Escalate(c) \/ LeaveQueue(c)
  \/ \E a \in Approvers : HandOver(c, a)

Next ==
  \/ \E r \in Runs : Scan(r) \/ Proceed(r)
  \/ \E c \in Claims : Move(c)
  \/ \E u \in Approvers \cup Finance : SetActive(u)
  \/ Tick
  \/ \E S \in {Runs} \cup {{r} : r \in Runs} : Crash(S)

\* Days pass, the cron fires, runs go on, and the mail service is not down for
\* good: a recipient who is tried again and again is reached.
Fairness ==
  /\ WF_vars(Tick)
  /\ WF_vars(\E r \in Runs : Scan(r))
  /\ \A r \in Runs : WF_vars(Proceed(r))
  /\ \A u \in Approvers \cup Finance : SF_vars(\E r \in Runs : Send(r, u))

Spec == Init /\ [][Next]_vars /\ Fairness

-----------------------------------------------------------------------------
(* Properties.                                                             *)

(* lastRemindedAt and reminderCount tell the same story: together they are *)
(* set, restored and reset, and a wait that is shorter than FirstAfter     *)
(* shows no reminder, however late an earlier run's release arrives.       *)
BookkeepingAgrees ==
  \A c \in Claims :
    /\ row[c].count = 0 <=> row[c].reminded = None
    /\ row[c].waited < FirstAfter => row[c].reminded = None

(* "Only one run can remind about it per window"                           *)
(* (approvalReminderService.ts:13-15), whatever runs overlap, crash or     *)
(* release their claims, with one exception: a run whose emails were sent  *)
(* although each of its calls threw, because the mail service's answers    *)
(* were lost, releases its claims, and leaves room for one run more.       *)
OneReminderPerWindow == \A c \in Claims : mails[c] <= 1 + lost[c]

(* An APPROVAL_REMINDER_SENT row stands for a run that emailed somebody,   *)
(* and every such run has its row once it is over, unless it was told of   *)
(* no delivery because the mail service's answers were lost, or a crash    *)
(* cut it off.                                                             *)
AuditMatchesMail ==
  \A c \in Claims :
    /\ audits[c] + lost[c] <= mails[c]
    /\ audits[c] + lost[c] < mails[c] => c \in cut \/ \E r \in Runs : c \in run[r].claimed

(* A claim that stays with a reviewer is reminded about again and again,   *)
(* whatever emails fail, runs crash or approvers are deactivated, as long  *)
(* as Finance has an active user.                                          *)
WaitingIsReminded ==
  \A c \in Claims :
    []<>(\/ mails[c] > 0
         \/ row[c].status \notin Remindable \/ row[c].waited < FirstAfter
         \/ Finance \cap active = {})
=============================================================================
