----------------------------- MODULE DatabaseSeed -----------------------------
(***************************************************************************)
(* The start of the backend's container: migrate, seed, serve.  The seed   *)
(* (prisma/seed.ts) is a list of statements, each a transaction of its     *)
(* own, that runs if the database has no user yet; any of them may be the  *)
(* last one before a crash, and two containers may start at once.  It      *)
(* writes the tables of ClaimLifecycle, whose services run as soon as a    *)
(* server does.                                                            *)
(*                                                                         *)
(* The schema is migrated before; migrations leave no user and no claim.   *)
(* Claim ids are the strings of the seed.  The one operation of the        *)
(* services here is CreateClaim: it stands for all that users enter.       *)
(***************************************************************************)
EXTENDS ClaimDashboards, SequencesExt

CONSTANTS
  Boots,        \* containers
  NewIds,       \* ids of claims that users file
  Edits,        \* the categories whose limit Finance edits
  MaxStarts     \* bound on container starts

ASSUME StartsAssumption == MaxStarts \in Nat
ASSUME IdsAssumption    == NewIds \subseteq ClaimIds

VARIABLES
  users,        \* ids in table User
  limits,       \* table ExpenseCategory: limits[k] is maxAmount, None before the seed
  itemLimit,    \* ClaimItem.categoryLimit: itemLimit[c][i]
  boot,         \* boot[b]: its phase, and the number of the seed's next statement
  starts,       \* container starts so far
  filed,        \* claims users have filed since
  edited,       \* categories Finance has edited since
  interrupted,  \* some seed stopped half way
  overlapped    \* some container was started while another was about to seed

seedVars == <<users, limits, itemLimit, boot, starts, filed, edited, interrupted, overlapped>>

-----------------------------------------------------------------------------
(* The seed's data.                                                        *)

SeedUsers == <<"u_finance1", "u_approver1", "u_approver2", "u_approver3",
               "u_employee1", "u_employee2", "u_employee3">>

SeedRole(u) ==
  CASE u = "u_finance1" -> "FINANCE"
    [] u \in {"u_approver1", "u_approver2", "u_approver3"} -> "APPROVER"
    [] OTHER -> "CLAIMANT"

SeedUsersExist ==
  \A n \in DOMAIN SeedUsers : SeedUsers[n] \in Users /\ Role[SeedUsers[n]] = SeedRole(SeedUsers[n])

CategoryNames == <<"Travel", "Lodging", "Meals", "Training", "Supplies", "Software",
                   "ClientEntertainment", "Other">>

CategoryLimits ==
  [Travel |-> 15000, Lodging |-> 5000, Meals |-> 2000, Training |-> 10000, Supplies |-> 2000,
   Software |-> 5000, ClientEntertainment |-> 5000, Other |-> 2000]

Categories == DOMAIN CategoryLimits

ASSUME EditsAssumption == Edits \subseteq Categories

\* A claim in review by approver a, since its clock was started (assignedAt).
Assigned(u, status, a) ==
  [NewClaim(u) EXCEPT !.status = status, !.assignedApprover = a, !.clock = a]

\* The unit of money is the rupee: no amount here has a fraction.
Item(category, amount) == [category |-> category, amount |-> amount]

Entry(action, u, old, new) == [action |-> action, actor |-> u, old |-> old, new |-> new]

Created(u)      == Entry("CLAIM_CREATED", u, "ABSENT", "DRAFT")
SubmittedBy(u)  == Entry("CLAIM_SUBMITTED", u, "DRAFT", "PENDING_APPROVAL")
RejectedFrom(u) == Entry("CLAIM_REJECTED", u, "PENDING_APPROVAL", "REJECTED")

DraftSeed ==
  [id |-> "c_draft_1", row |-> NewClaim("u_employee1"), asks |-> FALSE,
   items |-> <<Item("Travel", 850), Item("Meals", 620)>>,
   trail |-> <<Created("u_employee1")>>]

PendingSeed ==
  [id |-> "c_pending_1", row |-> Assigned("u_employee2", "PENDING_APPROVAL", "u_approver1"),
   asks |-> FALSE,
   items |-> <<Item("Lodging", 6400), Item("Travel", 9800)>>,
   trail |-> <<Created("u_employee2"), SubmittedBy("u_employee2")>>]

InfoSeed ==
  [id |-> "c_info_1", row |-> Assigned("u_employee1", "INFO_REQUESTED", "u_approver2"),
   asks |-> TRUE,
   items |-> <<Item("Software", 4200)>>,
   trail |-> <<Created("u_employee1"), SubmittedBy("u_employee1"),
               Entry("CLAIM_INFO_REQUESTED", "u_approver2", "PENDING_APPROVAL", "INFO_REQUESTED")>>]

RejectedSeed ==
  [id |-> "c_rejected_1",
   row |-> [Assigned("u_employee3", "REJECTED", "u_approver1") EXCEPT
              !.decidedBy = "u_approver1", !.rejectedBy = "u_approver1"],
   asks |-> FALSE,
   items |-> <<Item("Meals", 5400)>>,
   trail |-> <<Created("u_employee3"), SubmittedBy("u_employee3"), RejectedFrom("u_approver1")>>]

ApprovedSeed ==
  [id |-> "c_approved_1",
   row |-> [Assigned("u_employee2", "APPROVED", "u_approver3") EXCEPT !.decidedBy = "u_finance1"],
   asks |-> FALSE,
   items |-> <<Item("Supplies", 1250)>>,
   trail |-> <<Created("u_employee2"), SubmittedBy("u_employee2"),
               Entry("CLAIM_APPROVED", "u_finance1", "PENDING_APPROVAL", "APPROVED")>>]

CancelledSeed ==
  [id |-> "c_cancelled_1", row |-> [NewClaim("u_employee1") EXCEPT !.status = "CANCELLED"],
   asks |-> FALSE, items |-> <<>>,
   trail |-> <<Created("u_employee1"), Entry("CLAIM_CANCELLED", "u_employee1", "DRAFT", "CANCELLED")>>]

ResubmittedSeed ==
  [id |-> "c_resubmitted_1",
   row |-> [Assigned("u_employee3", "PENDING_APPROVAL", "u_approver2") EXCEPT !.submissionCycle = 2],
   asks |-> FALSE,
   items |-> <<Item("Travel", 18500)>>,
   trail |-> <<Created("u_employee3"), SubmittedBy("u_employee3"), RejectedFrom("u_approver1"),
               Entry("CLAIM_RESUBMITTED", "u_employee3", "REJECTED", "PENDING_APPROVAL")>>]

SeedClaims == {DraftSeed, PendingSeed, InfoSeed, RejectedSeed, ApprovedSeed, CancelledSeed,
               ResubmittedSeed}

-----------------------------------------------------------------------------
(* Its statements, in order; the two items of a claim are sent at once,    *)
(* and stand here in the order of the text.                                *)

ItemAmounts(s) == [i \in DOMAIN s.items |-> s.items[i].amount]

\* Mutant: the total leaves out the item written last.
SeedTotalTooEarly(s) == SumFunction([i \in 1..(Len(s.items) - 1) |-> s.items[i].amount])

SeedTotal(s) == SumFunction(ItemAmounts(s))

Do(op, s, n) == [op |-> op, seed |-> s, n |-> n]

StatementsOf(s) ==
  <<Do("claim", s, 0)>>
    \o [i \in DOMAIN s.items |-> Do("item", s, i)]
    \o (IF s.items = <<>> THEN <<>> ELSE <<Do("total", s, 0)>>)
    \o (IF s.asks THEN <<Do("message", s, 0)>> ELSE <<>>)
    \o [n \in DOMAIN s.trail |-> Do("audit", s, n)]

Program ==
  [n \in DOMAIN SeedUsers |-> Do("user", DraftSeed, n)]
    \o [n \in DOMAIN CategoryNames |-> Do("category", DraftSeed, n)]
    \o <<Do("deleteAudit", DraftSeed, 0), Do("deleteMessages", DraftSeed, 0),
         Do("deleteItems", DraftSeed, 0), Do("deleteClaims", DraftSeed, 0)>>
    \o StatementsOf(DraftSeed) \o StatementsOf(PendingSeed) \o StatementsOf(InfoSeed)
    \o StatementsOf(RejectedSeed) \o StatementsOf(ApprovedSeed) \o StatementsOf(CancelledSeed)
    \o StatementsOf(ResubmittedSeed)
    \o <<Do("limits", DraftSeed, 0)>>

-----------------------------------------------------------------------------
NoItems  == [c \in ClaimIds |-> [i \in ItemIds |-> None]]
NoThread == [c \in ClaimIds |-> [info |-> "NONE", notice |-> FALSE]]
NoAudit  == [c \in ClaimIds |-> Entry("NONE", None, "ABSENT", "ABSENT")]

Phase(b) == boot[b].phase

Exists(c) == claims[c].status # "ABSENT"

\* The container starts, and with it the seed.
Start(b) ==
  /\ Phase(b) = "down" /\ starts < MaxStarts
  /\ starts' = starts + 1
  /\ boot' = [boot EXCEPT ![b] = [phase |-> "starting", next |-> 1]]
  /\ overlapped' = (overlapped \/ \E o \in Boots : Phase(o) \in {"starting", "seeding"})
  /\ UNCHANGED <<vars, users, limits, itemLimit, filed, edited, interrupted>>

\* Mutant: upsert and delete-before-create are trusted to make it safe to run again.
NeedsSeedAlways == TRUE

NeedsSeed == users = {}

CountUsers(b) ==
  /\ Phase(b) = "starting"
  /\ boot' = [boot EXCEPT ![b].phase = IF NeedsSeed THEN "seeding" ELSE "serving"]
  /\ UNCHANGED <<vars, users, limits, itemLimit, starts, filed, edited, interrupted, overlapped>>

\* Common to the statements: container b runs its next one, which is of kind op.
Runs(b, op) ==
  /\ Phase(b) = "seeding"
  /\ Program[boot[b].next].op = op
  /\ boot' = [boot EXCEPT ![b] =
       IF @.next = Len(Program) THEN [@ EXCEPT !.phase = "serving"]
                                ELSE [@ EXCEPT !.next = boot[b].next + 1]]
  /\ UNCHANGED <<starts, filed, edited, interrupted, overlapped>>

Statement(b) == Program[boot[b].next]

SeedOf(b) == Statement(b).seed

UpsertUser(b) ==
  /\ Runs(b, "user")
  /\ LET u == SeedUsers[Statement(b).n] IN
       /\ users' = users \cup {u}
       /\ active' = active \cup ({u} \cap Approvers)
  /\ UNCHANGED <<claims, items, thread, audit, limits, itemLimit>>

UpsertCategory(b) ==
  /\ Runs(b, "category")
  /\ LET k == CategoryNames[Statement(b).n] IN limits' = [limits EXCEPT ![k] = CategoryLimits[k]]
  /\ UNCHANGED <<vars, users, itemLimit>>

DeleteAudit(b) ==
  /\ Runs(b, "deleteAudit")
  /\ audit' = NoAudit
  /\ UNCHANGED <<claims, items, thread, active, users, limits, itemLimit>>

\* Receipts go with the messages: no claim here has one.
DeleteMessages(b) ==
  /\ Runs(b, "deleteMessages")
  /\ thread' = NoThread
  /\ UNCHANGED <<claims, items, audit, active, users, limits, itemLimit>>

DeleteItems(b) ==
  /\ Runs(b, "deleteItems")
  /\ items' = NoItems /\ itemLimit' = NoItems
  /\ UNCHANGED <<claims, thread, audit, active, users, limits>>

\* With all that refers to them: onDelete is Cascade.
DeleteClaims(b) ==
  /\ Runs(b, "deleteClaims")
  /\ claims' = [c \in ClaimIds |-> AbsentClaim]
  /\ items' = NoItems /\ itemLimit' = NoItems /\ thread' = NoThread /\ audit' = NoAudit
  /\ UNCHANGED <<active, users, limits>>

\* A statement that breaks a constraint throws, and the container stops.
InsertClaim(b) ==
  /\ Runs(b, "claim")
  /\ ~Exists(SeedOf(b).id)
  /\ claims' = [claims EXCEPT ![SeedOf(b).id] = SeedOf(b).row]
  /\ UNCHANGED <<items, thread, audit, active, users, limits, itemLimit>>

InsertItem(b) ==
  /\ Runs(b, "item")
  /\ Exists(SeedOf(b).id)
  /\ LET i == Statement(b).n IN
       items' = [items EXCEPT ![SeedOf(b).id][i] = SeedOf(b).items[i].amount]
  /\ UNCHANGED <<claims, thread, audit, active, users, limits, itemLimit>>

UpdateTotal(b) ==
  /\ Runs(b, "total")
  /\ Exists(SeedOf(b).id)
  /\ claims' = [claims EXCEPT ![SeedOf(b).id].total = SeedTotal(SeedOf(b))]
  /\ UNCHANGED <<items, thread, audit, active, users, limits, itemLimit>>

InsertMessage(b) ==
  /\ Runs(b, "message")
  /\ Exists(SeedOf(b).id)
  /\ thread' = [thread EXCEPT ![SeedOf(b).id].info = "INFO_REQUEST"]
  /\ UNCHANGED <<claims, items, audit, active, users, limits, itemLimit>>

InsertAudit(b) ==
  /\ Runs(b, "audit")
  /\ Exists(SeedOf(b).id)
  /\ audit' = [audit EXCEPT ![SeedOf(b).id] = SeedOf(b).trail[Statement(b).n]]
  /\ UNCHANGED <<claims, items, thread, active, users, limits, itemLimit>>

\* The category of an item: only the seed's claims have items here.
CategoryOf(c, i) == (CHOOSE s \in SeedClaims : s.id = c).items[i].category

RecordLimits(b) ==
  /\ Runs(b, "limits")
  /\ itemLimit' = [c \in ClaimIds |-> [i \in ItemIds |->
       IF items[c][i] = None THEN None ELSE limits[CategoryOf(c, i)]]]
  /\ UNCHANGED <<vars, users, limits>>

\* A failed statement, exit(1), or the end of the container for any other reason.
Stop(b) ==
  /\ Phase(b) # "down"
  /\ boot' = [boot EXCEPT ![b].phase = "down"]
  /\ interrupted' = (interrupted \/ Phase(b) = "seeding")
  /\ UNCHANGED <<vars, users, limits, itemLimit, starts, filed, edited, overlapped>>

SeedStep(b) ==
  \/ UpsertUser(b) \/ UpsertCategory(b)
  \/ DeleteAudit(b) \/ DeleteMessages(b) \/ DeleteItems(b) \/ DeleteClaims(b)
  \/ InsertClaim(b) \/ InsertItem(b) \/ UpdateTotal(b) \/ InsertMessage(b) \/ InsertAudit(b)
  \/ RecordLimits(b)

-----------------------------------------------------------------------------
(* Use, while a server runs.                                               *)

Serving == \E b \in Boots : Phase(b) = "serving"

FileClaim(u, c) ==
  /\ Serving /\ u \in users /\ c \notin filed
  /\ CreateClaim(u, c)
  /\ filed' = filed \cup {c}
  /\ UNCHANGED <<users, limits, itemLimit, boot, starts, edited, interrupted, overlapped>>

\* Any limit the seed would not write.
EditedLimit(k) == CategoryLimits[k] + 1

\* updateCategory() with a limit, which items of editable claims follow.
EditLimit(k) ==
  /\ Serving /\ k \notin edited
  /\ limits' = [limits EXCEPT ![k] = EditedLimit(k)]
  /\ itemLimit' = [c \in ClaimIds |-> [i \in ItemIds |->
       IF /\ items[c][i] # None /\ CategoryOf(c, i) = k
          /\ claims[c].status \in {"DRAFT", "REJECTED"}
       THEN EditedLimit(k) ELSE itemLimit[c][i]]]
  /\ edited' = edited \cup {k}
  /\ UNCHANGED <<vars, users, boot, starts, filed, interrupted, overlapped>>

-----------------------------------------------------------------------------
SeedInit ==
  /\ claims = [c \in ClaimIds |-> AbsentClaim]
  /\ items = NoItems /\ thread = NoThread /\ audit = NoAudit
  /\ active = {}
  /\ users = {}
  /\ limits = [k \in Categories |-> None]
  /\ itemLimit = NoItems
  /\ boot = [b \in Boots |-> [phase |-> "down", next |-> 1]]
  /\ starts = 0 /\ filed = {} /\ edited = {}
  /\ interrupted = FALSE /\ overlapped = FALSE

SeedNext ==
  \/ \E b \in Boots : Start(b) \/ CountUsers(b) \/ SeedStep(b) \/ Stop(b)
  \/ \E u \in users, c \in NewIds : FileClaim(u, c)
  \/ \E k \in Edits : EditLimit(k)

SeedSpec == SeedInit /\ [][SeedNext]_<<vars, seedVars>>

-----------------------------------------------------------------------------
(* What the theorems ask of the constants: the tables have room for the    *)
(* seed's users, claims, items, rounds and totals.                         *)
SeedFits ==
  /\ SeedUsersExist
  /\ {s.id : s \in SeedClaims} \subseteq ClaimIds /\ {1, 2} \subseteq ItemIds
  /\ MaxCycle >= 2
  /\ \A s \in SeedClaims : SeedTotal(s) <= MaxMoney

-----------------------------------------------------------------------------
(* Properties.                                                             *)

(* A server that follows a seed nothing disturbed serves a database from   *)
(* which the services keep every invariant of ClaimLifecycle               *)
(* (LegalStaysLegal), with a limit recorded for each item (seed.ts:287).   *)
(* After a crash or beside another seed, rows are still whole: columns of  *)
(* one row agree, but its items, total and messages may be missing.        *)
SeedIsLegal ==
  Serving =>
    /\ DecisionIsOfThisRound /\ ClockRunsForHolder /\ OwnDecisionsStayInScope
    /\ ~interrupted /\ ~overlapped =>
         /\ LegalDatabase
         /\ \A c \in ClaimIds : \A i \in ItemsOf(items[c]) : itemLimit[c][i] # None

(* Claims users filed and limits Finance edited outlive every restart and  *)
(* crash: "this must NEVER wipe+recreate claim data on a deploy where real *)
(* usage has happened" (seed.ts:8-10).  The exception is a container that  *)
(* was started before another had begun to seed, or while it did: it finds *)
(* users, serves, and the other still deletes.                             *)
UsageSurvives ==
  ~overlapped =>
    /\ \A c \in filed : Exists(c)
    /\ \A k \in edited : limits[k] = EditedLimit(k)
=============================================================================
