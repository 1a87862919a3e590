# A verification project for ClaimReimbursment

ClaimReimbursment is an expense claim system: claimants file claims with line
items and receipts, approvers decide on them, Finance has the last word above a
threshold. It is an Express/Prisma server on PostgreSQL (`src/backend`) and a
React client (`src/frontend`). This directory holds TLA+ models of the server, of
its first start, and of the client's pages, sessions and requests; the TLC
configurations that check them; and TLAPS proofs. File names without a path below are in
`src/backend/src/services/`.

## 1. Inventory

### Components, their state and operations

| Component | State it keeps | Operations | Module |
|---|---|---|---|
| Claim state machine (`claimStateMachine.ts`, `middleware/authorize.ts`) | none | what may be edited, submitted, cancelled, decided, reassigned, answered, and by whom | `ClaimStateMachine` |
| Claim mutations (`claimMutationService.ts`) | tables `Claim`, `ClaimItem`, `ClaimMessage` | create, update, add/update/delete item, submit, resubmit, cancel, approve (or escalate), reject, request info, respond | `ClaimLifecycle`, `ClaimTransactions` |
| Reassignment (`claimReassignmentService.ts`) | `assignedApproverId`, the review clock | reassign one claim, a list, a whole queue | same |
| Approver assignment (`approverAssignmentService.ts`) | an advisory lock | pick the least loaded active approver, in turn | same, `ApproverAssignment` |
| Totals (`claimTotalService.ts`) | the cached `Claim.total` | recalculate | `ClaimLifecycle`, `ClaimTransactions` |
| Audit log (`auditLogService.ts`), messages (`claimMessageService.ts`) | `AuditLog`, `ClaimMessage` | append, list | same, in part |
| Receipts and storage (`receiptService.ts`, `storage/`) | table `Receipt` and a file store outside every transaction | upload, delete, download | `ReceiptFiles` |
| Approval reminders (`approvalReminderService.ts`, `jobs/`) | `assignedAt`, `lastRemindedAt`, `reminderCount` | a run, by cron or by Finance | `ApprovalReminders` |
| Expense categories (`expenseCategoryService.ts`) | table `ExpenseCategory`, `ClaimItem.categoryLimit` | create, change, delete; read by item saves | `ExpenseCategories` |
| Queries and visibility (`claimQueryService.ts`, `claimScope.ts`) | none | lists by filter and page, details, who sees what | `ClaimQueries`, `ClaimListing` |
| Finance export (`exportService.ts`, `ExportPage.tsx`) | the offset of a running export | read the table in batches, stream, save | `FinanceExport` |
| Dashboards (`dashboardService.ts`) | none | the claims its figures count | `ClaimDashboards` |
| Sessions (`authService.ts`, `middleware/authenticate.ts`, `AuthContext.tsx`) | a cookie per browser; a user and a query cache per tab | sign in, sign out, reload, Back and Forward, fetch; expiry | `ClientSessions` |
| Claim pages of the client | query cache, forms | pages that show one cached claim and send one or several requests about it | `ClientRequests` |
| Claim lists of the client | one cached page per filter and page number, selected rows | filter, page, select, hand over | `ClaimLists` |
| Start of a container (`Dockerfile`, `prisma/seed.ts`) | every table | migrate, seed, serve | `DatabaseSeed` |
| Validation, serializers, wiring, other pages | none at run time | | not modelled |

### How they interact

A request is authenticated (a read), validated, and handed to one service
function. Every function that changes a claim opens one database transaction
and starts it with `findClaimForUpdate()`, a `SELECT ... FOR UPDATE` of the
claim's row; the checks, the writes and the audit row follow in that
transaction. There are four exceptions, and they are where it gets hard:

* bulk reassignment reads its claims unlocked and makes each `UPDATE`
  conditional on what it read;
* a submission takes, on top of the row lock, an advisory lock that all
  submissions share;
* receipts live half in the database and half in a file store;
* reminder runs and category changes take no claim lock at all.

Reads take no lock either: a list page is an offset into a table that moves, an
export is many of them, and the seed is some sixty statements without a
transaction. The client knows only what its last fetch returned. Every request is checked
again by the server, none carries a version, and a request whose response is
lost may have been executed.

### What makes each component correct

* **Claims**: the cached total is the sum of the items; nothing above the
  threshold is approved without Finance; a claim in review has something to
  review and somebody to review it; columns of an earlier round do not leak
  into the next; closed claims stay as they are.
* **Transactions**: concurrent requests commit only what some serial order
  would, the audit trail has no gaps, load counts are not stale, and requests
  wait for each other in a circle only where a known weakness lets them.
* **Assignment**: submissions keep the approvers' loads level and their turns in
  order, whatever else moves claims.
* **Receipts**: rows and files stay together except where a failure makes that
  impossible, and evidence is locked while the claim is under review.
* **Reminders**: at most one run reminds about a claim per window, and marks, emails
  and audit rows agree, as far as the mail service's answers arrive; a waiting claim is
  reminded about again and again.
* **Reads**: who signed or decided a claim keeps seeing it; a claim in review is
  work on exactly one dashboard; an export or a handover that errs has a cause
  its user could not see.
* **Sessions**: no tab shows what was asked for under another sign-in, and the user a
  tab names is the one its claims belong to, except in cases that can be named.
* **Seed**: it leaves a database the services keep legal, and no restart undoes
  what users did.
* **Web client**: what a page offers the server accepts, a page shows its user's
  own changes, and files and decisions concern what the user meant.
* **Categories**: items refer to categories that exist; a limit change that
  starts after a submission leaves the submitted items alone.

The hazards behind these, each at its line, are listed in `PROJECT.json`.

## 2. Modules

```
ApprovalWorkflow                     abstract: what approval promises
      ^ implements       ^ implements (every commit)
ClaimLifecycle      ClaimTransactions   ReceiptFiles   ExpenseCategories   ClientRequests
      |  \                 |                 |               |                  |
      |   +--- EXTENDS -- ClaimStateMachine --+---------------+------------------+
      |                       ^
      |                  ClaimQueries
      |                   ^         ^
     ClaimDashboards -----+     ClaimListing
      ^                          ^        ^
     DatabaseSeed           ClaimLists  FinanceExport
                                 ^        ^
ApprovalReminders                ClaimReads    ClientSessions    ApproverAssignment
```

Each `...Proofs` module EXTENDS the module it is named after (section 5); of
three that prove about several, ClaimLifecycleProofs EXTENDS DatabaseSeed, and with it
ClaimDashboards and ClaimLifecycle, and ClientProofs EXTENDS ClientSessions and
ClientRequests, whose specifications are `SessionSpec` and `Spec`. ClaimReadsProofs
covers ClaimListing, ClaimLists and FinanceExport. The `MC*` modules give the
constants of the checked instances.

**ClaimStateMachine** has the predicates of `claimStateMachine.ts` as operators.
The status `ABSENT` stands for a claim id that has no row yet. At its end stand
`StageOf` and `SignaturesOf`, what `ApprovalWorkflow` sees of a claim.

**ClaimLifecycle** has one action per service operation, each atomic, as the row
lock makes it. `claims` is the table `Claim` (status, parties, decision columns,
cycle, total), `items` the amounts in cents, `thread` what the messages amount
to, `audit` the newest audit row, `active` the accounts that are active. The
column `clock` is not in the schema: it names the reviewer for whom
`startReviewClock()` last reset `assignedAt`, `lastRemindedAt` and
`reminderCount`. Amounts are posted in tenths of a cent and stored in cents, as
a `Decimal(10,2)` column does. Which of several equally loaded approvers gets a
claim is left open there.

**ApproverAssignment** is the ranking that decides it: by open claims, then by
the latest `submittedAt` among the claims an approver has now, then by age of the
account. It has the claims of all approvers, cut down to stage, approver and
`submittedAt`. A submission picks its approver under the advisory lock and
commits in a second step; resubmissions that keep their approver, reassignments,
decisions and changes of `isActive` commit in between. Two readings of the clock
may agree. What the approvers have been given is kept in history variables.

**ApprovalWorkflow** says what the approval of claims promises in terms of
stages and signatures only. `ClaimLifecycle!Workflow` is the refinement mapping:
the Finance stage is `isAtFinanceStage()`, the signatures are
`approverApprovedById` and the role of `decidedById`.

**ClaimTransactions** takes the same operations apart into SQL statements under
READ COMMITTED: lock, read, check, (advisory lock, count,) update, commit; or
scan, conditional moves, commit for bulk reassignment. The scan returns its claims by
`createdAt`, and those created at the same instant in any order (`Orders`), which is the
order they are locked in. Any transaction may be
rolled back at any statement. `Over` is the row an UPDATE makes of the one it
replaces. Items are worth 1; changing an item's amount and
the claim's title, whose statements are those of the other edits, is left to
ClaimLifecycle.

**ReceiptFiles** has the rows, the files, and the requests between their steps:
store the file, write the row, clean up; erase the row, remove the files. A
store call may fail with or without effect, a commit may succeed without being
acknowledged, and the server may crash. `unacked` and `stranded` are history
variables that name what those failures excuse.

**ApprovalReminders** has up to two runs, step by step, against everything that
moves a claim's clock. Time is counted in days and ages are capped at the value
the code compares them with. `mails`, `audits` and `cut` are history variables.
`mark` tells which run's timestamp `lastRemindedAt` holds, which in the code is
the timestamp itself; two runs are taken to start at different milliseconds. A call
that throws may have sent its email or not (`AnswerLost`, `SendFails`); `lost` counts the
runs that emailed somebody and were told of no delivery.

**ExpenseCategories** interleaves the statements of category requests with item
saves, item deletions, submissions and decisions of one claim, with the row
locks, the unique index and the foreign key of the database.

**ClientRequests** has one claim and browser tabs that show it. `query` is a
tab's React Query entry: the data, whether it is invalidated or its last fetch
failed, and the fetch under way, which is served and arrives in separate steps,
either of which may fail. `jobs` are event handlers between a click and the last
response they wait for; a handler keeps what the page showed when it started.
`Elsewhere` is everything other users, or other devices of the same user, do.
`Offers` says which buttons the pages of the three roles enable, from the
client's own predicates (`Client...`); `Accepts` and the operators after it are
the server's operations, cut down to the columns a page looks at. A detail is
taken to be read atomically, although the server reads the claim and its items
in separate statements.

**ClaimQueries** has `claimScope()` and the filters of a list. The filters by
date, amount and title behave as the one by status does and are left out.

**ClaimDashboards** defines the sets of claims that the dashboards' figures count,
over the states of ClaimLifecycle. The services change nothing there, so it adds
properties and no actions.

**ClaimListing** is the table that lists and exports are read from: claims with
the columns that scope, filters and buttons look at, changed by the operations of
ClaimLifecycle as far as those columns show them, and pages of it by offset. Rows
created in the same millisecond come in any order, and in another one in the next
query, for `createdAt` is all the queries order by. **ClaimLists** adds a page of
the client: a cached query per filter and page, served and answered in separate
steps, the selection, and the handover of the selected claims with the
invalidation after it. `picked` keeps the row that was shown when it was
selected, `told` counts acknowledged handovers, and both serve the properties
only. **FinanceExport** adds the batches of an export, which may be cut off, and
the saving of the file; `atStart`, `entered` and `left` are history variables.
**ClaimReads** composes the two over one changing table; a behaviour shows one of
the screens, since neither changes anything the other sees.

**ClientSessions** has a browser's cookie and tabs that each remember a user and
keep a cache whose keys do not name one. Requests are served and answered in
separate steps, may be lost, and their answers arrive in any order. Between its pages,
the login page among them, a tab also goes Back and Forward without loading anew
(`Navigate`), so a sign-in may be under way while the claims are shown. `apart` is a
history variable: the cookie was given to somebody else than the tab names. A second
click on "Log out" while the first is under way is left out: what it does then
depends on a page that is being taken down.

**DatabaseSeed** runs the statements of `seed.ts` one by one, each committed by
itself, in containers that crash, restart and overlap. It writes the tables of
ClaimLifecycle; one claim users file and one limit Finance edits stand for all
that is entered meanwhile.

## 3. Runs

| Run | Shows | Bounds, and why they are enough |
|---|---|---|
| `lifecycle` | the invariants and action properties of ClaimLifecycle, and that it implements ApprovalWorkflow | one claim, two items, a claimant, two approvers, one Finance user, two cycles. The properties speak of one claim at a time and only approver load connects claims, which the model leaves open anyway; the second cycle is the one in which columns of the first can leak; amounts cross the threshold both ways, overflow the total, and round to zero. The proofs cover every size. |
| `transactions` | what concurrent transactions commit; when they wait in a circle (`RequestsEnd`) | any two of 20 requests on two claims, from eight states of the first; the second was created at the same instant or later. Conflicts are pairwise; two claims are needed for bulk moves to overlap, and to be locked in opposite orders. |
| `assignment` | loads stay level, turns rotate | three approvers, one of whom may be inactive, three claims, four changes of loads that are not dealt, a clock of three readings. Two approvers compete and a third takes the claims that move between them; three claims make the loads differ by more than dealing may. The proofs cover every size. |
| `receipts` | rows and files, locked evidence, removal of orphans | two requests at a time but any number in sequence, two files, two items |
| `reminders` | at most one reminder per window, marks, emails and audit rows agree | two runs, two approvers, two Finance users, one claim, one crash, one run whose answers are lost; count followed to 1, because only zero or not matters |
| `reminder_liveness` | `WaitingIsReminded` | two claims, one run at a time, one approver, one Finance user, one crash; no lost answers (`MaxLost` is 0): such a run is one whose emails failed, except that somebody was reminded |
| `categories` | what index, foreign key and status filter guarantee | two requests, two categories, three names of which two differ in case only, two limits, one item, one submission |
| `client` | client and server agree on what is possible; own changes are shown | one tab of any user, two handlers, two clicks or requests from elsewhere, five initial claims (one per stage); a disagreement needs a tab and one request beside it, a lost refetch one fetch and one handler |
| `reads` | what a refused handover, a list shown as up to date, and an export owe to their user | three claims, two of them created in the same millisecond, pages of one, batches of two, at most two claims per handover; two operations elsewhere, two changes of filter or page, three of both together; an approver's or Finance's lists. An export errs when one claim moves across one batch boundary: in one table the last claim has a second batch to itself, so it is missed when one before it leaves, in another it is repeated when one enters. A handover errs when one row changes after it was picked. |
| `sessions` | whose claims a tab shows | two tabs, two users, two sign-ins or sign-outs in one tab, at once or in turn, and one in the other; only the first fetches claims, since no tab reads another's. Roles are not looked at. A mix-up needs one switch of accounts, by the tab itself or by the other, and one request that outlives it. |
| `seed` | the seeded database is legal; use survives restarts | two containers, three starts, one filed claim, one edited limit, the seed's own seven claims and items. One crash and one overlap are the cases; a third start follows either. |
| `receipt_item` | refutes what the repository says of the file chosen for a new item (section 6) | those of `client` |

`CHECK_DEADLOCK FALSE` appears where a system may really stop: `receipts` runs
out of storage paths, `categories` out of ids and submissions, clients out of
clicks, `assignment` and `reads` out of operations, `sessions` out of sign-ins and `seed` out of
starts. In `transactions` two finished requests are the end, and requests that wait for
each other are what `RequestsEnd` is about.

### Fairness

* ClaimLifecycle, ApproverAssignment, ExpenseCategories, ClientRequests,
  ClaimReads, ClientSessions and DatabaseSeed assume none: nobody has to act, no container has to start
  again, and nothing promised there is a matter of time.
* ClaimTransactions: weak fairness of each request's next statement. The
  database completes a statement that is not waiting for a lock. Rollbacks are
  not fair, so no request may rely on the transaction timeout or on PostgreSQL's
  deadlock detection; where one has to, `RequestsEnd` names it.
* ReceiptFiles: weak fairness of each handler's next step (the event loop).
* ApprovalReminders: days pass, the cron starts a run when claims are overdue,
  runs go on, and - strong fairness - a recipient who is tried again and again
  is reached at some time. Without the last the mail service may be down for
  good, and nothing can be promised. Crashes are bounded, for the same reason.

### Mutants

Beside some definitions stands one marked `Mutant:`, with the same parameters
and a plausible bug: a dropped guard, a check that is not repeated, a column
that is not reset. `PROJECT.json` names, for each property, a mutant that makes
TLC report it violated; no specification uses them.

## 4. The properties in a sentence each

Each is stated and explained in its module. ClaimLifecycle: `TypeOK`,
`TotalIsSumOfItems`, `FinanceDecidesAboveThreshold`, `ReviewIsSound` (which is
`FinanceStageIsEarned`, `ReviewHasSubject` and `OpenQuestionIsUnanswered`),
`DecisionIsOfThisRound`, `ClockRunsForHolder`, `ClosedForGood`,
`OnlyHolderMovesReview`, `ImplementsWorkflow`. ClaimDashboards: `OwnDecisionsStayInScope`,
`ReviewIsOnOneDashboard`. ClaimTransactions: `CommittedTotalIsSum`,
`CommitsFollowWorkflow`, `AuditTrailIsContinuous`, `OnlyTheHolderHandsOver`,
`CountsAreFresh`, `RequestsEnd`. ApproverAssignment: `LoadsStayLevel`,
`TurnsRotate`. ReceiptFiles: `RowsHaveFiles`, `FilesHaveRows`,
`ReceiptsAttachToItems`, `EvidenceLocked`, `OrphansAreTransient`.
ApprovalReminders: `BookkeepingAgrees`, `OneReminderPerWindow`,
`AuditMatchesMail`, `WaitingIsReminded`. ExpenseCategories: `ItemsHaveCategory`,
`LateChangesSpareReview`. ClientRequests: `OfferedIsAccepted`, `OwnChangesShown`.
ClaimLists: `HandoverFailsForCause`, `HandoverIsShown`. FinanceExport:
`ExportErrsForCause`, `UnfilteredExportIsComplete`. ClientSessions:
`CacheIsOfThisSignIn`, `OwnAnswersOnly`. DatabaseSeed: `SeedIsLegal`,
`UsageSurvives`.

## 5. Proofs

The proofs hold for any number of claims, items, users, requests, runs, tabs,
containers and files, any threshold, and pages and batches of any size. The
assumptions are those the modules name (`ASSUME`), and TLC evaluates them in the
runs: bounds are numbers and page and batch sizes positive ones, `None` is no id and
no number, every user has a role and some approver is active, sets of claims of which something is counted are
finite, the requests of ClaimTransactions name what exists and its claims start as
ClaimLifecycle leaves claims between two transactions (`IsConsistent`), the tables of
ClaimReads start with rows such as the table has (`TablesAssumption`), a list starts
with a filter it offers (`ViewsAssumption`), and the claims that
ClientRequests starts from have rows such as the table has (`StartsAssumption`). Two are
hypotheses of the theorems that need them, and the `seed` run's module states them of its
constants: the seed's users are users, with the seed's roles (`SeedUsersExist`), and its
claims, items, totals and cycles are within the bounds (`SeedFits`). Each module has an inductive invariant, one lemma per
action or statement, and a theorem `Spec => []IInv` from which the properties follow.

* **ClaimLifecycleProofs** proves every property of ClaimLifecycle. None is
  inductive alone. "Finance approves above the threshold" needs that the total
  the escalation was judged by is the sum of the items, that the items cannot
  change at the Finance stage, and that `approverApprovedById` is null whenever
  the claim is back in the approver's queue, for otherwise a question would move
  it to the Finance stage unsigned. `IInv`, defined in ClaimLifecycle, is `TypeOK`
  with `RowInv` (what the columns of a row say about each other), `SubjectInv`
  (row and items) and `QuestionInv` (row and messages) of each claim.
  `WriteKeepsInv` reduces an operation on one claim to the row it writes.
  `WorkflowImplemented` needs the invariant too: an approval is a step of the
  abstract workflow because the escalation test agrees with the abstract one.
  Of the dashboards it proves `SignersInv`: whoever signed or decided a claim as its
  approver still is its approver. `LegalStaysLegal` says that the services keep
  `LegalDatabase` (`IInv` and `SignersInv`) from any start that satisfies it, and
  `SeedServesLegal` that the database an undisturbed seed leaves does. Together: the
  claims a new installation shows obey the same invariants as those users file.
  Of the seed it proves `UsageSurvives`. That nobody's data is deleted rests on the
  first test, `NeedsSeed`, which a container makes long before it deletes: what
  connects them is that without users nobody can have filed anything, that users are the
  first thing a seed writes, and that a seed nobody overlaps runs alone (`SeedInv`).
  `SeedLeavesWholeRows` is the part of `SeedIsLegal` that holds after any crash and
  beside any other seed. `SeedServesLegal` is all of it. Between two statements of a
  seed the database is not legal (a claim has its row before it has its items, its total
  or its question), so the invariant says instead what is there: while a container
  seeds, neither interrupted nor overlapped, the tables hold what the statements
  before the next one wrote, `Contents(Executed(next))`, and between seeds the
  database is empty or legal (`BuiltInv`). `Executed` is a set, for what a statement
  adds depends on the order only in that the deletes come before the first claim, the
  total after its claim's row, and the limits last; `ProgramOrder` derives this from
  the sequence `Program`. What is there when all is executed is legal because each row
  names parties with the right roles, and its total is the sum of at most two items.
* **ClaimTransactionsProofs** proves all safety properties of the interleaved
  statements. The invariant says what the locks are for. While a request holds a
  claim's row lock, the row it has read is the row that is committed and what it
  checked still holds (`SingleInv`); a bulk reassignment knows this only of the
  claims its conditional updates have locked, and of the status alone
  (`BulkInv`); who has counted loads holds the advisory lock (`CountInv`).
  `Bystander` is the non-interference lemma: a transaction that stands still
  keeps its part as long as nobody touches what it has locked. `RowWritten` and
  `RowMoved` say what the committed row is, from which `CommitsAreWorkflowSteps`
  shows every commit to be a step of ApprovalWorkflow.
* **ApproverAssignmentProofs**: a submission that waits to commit was counted when
  its approver was least loaded, and what commits meanwhile moves both sides of
  the bound (`DealInv`); an approver none of whose claims has changed hands still
  has the claim he was last given, with the time it was given (`RecencyInv`).
* **ReceiptFilesProofs** rests on who may still touch a storage path: a path is
  drawn once, so the row an upload writes is nobody else's to remove (`PathInv`,
  `PairInv`); `OwedInv` accounts for files without rows.
* **ExpenseCategoriesProofs**: an item that is written, committed or not, keeps
  its category from being erased (the foreign key's lock); what a change has
  picked, nobody else rewrites (the row locks of items).
* **ApprovalRemindersProofs**: a claim one run has marked cannot be marked by
  another, because the WHERE of `claimForRun()` repeats what the run has read, and
  a clock that was reset meanwhile has not run long enough. A run releases what it has
  marked without having emailed anybody, or it adds to `lost`; so a claim has been
  reminded about at most once more than `lost` says (`RemindedOncePerWindow`), and the
  emails without an audit row are those (`AuditsFollowMails`).
* **ClientProofs**, sessions: a tab that is loading or names no user holds no data;
  otherwise the cookie stands for the user it names, or has expired, or the tab is
  `apart`; and the same holds of each sign-in under way, for the user the tab will name
  when its answer is complete (`TabInv`). A list and a fetch keep whether the tab was
  apart when they were asked for, and an account switch drops both. Pages: a cached claim that is
  not marked stale is at least as new as the last change the page's user was told
  had succeeded, and an answer on its way is too, unless it belongs to a page that has
  been left (`outrun` then says that it arrived late); the page of a claim that is stale
  is fetching it or shows an error
  (`QueryInv`); what is acknowledged is no newer than what the server has done (`AckedInv`).
  That a page offers what the server accepts compares the client's predicates with
  the server's on one snapshot, kind of request by kind of request; from the state it
  needs that a claim's approver has the role APPROVER and that what is offered for
  deletion is an item of the claim (`ServerOK`).
* **ClaimReadsProofs**, lists: a cached page not marked stale is as new as the handover its
  user was last told of, unless that handover crossed its fetch (`FreshInv`), and what is picked could be handed
  over as its row was shown (`SelectionInv`). So a refusal shows that the row has
  changed since. Export: a claim alone in its millisecond has as many rows before
  it as matching claims are older, in any order the database may choose
  (`PositionInOrder`). While nothing older leaves the selection, that number does not
  fall, so the offset cannot pass over the claim (`MissInv`); while nothing older enters, it does not
  rise, so the claim is not read again (`RepeatInv`).

Sums over no items, and over the one or two a seeded claim has, come from lemmas
(`SumOfNothing`, `SumOfItems`) that open the fold of the community modules. What a fold
yields for every argument is induction over data, which the provers at hand cannot
do, and no proof needs it.

Only model-checked: liveness (`RequestsEnd`, `OrphansAreTransient`,
`WaitingIsReminded`), for neither fairness nor ENABLED is within the prover's
reach. The runs check no invariant that no theorem states.

## 6. Where code and documentation disagree

* `receipt_item`: the file chosen for a new item goes to the first item the page
  had not seen, which another tab, or an earlier attempt whose response was
  lost, may have added.

Others came up while modelling and have no run of their own:

* "Only one run can remind about it per window" (`approvalReminderService.ts:13-15`), and
  "repeated calls don't re-send" (`API.md:173`), fails if the mail service sends the
  emails of a run and all its answers are lost: each call throws, nothing counts as
  delivered, the claims are released without an audit row, and the next run sends again.
  `OneReminderPerWindow` and `AuditMatchesMail` say so.
* A bulk reassignment locks claims in the order of `createdAt`, which two claims may
  share (`claimReassignmentService.ts:100,120`). Two bulk reassignments may then lock
  them in opposite orders; PostgreSQL aborts one, and its user gets an error although
  both were legal. `RequestsEnd` shows that this is the only circle.
* `/login` is open to who is signed in (`AppRoutes.tsx:40-42`). Who signs in there as
  somebody else, whose answer is lost after its cookie was set, and goes Back, sees the new user's
  claims under the old user's name, without another tab; `OwnAnswersOnly` names it.
* A page left while its fetch is under way has the marks of later changes cleared when
  the answer, served before them, arrives. Reopened within `staleTime` it shows the old
  claim, or the old list, as if it were up to date, after a toast said the change had
  succeeded. A list the user had just turned to when a handover was reported, and which
  had no data yet, does the same without being left, since an invalidation does not
  restart a first fetch. `OwnChangesShown` and `HandoverIsShown` name these cases.
* An approver approves what the server has, not what the page showed, although the
  claimant is told that the approver "sees the updated claim"
  (`EditClaimPage.tsx:192-193`); requests carry no version.
* Recency of assignment is read off the claims an approver has now, and a claim
  that changes hands takes its `submittedAt` along. An approver who has handed
  over his only claim is dealt the next one before a colleague who never had any,
  although ties go to "whoever was assigned least recently"
  (`approverAssignmentService.ts:4-5`). `TurnsRotate` states what does hold.
* Two concurrent requests can store `travel` and `Travel`, although "names are
  unique case-insensitively" (`expenseCategoryService.ts:13`).
* A limit change that chose its items before a submission moves their limits
  after it, although the limit is "frozen once the claim is in review"
  (`schema.prisma:151`); `LateChangesSpareReview` states what does hold.
* While the claimant is asked a question any unattached receipt may be deleted,
  not "only a new" one (`receiptService.ts:36-37`).
* The export yields "every matching claim as one row" (`exportService.ts:28`) only
  if none moves meanwhile; `ExportErrsForCause` says which rows can be missing or
  repeated.
* A list page beyond the end, reached by handing over or deciding the last claims
  of the last page, shows "You're all caught up" and no pagination
  (`AssignedClaimsPage.tsx:37,129`), although earlier pages have claims.
* A finished handover clears the selection, rows picked after it was sent
  included.
* `awaitingFinanceCount` (`dashboardService.ts:52`) leaves out claims Finance has
  asked about.
* From the day after it was approved, a claim is in no figure of its approver's
  dashboard, which counts approvals of today (`dashboardService.ts:49-50`) and
  rejections for good; it stays in the approver's lists (`OwnDecisionsStayInScope`).
* `seed.ts` is "idempotent - safe to re-run" (`README.md:49`), but a crash after
  its first user leaves part of the data for good, since later starts find a
  user; and it must "NEVER wipe" claims (`seed.ts:8-10`), but does when one of two
  overlapping first starts is still seeding while users file claims
  (`UsageSurvives` names the exception). "7 claims across every status"
  (`seed.ts:291`) has none in `PENDING_FINANCE_APPROVAL`.

Smaller ones: a draft that was never submitted can be resubmitted,
which `API.md` says is only legal from `REJECTED`; an item saved while its
category's limit changes keeps the old limit on a draft, although drafts "follow
the category's current limit"; the claimant is offered to attach a file to a
message while the claim waits for Finance, which the server refuses
(`OfferedIsAccepted` names this exception, and a pending claim's only item, which
is offered for deletion); `AUTHORIZATION.md` says the loser of two concurrent
decisions gets `CLAIM_NOT_PENDING_APPROVAL`, which is not so when the winner
asked a question or escalated; a reminder's audit row is written in a later
transaction than the mark it records, although `auditLogService.ts` says
"always" the same.

## 7. State of the plan, and what is not modelled

Done: claims, transactions, assignment, receipts, reminders, categories, visibility, lists,
dashboards, export, sessions, the claim pages, the seed, the abstract workflow,
and proofs of all their safety properties.

Left: listing and scoping of the audit log and of messages.

Not modelled:

* Validation and serialization: shape checks and formatting, without state;
  ClaimLifecycle keeps that amounts are positive.
* The wiring of the HTTP application, and the APIs of mail and storage providers
  beyond what a call comes to: it succeeds, fails without effect, or fails although it
  took effect (`SendFails` and `AnswerLost`, and the store calls of `ReceiptFiles`).
* Pages that show one query or send one request (categories, employees, audit,
  new claim): the requests are modelled with their services.
* Migrations after the first: they change the schema before a server runs.
* Texts, dates and file contents, and everything visual.
