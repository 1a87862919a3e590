------------------------------ MODULE ClaimLists ------------------------------
(***************************************************************************)
(* The paged, filtered lists of claims (AssignedClaimsPage, AllClaimsPage, *)
(* MyClaimsPage), their cached queries, the selection of rows, and handing *)
(* the selected claims to another approver.                                *)
(*                                                                         *)
(* The total and the rows of a page are two statements of the server, run  *)
(* at once; here they are one.  A selection keeps ids; `picked` remembers  *)
(* beside an id the row that was shown when it was picked.                 *)
(***************************************************************************)
EXTENDS ClaimListing

CONSTANTS
  Viewers,      \* the users whose list may be open
  Views,        \* what a filter bar may be set to: [status, approver], HomeView included
  PageSize,     \* 10 in every list
  MaxBulk,      \* claims in one bulk request, 100
  MaxPage,      \* bound on pages
  MaxMoves      \* bound on changes of filter or page

AllStatuses == ""

\* The filters a page opens with: none, or pending claims in AssignedClaimsPage.
HomeView(u) ==
  [status |-> IF Role[u] = "APPROVER" THEN "PENDING_APPROVAL" ELSE AllStatuses,
   approver |-> None]

ASSUME ViewerAssumption == Viewers \subseteq Users
ASSUME ViewsAssumption  == \A u \in Viewers : HomeView(u) \in Views
ASSUME ListAssumption   == {PageSize, MaxBulk, MaxPage} \subseteq Nat \ {0} /\ MaxMoves \in Nat

VARIABLES
  viewer,       \* the user
  view, page,   \* state of the page: filterValues, page
  picked,       \* the selected ids, with the row each was picked from, or None
  cache,        \* query cache: cache[v][p], for view v and page p
  job,          \* the bulk request under way
  told,         \* the operation of the last handover reported as done, 0 if none
  moves

listVars == <<viewer, view, page, picked, cache, job, told, moves>>

IsDecidedView(v) == Role[viewer] = "APPROVER" /\ v.status \in {"APPROVED", "REJECTED"}

\* toClaimFilters(), and decidedById for the decided views of AssignedClaimsPage.
FilterOf(v) ==
  [NoFilter EXCEPT !.status    = IF v.status = AllStatuses THEN {} ELSE {v.status},
                   !.approver  = v.approver,
                   !.decidedBy = IF IsDecidedView(v) THEN viewer ELSE None]

\* Only Finance filters by approver, and only claimants have drafts.
Offered(v) ==
  /\ v.approver # None => Role[viewer] = "FINANCE"
  /\ v.status = "DRAFT" => Role[viewer] = "CLAIMANT"
  /\ v.status = "CANCELLED" => Role[viewer] # "APPROVER"

\* Mutant: whatever is in review can be selected.
ClientCanReassignInReview(row, u) ==
  IsInReview(row.status) /\ (Role[u] = "FINANCE" \/ row.assignedApprover = u)

\* canReassignClaim() of the client.
ClientCanReassign(row, u) ==
  /\ row.status \in {"PENDING_APPROVAL", "INFO_REQUESTED"}
  /\ row.approverApprovedBy = None
  /\ Role[u] = "FINANCE" \/ row.assignedApprover = u

Selected == {c \in Claims : picked[c] # None}

NothingPicked == [c \in Claims |-> None]

-----------------------------------------------------------------------------
(* Queries.                                                                *)

\* asOf is the number of operations the rows show, -1 for no rows at all; `crossed`,
\* that a handover was reported while the fetch was under way and did not restart it.
NoPage == [row |-> NothingPicked, asOf |-> -1, total |-> -1, crossed |-> FALSE]

NoEntry == [data |-> NoPage, stale |-> FALSE, fetching |-> FALSE, reply |-> NoPage]

Refetch(e) == [e EXCEPT !.fetching = TRUE, !.reply = NoPage]

Shown == cache[view][page]

Rows == {c \in Claims : Shown.data.row[c] # None}

\* Opening a list fetches it unless it is cached, valid and not `aged` beyond staleTime.
Opened(v, p) ==
  {[cache EXCEPT ![v][p] = e] :
     e \in {IF ~cache[v][p].fetching /\ (cache[v][p].data = NoPage \/ cache[v][p].stale \/ aged)
            THEN Refetch(cache[v][p]) ELSE cache[v][p] : aged \in BOOLEAN}}

\* ClaimFilterBar: a new filter starts at its first page, with nothing selected.
ChangeView(v) ==
  /\ moves < MaxMoves /\ moves' = moves + 1
  /\ v # view /\ Offered(v)
  /\ view' = v /\ page' = 1 /\ picked' = NothingPicked
  /\ cache' \in Opened(v, 1)
  /\ UNCHANGED <<viewer, job, told, tables>>

\* Pagination, which is shown with a page that has rows.
GoToPage(p) ==
  /\ moves < MaxMoves /\ moves' = moves + 1
  /\ Rows # {} /\ Shown.data.total > 0
  /\ \/ p = page - 1 /\ p >= 1
     \/ p = page + 1 /\ p <= MaxPage /\ page * PageSize < Shown.data.total
  /\ page' = p
  /\ cache' \in Opened(view, p)
  /\ UNCHANGED <<viewer, view, picked, job, told, tables>>

\* listClaims()
FindClaims(v, p) ==
  /\ cache[v][p].fetching /\ cache[v][p].reply.asOf = -1
  /\ \E order \in NewestFirst :
       LET all  == Matching(viewer, FilterOf(v))
           rows == Window(all, order, (p - 1) * PageSize, PageSize)
       IN cache' = [cache EXCEPT ![v][p].reply =
            [@ EXCEPT !.row = [c \in Claims |-> IF c \in rows THEN claims[c] ELSE None],
                      !.asOf = ops, !.total = Cardinality(all)]]
  /\ UNCHANGED <<viewer, view, page, picked, job, told, moves, tables>>

ListArrives(v, p) ==
  LET reply == cache[v][p].reply IN
  /\ cache[v][p].fetching /\ reply.asOf # -1
  /\ cache' = [cache EXCEPT ![v][p] = [NoEntry EXCEPT !.data = reply]]
  /\ UNCHANGED <<viewer, view, page, picked, job, told, moves, tables>>

\* Refused or lost, which is one failure to the list; what was cached stays on the screen,
\* below the error.  A list on the screen is stale and not being fetched only after that.
ListFails(v, p) ==
  /\ cache[v][p].fetching /\ cache[v][p].reply.asOf = -1
  /\ cache' = [cache EXCEPT ![v][p] = [NoEntry EXCEPT !.data = cache[v][p].data,
                                                      !.stale = TRUE]]
  /\ UNCHANGED <<viewer, view, page, picked, job, told, moves, tables>>

RetryList ==
  /\ Shown.stale /\ ~Shown.fetching
  /\ cache' = [cache EXCEPT ![view][page] = Refetch(@)]
  /\ UNCHANGED <<viewer, view, page, picked, job, told, moves, tables>>

-----------------------------------------------------------------------------
(* Selection (Table).  MyClaimsPage and the decided views have none.       *)

HasSelection == Role[viewer] # "CLAIMANT" /\ ~IsDecidedView(view)

Selectable == {c \in Rows : HasSelection /\ ClientCanReassign(Shown.data.row[c], viewer)}

\* toggleRow() and toggleAll(): S is one row, or all of the page.
Toggle(S) ==
  /\ S # {} /\ S \subseteq Selectable
  /\ Cardinality(S) = 1 \/ S = Selectable
  /\ picked' = [c \in Claims |->
       IF c \notin S THEN picked[c]
       ELSE IF S \subseteq Selected THEN None
       ELSE IF c \in Selected THEN picked[c] ELSE Shown.data.row[c]]
  /\ UNCHANGED <<viewer, view, page, cache, job, told, moves, tables>>

ClearSelection ==
  /\ Rows # {} /\ Selected # {}
  /\ picked' = NothingPicked
  /\ UNCHANGED <<viewer, view, page, cache, job, told, moves, tables>>

-----------------------------------------------------------------------------
(* Handing the selection over.                                             *)

IdleJob == [pc |-> "idle", rows |-> NothingPicked, to |-> None, at |-> 0]

Ids(j) == {c \in Claims : j.rows[c] # None}

\* The dialog offers the approvers that were active when it fetched them, without oneself.
Targets == Approvers \ {viewer}

\* BulkReassignAction; the dialog can be closed, and rows selected, before the answer.
HandOver(to) ==
  /\ job.pc = "idle"
  /\ Rows # {} /\ Selected # {}
  /\ to \in Targets
  /\ job' = [IdleJob EXCEPT !.pc = "sent", !.rows = picked, !.to = to]
  /\ UNCHANGED <<viewer, view, page, picked, cache, told, moves, tables>>

\* reassignClaimsBulk(): all or none.
AcceptsHandOver(j) ==
  /\ Cardinality(Ids(j)) <= MaxBulk
  /\ j.to \in active
  /\ \A c \in Ids(j) : IsReassignableBy(claims[c], viewer) /\ claims[c].assignedApprover # j.to

ServeHandOver ==
  /\ job.pc = "sent" /\ AcceptsHandOver(job)
  /\ ops < MaxOps
  /\ claims' = [c \in Claims |-> IF c \in Ids(job) THEN HandedOver(claims[c], job.to)
                                                   ELSE claims[c]]
  /\ ops' = ops + 1
  /\ job' = [job EXCEPT !.pc = "done", !.at = ops + 1]
  /\ UNCHANGED <<viewer, view, page, picked, cache, told, moves, active>>

\* Mutant: only the list on the screen is fetched anew.
InvalidatedShownOnly ==
  [cache EXCEPT ![view][page] = Refetch([@ EXCEPT !.stale = TRUE])]

\* invalidateQueries(): the open list is fetched anew, the others when they are opened.
\* A fetch under way goes on if its list is not open, or has no rows to show yet (React
\* Query gives it up only for a query that has data), and its answer clears the mark.
Invalidated ==
  [v \in Views |-> [p \in 1..MaxPage |->
     LET e == [cache[v][p] EXCEPT !.stale = TRUE] IN
     IF v = view /\ p = page /\ (e.data # NoPage \/ ~e.fetching)
     THEN Refetch(e)
     ELSE [e EXCEPT !.reply.crossed = e.fetching]]]

\* onSuccess and onDone, whatever is selected by now.
HandOverDone ==
  /\ job.pc = "done"
  /\ told' = job.at
  /\ job' = IdleJob
  /\ picked' = NothingPicked
  /\ cache' = Invalidated
  /\ UNCHANGED <<viewer, view, page, moves, tables>>

\* Refused, or the request or its answer is lost: the selection stays.
HandOverFails ==
  /\ job.pc # "idle"
  /\ job' = IdleJob
  /\ UNCHANGED <<viewer, view, page, picked, cache, told, moves, tables>>

-----------------------------------------------------------------------------
ListInit ==
  /\ viewer \in Viewers
  /\ view = HomeView(viewer)
  /\ page = 1
  /\ picked = NothingPicked
  /\ cache = [v \in Views |-> [p \in 1..MaxPage |->
                IF v = view /\ p = 1 THEN Refetch(NoEntry) ELSE NoEntry]]
  /\ job = IdleJob /\ told = 0 /\ moves = 0

QueryStep(v, p) ==
  FindClaims(v, p) \/ ListArrives(v, p) \/ ListFails(v, p)

ListStep ==
  \/ \E v \in Views : ChangeView(v)
  \/ \E p \in 1..MaxPage : GoToPage(p)
  \/ \E v \in Views, p \in 1..MaxPage : QueryStep(v, p)
  \/ RetryList
  \/ \E S \in SUBSET Claims : Toggle(S)
  \/ ClearSelection
  \/ \E to \in Approvers : HandOver(to)
  \/ ServeHandOver \/ HandOverDone \/ HandOverFails

-----------------------------------------------------------------------------
(* Properties.                                                             *)

(* A handover the server refuses was refused for something the pages could *)
(* not know or say: a claim changed after its row was picked, perhaps on   *)
(* another page since left; the new approver was deactivated; or the       *)
(* selection holds more than a request may, or a claim the chosen approver *)
(* has already, which Finance's selection across approvers allows          *)
(* (ReassignApprover.tsx:164).                                             *)
HandoverFailsForCause ==
  job.pc = "sent" /\ ~AcceptsHandOver(job) =>
    \/ \E c \in Ids(job) : claims[c] # job.rows[c]
    \/ job.to \notin active
    \/ Cardinality(Ids(job)) > MaxBulk
    \/ Role[viewer] = "FINANCE" /\ \E c \in Ids(job) : job.rows[c].assignedApprover = job.to

(* A list shown as up to date shows the handover its user was told of, on  *)
(* every page and under every filter.  The one exception is a list whose   *)
(* fetch was under way when the user was told and went on: the list had    *)
(* been left, or the user had just turned to it and it showed nothing yet. *)
(* The answer, perhaps of before the handover, makes such a list look up   *)
(* to date (useClaimDecisions.ts:9).                                       *)
HandoverIsShown ==
  Shown.data # NoPage /\ ~Shown.stale /\ ~Shown.fetching =>
    Shown.data.asOf >= told \/ Shown.data.crossed
=============================================================================
