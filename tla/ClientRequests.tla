---------------------------- MODULE ClientRequests ----------------------------
(***************************************************************************)
(* The web client against the server: browser tabs that show one claim     *)
(* from a query cache, offer what they show to be possible, and send their *)
(* user's clicks as one or two requests that may get lost.                 *)
(*                                                                         *)
(* The server's side of a request is the operation of ClaimLifecycle that  *)
(* bears its name, cut down to the columns a page looks at.  The client's  *)
(* predicates are those of frontend/src/services/api/stateMachine.ts; they *)
(* stand beside the server's, whose names they share in the code.          *)
(***************************************************************************)
EXTENDS ClaimStateMachine, SequencesExt

CONSTANTS
  Claimant,   \* of the claim
  Tabs,       \* browser tabs that show the claim
  Handlers,   \* event handlers that may be running at the same time
  Starts,     \* the claims the tabs may find, with their items and receipts
  MaxClicks   \* bound: clicks that send something, here or elsewhere

VARIABLES
  user,       \* user[t]: who is signed in; another login starts from an empty cache
  claim,      \* the claim's row
  items,      \* its items in the order of their dates; an item is the number of
              \* the click that added it
  receipts,   \* its receipts: the item each is attached to, the `version` that
              \* stored it, and (history) the item its file was chosen for
  version,    \* (history) number of changes the server has made
  query,      \* query[t]: the cached claim of a tab and the state of its refetch
  open,       \* the tabs whose page is mounted
  jobs,       \* the handlers
  clicks,     \* clicks so far
  acked       \* (history) acked[t]: `version` when a tab, on whatever page, last got
              \* a response to a change of its own and told its user

vars == <<user, claim, items, receipts, version, query, open, jobs, clicks, acked>>

server == <<user, claim, items, receipts, version>>

Approvers == {u \in Users : Role[u] = "APPROVER"}

ItemNumbers == 0..MaxClicks

ClaimRows ==
  [status : Statuses, claimant : Users, assignedApprover : Approvers \cup {None},
   approverApprovedBy : Users \cup {None}, decidedBy : Users \cup {None}]

ReceiptRows == [item : ItemNumbers \cup {None}, for : ItemNumbers \cup {None}, at : Nat]

ASSUME ClicksAssumption   == MaxClicks \in Nat
ASSUME ClaimantAssumption == Claimant \in Users
ASSUME StartsAssumption   ==
  Starts \subseteq [claim : ClaimRows, items : Seq(ItemNumbers), receipts : SUBSET ReceiptRows]

\* What GET /claims/:id returns.
Detail == [claim |-> claim, items |-> items, receipts |-> receipts, version |-> version]

-----------------------------------------------------------------------------
(* What the pages offer.  A click is the request it sends first, the item  *)
(* it is about, and whether the form holds a file besides.                 *)

ClaimantKinds == {"add", "edit", "delete", "upload", "remove", "submit", "cancel",
                  "attach", "respond"}

ReviewerKinds == {"approve", "reject", "ask", "reassign"}

Clicks == [kind : ClaimantKinds \cup ReviewerKinds,
           item : ItemNumbers \cup {None}, file : BOOLEAN]

ClientIsEditableStatus(status) == status \in {"DRAFT", "REJECTED", "PENDING_APPROVAL"}

ClientIsInReview(status) ==
  status \in {"PENDING_APPROVAL", "PENDING_FINANCE_APPROVAL", "INFO_REQUESTED"}

ClientIsAtFinanceStage(c) ==
  \/ c.status = "PENDING_FINANCE_APPROVAL"
  \/ c.status = "INFO_REQUESTED" /\ c.approverApprovedBy # None

\* Mutant: whoever the claim is assigned to may decide it.
ClientCanDecideWhileAssigned(c, u) ==
  /\ ClientIsInReview(c.status)
  /\ Role[u] = "FINANCE" \/ c.assignedApprover = u

ClientCanDecide(c, u) ==
  /\ ClientIsInReview(c.status)
  /\ Role[u] = "FINANCE" \/ (~ClientIsAtFinanceStage(c) /\ c.assignedApprover = u)

ClientCanReassign(c, u) ==
  /\ c.status \in {"PENDING_APPROVAL", "INFO_REQUESTED"}
  /\ c.approverApprovedBy = None
  /\ Role[u] = "FINANCE" \/ c.assignedApprover = u

HasReceipt(d, i) == \E r \in d.receipts : r.item = i

\* EditClaimPage, with the table of items and the form for one of them.
EditPageOffers(d, k) ==
  /\ ClientIsEditableStatus(d.claim.status)
  /\ \/ k.kind = "add"  /\ k.item = None
     \/ k.kind = "edit" /\ k.item \in ToSet(d.items)
     \/ k.kind = "delete" /\ k.item \in ToSet(d.items) /\ ~k.file
     \/ k.kind = "upload" /\ k.item \in ToSet(d.items) /\ ~HasReceipt(d, k.item) /\ ~k.file
     \/ k.kind = "remove" /\ k.item \in ToSet(d.items) /\ HasReceipt(d, k.item) /\ ~k.file
     \/ /\ k.kind = "submit" /\ k.item = None /\ ~k.file
        /\ d.claim.status # "PENDING_APPROVAL" /\ d.items # <<>>
     \/ k.kind = "cancel" /\ k.item = None /\ ~k.file /\ d.claim.status = "DRAFT"

\* ClaimMessagesPanel, ClaimDecisionActions and ReassignClaimAction on the pages of
\* the three roles.  An answer with a file starts by attaching it.
DetailPageOffers(d, u, k) ==
  /\ k.item = None
  /\ IF d.claim.claimant = u
     THEN /\ ClientIsInReview(d.claim.status)
          /\ k.kind = IF k.file THEN "attach" ELSE "respond"
     ELSE /\ ~k.file
          /\ \/ k.kind \in {"approve", "reject", "ask"} /\ ClientCanDecide(d.claim, u)
             \/ k.kind = "reassign" /\ ClientCanReassign(d.claim, u)

Offers(d, u, k) ==
  \/ d.claim.claimant = u /\ EditPageOffers(d, k)
  \/ DetailPageOffers(d, u, k)

-----------------------------------------------------------------------------
(* The server.                                                             *)

\* assertReceiptChangeAllowed()
ReceiptChangeAllowed(item) ==
  IF claim.status = "INFO_REQUESTED" THEN item = None ELSE IsEditableStatus(claim.status)

Accepts(u, kind, item) ==
  CASE kind \in {"add", "edit", "delete"} ->
         /\ claim.claimant = u /\ IsEditableStatus(claim.status)
         /\ kind \in {"edit", "delete"} => item \in ToSet(items)
         /\ kind = "delete" /\ claim.status = "PENDING_APPROVAL" => Len(items) > 1
    [] kind \in {"upload", "attach", "remove"} ->
         /\ claim.claimant = u /\ ReceiptChangeAllowed(item)
         /\ kind = "upload" => item \in ToSet(items)
         /\ kind = "attach" => item = None
         /\ kind = "remove" => HasReceipt(Detail, item)
    [] kind = "submit" ->
         claim.claimant = u /\ IsSubmittableStatus(claim.status) /\ items # <<>>
    [] kind = "cancel" -> claim.claimant = u /\ IsCancellable(claim)
    [] kind = "respond" -> IsRespondableBy(claim, u)
    [] kind \in {"approve", "reject", "ask"} ->
         IsDecisionMaker(u) /\ IsDecidableBy(claim, u)
    [] kind = "reassign" -> IsDecisionMaker(u) /\ IsReassignableBy(claim, u)

\* The rows a claim may become.  A rejected claim goes back to its approver.
NextClaims(u, kind) ==
  CASE kind = "submit" ->
         {[claim EXCEPT !.status = "PENDING_APPROVAL", !.approverApprovedBy = None,
                        !.decidedBy = None, !.assignedApprover = a] :
            a \in IF claim.status = "REJECTED" THEN {claim.assignedApprover} ELSE Approvers}
    [] kind = "cancel"  -> {[claim EXCEPT !.status = "CANCELLED"]}
    [] kind = "respond" ->
         IF claim.status # "INFO_REQUESTED" THEN {claim}
         ELSE {[claim EXCEPT !.status = IF IsAtFinanceStage(claim)
                  THEN "PENDING_FINANCE_APPROVAL" ELSE "PENDING_APPROVAL"]}
    [] kind = "approve" ->
         IF Role[u] # "FINANCE" /\ RequiresFinanceApproval(Len(items))
         THEN {[claim EXCEPT !.status = "PENDING_FINANCE_APPROVAL", !.approverApprovedBy = u]}
         ELSE {[claim EXCEPT !.status = "APPROVED", !.decidedBy = u]}
    [] kind = "reject"  -> {[claim EXCEPT !.status = "REJECTED", !.decidedBy = u]}
    [] kind = "ask"     -> {[claim EXCEPT !.status = "INFO_REQUESTED"]}
    [] kind = "reassign" ->
         {[claim EXCEPT !.assignedApprover = a] : a \in Approvers \ {claim.assignedApprover}}
    [] OTHER -> {claim}

Without(i) == RemoveAt(items, CHOOSE p \in DOMAIN items : items[p] = i)

\* Items as a list by date: a new one may go anywhere, and an edit may move one.
NextItems(j) ==
  CASE j.kind = "add"  -> {InsertAt(items, p, j.click) : p \in 1..Len(items) + 1}
    [] j.kind = "edit" -> {InsertAt(Without(j.item), p, j.item) : p \in 1..Len(items)}
    [] j.kind = "delete" -> {Without(j.item)}
    [] OTHER -> {items}

\* The item the file was chosen for: a form's new item, or the one in the click.
Meant(j) == IF j.clicked = "add" THEN j.click ELSE j.item

\* deleteItem() takes the item's receipts with it.
NextReceipts(j) ==
  CASE j.kind \in {"upload", "attach"} -> 
         {receipts \cup {[item |-> j.item, for |-> Meant(j), at |-> version + 1]}}
    [] j.kind = "delete" -> {{r \in receipts : r.item # j.item}}
    [] j.kind = "remove" -> {receipts \ {r} : r \in {s \in receipts : s.item = j.item}}
    [] OTHER -> {receipts}

-----------------------------------------------------------------------------
(* The query cache (React Query, as queryClient.ts configures it).         *)

NoDetail == [version |-> -1]

NoQuery == [data |-> NoDetail, stale |-> FALSE, failed |-> FALSE,
            fetch |-> "none", reply |-> NoDetail, outrun |-> FALSE]

\* fetch: "none", "sent", or "back" when `reply` is on its way to the tab; `outrun`
\* (history), that the tab's user was told of a change while an older reply was, and
\* nobody gave the fetch up.
Refetch(q) == [q EXCEPT !.fetch = "sent", !.reply = NoDetail, !.outrun = FALSE]

\* Mutant: a refetch that is under way is taken for the one that is needed.
InvalidatedKeepsFetch(t) ==
  [query EXCEPT ![t] = [IF t \in open /\ @.fetch = "none" THEN Refetch(@) ELSE @
                        EXCEPT !.stale = TRUE]]

\* invalidateQueries(): marks the claim stale and, where its page is open, fetches it
\* anew, dropping a fetch that is under way (the click was made on a claim, so there is
\* one to show).  Where it is not, the fetch goes on, and its answer clears the mark.
Invalidated(t) ==
  LET q == [query[t] EXCEPT !.stale = TRUE] IN
  [query EXCEPT ![t] = IF t \in open THEN Refetch(q)
                                     ELSE [q EXCEPT !.outrun = (q.fetch = "back")]]

\* Opening the page fetches a claim that is not cached, invalidated, or `aged` beyond
\* staleTime; a fetch under way is shared.
OpenPage(t) ==
  /\ t \notin open
  /\ open' = open \cup {t}
  /\ \E aged \in BOOLEAN :
       query' = [query EXCEPT ![t] =
         IF @.fetch = "none" /\ (@.data = NoDetail \/ @.stale \/ aged) THEN Refetch(@) ELSE @]
  /\ UNCHANGED <<server, jobs, clicks, acked>>

LeavePage(t) ==
  /\ t \in open
  /\ open' = open \ {t}
  /\ UNCHANGED <<server, query, jobs, clicks, acked>>

\* claimInScope()
InScope(u) ==
  CASE Role[u] = "FINANCE"  -> claim.status # "DRAFT"
    [] Role[u] = "CLAIMANT" -> claim.claimant = u
    [] Role[u] = "APPROVER" -> claim.assignedApprover = u

\* getClaimDetail()
ServeFetch(t) ==
  /\ query[t].fetch = "sent"
  /\ InScope(user[t])
  /\ query' = [query EXCEPT ![t].fetch = "back", ![t].reply = Detail]
  /\ UNCHANGED <<server, open, jobs, clicks, acked>>

FetchArrives(t) ==
  /\ query[t].fetch = "back"
  /\ query' = [query EXCEPT ![t] = [NoQuery EXCEPT !.data = query[t].reply,
                                                    !.outrun = query[t].outrun]]
  /\ UNCHANGED <<server, open, jobs, clicks, acked>>

\* Refused or lost; `retry: false`.  The page shows the error, not the old data.
FetchFails(t) ==
  /\ query[t].fetch # "none"
  /\ query' = [query EXCEPT ![t] = [NoQuery EXCEPT !.data = query[t].data,
                                                    !.stale = TRUE, !.failed = TRUE]]
  /\ UNCHANGED <<server, open, jobs, clicks, acked>>

\* The button of ErrorState.
Retry(t) ==
  /\ t \in open /\ query[t].failed /\ query[t].fetch = "none"
  /\ query' = [query EXCEPT ![t] = Refetch(@)]
  /\ UNCHANGED <<server, open, jobs, clicks, acked>>

-----------------------------------------------------------------------------
(* Handlers: from a click to the last response it waits for.               *)

IdleJob == [pc |-> "idle", tab |-> None, clicked |-> None, kind |-> None, item |-> None,
            file |-> FALSE, seen |-> <<>>, click |-> 0, answer |-> None]

SetJob(h, j) == jobs' = [jobs EXCEPT ![h] = j]

\* A button is disabled while its own request is pending.  The form for an item is
\* enabled again while its file is uploaded.  (Of several uploads the page follows
\* the last only; here each item's button follows its own.)
Disabled(t, k) ==
  \E h \in Handlers : LET j == jobs[h] IN
    /\ j.pc # "idle" /\ j.tab = t
    /\ \/ {j.kind, k.kind} \subseteq {"add", "edit"}
       \/ {j.kind, k.kind} \subseteq {"attach", "respond"}
       \/ j.clicked = "upload" /\ k.kind = "upload" /\ j.item = k.item
       \/ j.kind = k.kind /\ k.kind \notin {"upload", "remove"}

\* The handler keeps what the page showed, whatever is fetched later.
SendClick(h, t, k) ==
  /\ jobs[h].pc = "idle" /\ clicks < MaxClicks
  /\ t \in open /\ query[t].data # NoDetail /\ ~query[t].failed
  /\ Offers(query[t].data, user[t], k)
  /\ ~Disabled(t, k)
  /\ clicks' = clicks + 1
  /\ SetJob(h, [pc |-> "sent", tab |-> t, clicked |-> k.kind, kind |-> k.kind,
                item |-> k.item, file |-> k.file, seen |-> query[t].data.items,
                click |-> clicks + 1, answer |-> None])
  /\ UNCHANGED <<server, query, open, acked>>

\* An answer may refer to a receipt, which must still be there.
AcceptsRequest(u, j) ==
  /\ Accepts(u, j.kind, j.item)
  /\ j.answer # None => \E r \in receipts : r.at = j.answer

\* The server executes the request of handler record j for user u.
Execute(u, j) ==
  /\ AcceptsRequest(u, j)
  /\ claim' \in NextClaims(u, j.kind)
  /\ items' \in NextItems(j)
  /\ receipts' \in NextReceipts(j)
  /\ version' = version + 1
  /\ UNCHANGED user

Serve(h) ==
  /\ jobs[h].pc = "sent"
  /\ Execute(user[jobs[h].tab], jobs[h])
  /\ SetJob(h, [jobs[h] EXCEPT !.pc = "served"])
  /\ UNCHANGED <<query, open, clicks, acked>>

\* A request from somewhere else: another user, or another device of this one.
Elsewhere(u, k) ==
  /\ clicks < MaxClicks /\ ~k.file
  /\ clicks' = clicks + 1
  /\ Execute(u, [IdleJob EXCEPT !.clicked = k.kind, !.kind = k.kind, !.item = k.item,
                                !.click = clicks + 1])
  /\ UNCHANGED <<query, open, jobs, acked>>

\* The rest of a mutation whose request is refused, or whose request or response is
\* lost, is skipped, its invalidation included.
Refuse(h) ==
  LET j == jobs[h] IN
  /\ j.pc = "sent"
  /\ ~AcceptsRequest(user[j.tab], j)
  /\ SetJob(h, IdleJob)
  /\ UNCHANGED <<server, query, open, clicks, acked>>

Lose(h) ==
  /\ jobs[h].pc \in {"sent", "served"}
  /\ SetJob(h, IdleJob)
  /\ UNCHANGED <<server, query, open, clicks, acked>>

LastReceipt == CHOOSE r \in receipts : \A s \in receipts : s.at <= r.at

\* respondToInfoRequest() posts the answer once its file is uploaded, referring to the
\* last receipt of the response (taken to be built as it arrives).
PostAnswer(h) ==
  /\ jobs[h].pc = "served" /\ jobs[h].kind = "attach"
  /\ SetJob(h, [jobs[h] EXCEPT !.pc = "sent", !.kind = "respond",
                  !.answer = IF receipts = {} THEN None ELSE LastReceipt.at])
  /\ UNCHANGED <<server, query, open, clicks, acked>>

\* The items of the response (taken to be built as it arrives) that the page did not
\* show when the form was sent.
NewItems(j) == SelectSeq(items, LAMBDA i : i \notin ToSet(j.seen))

\* handleItemSubmit() uploads the form's file to the item it edited, or to the first
\* of the new ones.
AfterSave(j) ==
  CASE j.file /\ j.kind = "edit" -> [j EXCEPT !.pc = "sent", !.kind = "upload"]
    [] j.file /\ j.kind = "add" /\ NewItems(j) # <<>> ->
         [j EXCEPT !.pc = "sent", !.kind = "upload", !.item = Head(NewItems(j))]
    [] OTHER -> IdleJob

\* onDecided and onReassigned leave for the list of claims.
LeavesAfter(j) ==
  \/ j.kind \in {"approve", "reject"}
  \/ j.kind = "reassign" /\ Role[user[j.tab]] = "APPROVER"

\* The response arrives: onSuccess and the toast, then the rest of the handler, whether
\* the page is still open or not.
Acknowledge(h) ==
  LET j == jobs[h] t == jobs[h].tab IN
  /\ j.pc = "served" /\ j.kind # "attach"
  /\ query' = Invalidated(t)
  /\ open' = IF LeavesAfter(j) THEN open \ {t} ELSE open
  /\ acked' = [acked EXCEPT ![t] = version]
  /\ SetJob(h, AfterSave(j))
  /\ UNCHANGED <<server, clicks>>

-----------------------------------------------------------------------------
Init ==
  /\ user \in [Tabs -> {u \in Users : Role[u] # "CLAIMANT" \/ u = Claimant}]
  /\ \E s \in Starts : claim = s.claim /\ items = s.items /\ receipts = s.receipts
  /\ version = 0 /\ clicks = 0 /\ open = {}
  /\ query = [t \in Tabs |-> NoQuery]
  /\ jobs = [h \in Handlers |-> IdleJob]
  /\ acked = [t \in Tabs |-> 0]

Next ==
  \/ \E t \in Tabs :
       \/ OpenPage(t) \/ LeavePage(t)
       \/ ServeFetch(t) \/ FetchArrives(t) \/ FetchFails(t) \/ Retry(t)
  \/ \E u \in Users, k \in Clicks : Elsewhere(u, k)
  \/ \E h \in Handlers :
       \/ \E t \in Tabs, k \in Clicks : SendClick(h, t, k)
       \/ Serve(h) \/ Refuse(h) \/ Lose(h) \/ PostAnswer(h) \/ Acknowledge(h)

Spec == Init /\ [][Next]_vars

-----------------------------------------------------------------------------
\* What the pages offer is what the server accepts: as long as the cached claim is
\* what the server has, no button leads to a refusal.  There are two exceptions, a
\* claim's only item while it waits for its approver, and a file for an answer while
\* the claim waits for Finance.  The two sides state their conditions separately.
OfferedIsAccepted ==
  \A t \in Tabs : query[t].data = Detail =>
    \A k \in Clicks :
      Offers(query[t].data, user[t], k) =>
        \/ Accepts(user[t], k.kind, k.item)
        \/ k.kind = "delete" /\ claim.status = "PENDING_APPROVAL" /\ Len(items) = 1
        \/ k.kind = "attach" /\ claim.status = "PENDING_FINANCE_APPROVAL"

\* A page that is not fetching shows every change its own user was told had succeeded,
\* also one the user was told of on another page; or else it shows an error.  There is
\* one exception: the user had left the page while a fetch of it was under way, the
\* server answered before the change, and the answer came after the user was told.  The
\* claim then passes for valid as it was before, until it is fetched again.
\* (useInvalidateClaims)
OwnChangesShown ==
  \A t \in open :
    query[t].fetch = "none" /\ ~query[t].failed =>
      query[t].data.version >= acked[t] \/ query[t].outrun

\* A receipt is attached to the item it was chosen for.  (EditClaimPage)
ReceiptGoesToItsItem == \A r \in receipts : r.item = r.for
=============================================================================
