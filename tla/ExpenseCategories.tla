--------------------------- MODULE ExpenseCategories ---------------------------
(***************************************************************************)
(* Expense categories, and the limit each line item copies from its        *)
(* category: expenseCategoryService.ts and the item mutations that call    *)
(* requireItemCategory().  Finance creates, changes and deletes categories *)
(* while a claimant saves items and submits.                               *)
(*                                                                         *)
(* Statements are interleaved, READ COMMITTED.  The name check and the     *)
(* usage count run before, and outside, the statement they protect; the    *)
(* unique index and the foreign key are what that statement itself obeys.  *)
(* Saves and submissions of a claim take turns (its row lock); a limit     *)
(* change does not take that lock.                                         *)
(***************************************************************************)
EXTENDS ClaimStateMachine, Functions

CONSTANTS
  Requests,
  CatIds,      \* category ids, never used again
  Names,       \* category names
  Fold,        \* Fold[n]: n without regard to case
  Limits,      \* amounts a limit may have
  ItemIds,     \* line items of one claim
  Legacy,      \* the categories there are before limits exist: id -> name
  MaxRounds    \* bound on submissions

ASSUME LegacyAssumption == \E S \in SUBSET CatIds : Legacy \in [S -> Names]

VARIABLES
  cats,        \* table ExpenseCategory: id -> [name, limit]
  items,       \* table ClaimItem: id -> [cat, limit]
  status,      \* the claim's status
  rounds,      \* submissions so far
  born,        \* category ids given out so far
  req          \* the requests

vars == <<cats, items, status, rounds, born, req>>

Idle == [pc |-> "idle", cat |-> None, name |-> None, limit |-> None, item |-> None,
         items |-> {}, round |-> 0]

GoTo(p, r) == req' = [req EXCEPT ![p] = r]

In(p, pc) == req[p].pc = pc

Tables == <<cats, items, status, rounds, born>>

\* A check failed or a statement was refused.
Fail(p) == GoTo(p, Idle) /\ UNCHANGED Tables

\* Row locks, by what the request that holds them is at.
ClaimLocked == \E p \in Requests : req[p].pc \in {"write", "commitItem"}
CatLocked(c) == \E p \in Requests : req[p].cat = c /\ req[p].pc \in {"refresh", "commitChange"}
ItemLocked(i) == \E p \in Requests :
  \/ In(p, "commitChange") /\ i \in req[p].items
  \/ In(p, "commitItem") /\ req[p].item = i
Referenced(c) == \E p \in Requests : In(p, "commitItem") /\ req[p].cat = c

-----------------------------------------------------------------------------
(* createCategory()                                                        *)

\* assertNameAvailable()
NameAvailable(name, except) ==
  \A c \in DOMAIN cats \ except : Fold[cats[c].name] # Fold[name]

StartCreate(p, c, name, limit) ==
  /\ In(p, "idle")
  /\ c \notin born
  /\ NameAvailable(name, {})
  /\ born' = born \cup {c}
  /\ GoTo(p, [Idle EXCEPT !.pc = "insert", !.cat = c, !.name = name, !.limit = limit])
  /\ UNCHANGED <<cats, items, status, rounds>>

\* The unique index on name; a name being given by an uncommitted change is waited for.
IsUnique(name, except) == \A c \in DOMAIN cats \ except : cats[c].name # name

NameUndecided(name, p) ==
  \E q \in Requests \ {p} : req[q].name = name /\ req[q].pc \in {"refresh", "commitChange"}

InsertCategory(p) ==
  LET r == req[p] IN
  /\ In(p, "insert")
  /\ ~NameUndecided(r.name, p)
  /\ IF IsUnique(r.name, {})
     THEN /\ cats' = [c \in DOMAIN cats \cup {r.cat} |->
               IF c = r.cat THEN [name |-> r.name, limit |-> r.limit] ELSE cats[c]]
          /\ GoTo(p, Idle)
          /\ UNCHANGED <<items, status, rounds, born>>
     ELSE Fail(p)

-----------------------------------------------------------------------------
(* updateCategory(); a field left out of the request is None.              *)

StartChange(p, c, name, limit) ==
  /\ In(p, "idle")
  /\ c \in DOMAIN cats
  /\ name # None \/ limit # None
  /\ name # None => NameAvailable(name, {c})
  /\ GoTo(p, [Idle EXCEPT !.pc = "change", !.cat = c, !.name = name, !.limit = limit])
  /\ UNCHANGED Tables

\* The UPDATE of the category, uncommitted until commitChange.
ChangeCategory(p) ==
  LET r == req[p] IN
  /\ In(p, "change")
  /\ ~CatLocked(r.cat)
  /\ r.name # None => ~NameUndecided(r.name, p) /\ ~Referenced(r.cat)
  /\ IF r.cat \in DOMAIN cats /\ (r.name # None => IsUnique(r.name, {r.cat}))
     THEN /\ GoTo(p, [r EXCEPT !.pc = IF r.limit = None THEN "commitChange" ELSE "refresh"])
          /\ UNCHANGED Tables
     ELSE Fail(p)

\* Mutant: the limit is live for whatever the claimant may edit.
HasLiveLimitsEditable == IsEditableStatus(status)

\* LIVE_LIMIT_STATUSES
HasLiveLimits == status \in {"DRAFT", "REJECTED"}

\* The UPDATE of the items whose limit is live, by what is committed now.
RefreshItems(p) ==
  LET hit == {i \in DOMAIN items : items[i].cat = req[p].cat /\ HasLiveLimits} IN
  /\ In(p, "refresh")
  /\ \A i \in hit : ~ItemLocked(i)
  /\ GoTo(p, [req[p] EXCEPT !.pc = "commitChange", !.items = hit, !.round = rounds])
  /\ UNCHANGED Tables

ChangedLimit(old, limit) == IF limit = None THEN old ELSE limit

CommitChange(p) ==
  LET r == req[p] IN
  /\ In(p, "commitChange")
  /\ cats' = [cats EXCEPT ![r.cat] =
       [name  |-> IF r.name = None THEN @.name ELSE r.name,
        limit |-> ChangedLimit(@.limit, r.limit)]]
  /\ items' = [i \in DOMAIN items |->
       IF i \in r.items THEN [items[i] EXCEPT !.limit = r.limit] ELSE items[i]]
  /\ GoTo(p, Idle)
  /\ UNCHANGED <<status, rounds, born>>

-----------------------------------------------------------------------------
(* deleteCategory()                                                        *)

StartErase(p, c) ==
  /\ In(p, "idle")
  /\ c \in DOMAIN cats
  /\ \A i \in DOMAIN items : items[i].cat # c
  /\ GoTo(p, [Idle EXCEPT !.pc = "erase", !.cat = c])
  /\ UNCHANGED Tables

\* Mutant: the count taken before is relied on.
IsUnusedUnchecked(c) == TRUE

\* ON DELETE RESTRICT
IsUnused(c) == \A i \in DOMAIN items : items[i].cat # c

EraseCategory(p) ==
  LET c == req[p].cat IN
  /\ In(p, "erase")
  /\ ~CatLocked(c) /\ ~Referenced(c)
  /\ IF c \in DOMAIN cats /\ IsUnused(c)
     THEN cats' = Restrict(cats, DOMAIN cats \ {c}) /\ GoTo(p, Idle)
          /\ UNCHANGED <<items, status, rounds, born>>
     ELSE Fail(p)

-----------------------------------------------------------------------------
(* addItem(), updateItem(), deleteItem() and submission.                   *)

\* Under the claim's lock: the guard, and requireItemCategory().
StartSave(p, i, c) ==
  /\ In(p, "idle") /\ ~ClaimLocked
  /\ IsEditableStatus(status)
  /\ c \in DOMAIN cats
  /\ GoTo(p, [Idle EXCEPT !.pc = "write", !.item = i, !.cat = c, !.limit = cats[c].limit])
  /\ UNCHANGED Tables

\* INSERT or UPDATE of the item; its foreign key needs the category, and waits
\* for one that is being renamed.
WriteItem(p) ==
  LET r == req[p] IN
  /\ In(p, "write")
  /\ ~ItemLocked(r.item)
  /\ \A q \in Requests : req[q].cat = r.cat /\ req[q].name # None =>
       req[q].pc \notin {"refresh", "commitChange"}
  /\ IF r.cat \in DOMAIN cats
     THEN GoTo(p, [r EXCEPT !.pc = "commitItem"]) /\ UNCHANGED Tables
     ELSE Fail(p)

CommitItem(p) ==
  LET r == req[p] IN
  /\ In(p, "commitItem")
  /\ items' = [i \in DOMAIN items \cup {r.item} |->
       IF i = r.item THEN [cat |-> r.cat, limit |-> r.limit] ELSE items[i]]
  /\ GoTo(p, Idle)
  /\ UNCHANGED <<cats, status, rounds, born>>

\* Whole transactions, when nobody holds the locks they need.
DeleteItem(i) ==
  /\ ~ClaimLocked /\ ~ItemLocked(i)
  /\ i \in DOMAIN items
  /\ IsEditableStatus(status)
  /\ status = "PENDING_APPROVAL" => DOMAIN items # {i}
  /\ items' = Restrict(items, DOMAIN items \ {i})
  /\ UNCHANGED <<cats, status, rounds, born, req>>

Submit ==
  /\ ~ClaimLocked
  /\ IsSubmittableStatus(status)
  /\ DOMAIN items # {}
  /\ rounds < MaxRounds
  /\ status' = "PENDING_APPROVAL"
  /\ rounds' = rounds + 1
  /\ UNCHANGED <<cats, items, born, req>>

\* Rejection opens the items again; approval stands for every other end.
Decide(decision) ==
  /\ ~ClaimLocked
  /\ IsInReview(status)
  /\ decision \in {"REJECTED", "APPROVED"}
  /\ status' = decision
  /\ UNCHANGED <<cats, items, rounds, born, req>>

Init ==
  /\ cats = [c \in DOMAIN Legacy |-> [name |-> Legacy[c], limit |-> None]]
  /\ items = <<>>
  /\ status = "DRAFT" /\ rounds = 0
  /\ born = DOMAIN Legacy
  /\ req = [p \in Requests |-> Idle]

FinanceStep(p) ==
  \/ \E c \in CatIds, name \in Names, limit \in Limits : StartCreate(p, c, name, limit)
  \/ InsertCategory(p)
  \/ \E c \in CatIds, name \in Names \cup {None}, limit \in Limits \cup {None} :
       StartChange(p, c, name, limit)
  \/ ChangeCategory(p) \/ RefreshItems(p) \/ CommitChange(p)
  \/ \E c \in CatIds : StartErase(p, c)
  \/ EraseCategory(p)

ItemStep(p) ==
  \/ \E i \in ItemIds, c \in CatIds : StartSave(p, i, c)
  \/ WriteItem(p) \/ CommitItem(p)

\* A transaction that is rolled back, for whatever reason.
Abort(p) == ~In(p, "idle") /\ Fail(p)

Next ==
  \/ \E p \in Requests : FinanceStep(p) \/ ItemStep(p) \/ Abort(p)
  \/ \E i \in ItemIds : DeleteItem(i)
  \/ Submit
  \/ \E decision \in Statuses : Decide(decision)

Spec == Init /\ [][Next]_vars

-----------------------------------------------------------------------------
(* Properties.                                                             *)

(* No line item refers to a deleted category, though items may appear      *)
(* between the usage count and the deletion.                               *)
ItemsHaveCategory == \A i \in DOMAIN items : items[i].cat \in DOMAIN cats

(* A limit change moves the limit of an item in review only if it had      *)
(* picked that item before the submission; a change that starts later      *)
(* never does, and neither does a change to another category.              *)
LateChangesSpareReview ==
  [][\A i \in DOMAIN items \cap DOMAIN items' :
       IsInReview(status) /\ items'[i].limit # items[i].limit =>
         \E p \in Requests :
           \/ In(p, "commitItem") /\ req[p].item = i
           \/ In(p, "commitChange") /\ req[p].cat = items[i].cat /\ req[p].round < rounds]_vars
=============================================================================
