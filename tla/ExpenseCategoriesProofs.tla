------------------------ MODULE ExpenseCategoriesProofs ------------------------
(***************************************************************************)
(* Proofs that no item loses its category, and that a limit change which   *)
(* starts after a submission leaves the submitted items alone, for any     *)
(* number of requests, categories and items.                               *)
(*                                                                         *)
(* The first rests on the foreign key: an item that is written, committed  *)
(* or not, keeps its category from being erased.  The second rests on the  *)
(* row locks of items: what a change has picked nobody else rewrites.      *)
(***************************************************************************)
EXTENDS ExpenseCategories, TLAPS

PCs == {"idle", "insert", "change", "refresh", "commitChange", "erase", "write", "commitItem"}

ReqRows == [pc : PCs, cat : CatIds \cup {None}, name : Names \cup {None},
            limit : Limits \cup {None}, item : ItemIds \cup {None},
            items : SUBSET ItemIds, round : Nat]

TypeInv ==
  /\ cats \in [DOMAIN cats -> [name : Names, limit : Limits \cup {None}]]
  /\ DOMAIN cats \subseteq CatIds
  /\ items \in [DOMAIN items -> [cat : CatIds, limit : Limits \cup {None}]]
  /\ DOMAIN items \subseteq ItemIds
  /\ rounds \in Nat
  /\ req \in [Requests -> ReqRows]

(* The parameters of a category request.                                   *)
FormInv(p) ==
  /\ req[p].pc = "insert" => req[p].cat \in CatIds /\ req[p].name \in Names
  /\ req[p].pc \in {"change", "refresh", "commitChange"} => req[p].cat \in CatIds

(* What a limit change has picked: items of its category, all picked while *)
(* limits were live, hence before the submission, if there was one since.  *)
ChangeInv(p) ==
  /\ req[p].pc # "commitChange" => req[p].items = {}
  /\ \A i \in req[p].items : i \in DOMAIN items /\ items[i].cat = req[p].cat
  /\ req[p].round <= rounds
  /\ req[p].items # {} /\ IsInReview(status) => req[p].round < rounds

(* What an item save has written.                                          *)
SaveInv(p) ==
  /\ req[p].pc \in {"write", "commitItem"} => req[p].item \in ItemIds /\ req[p].cat \in CatIds
  /\ req[p].pc = "commitItem" => req[p].cat \in DOMAIN cats

(* The two never hold the same row.                                        *)
PairInv(p, q) == req[p].pc = "commitItem" => req[p].item \notin req[q].items

IInv ==
  /\ TypeInv
  /\ \A p \in Requests : FormInv(p)
  /\ \A p \in Requests : ChangeInv(p)
  /\ \A p \in Requests : SaveInv(p)
  /\ \A p, q \in Requests : PairInv(p, q)
  /\ ItemsHaveCategory

-----------------------------------------------------------------------------
(* One lemma for each operation.                                           *)

(* StartCreate keeps the invariant. *)
LEMMA StartCreateInv ==
  ASSUME IInv, NEW p \in Requests, NEW c \in CatIds, NEW name \in Names, NEW limit \in Limits, StartCreate(p, c, name, limit)
  PROVE  IInv'
<1> USE DEF IInv, TypeInv, GoTo, In, Idle, ReqRows, PCs, StartCreate
<1>1. TypeInv'
  BY DEF FormInv, ChangeInv, SaveInv
<1>2. ASSUME NEW q \in Requests PROVE ChangeInv(q)'
  BY <1>2 DEF ChangeInv, PairInv, IsInReview
<1>3. ASSUME NEW q \in Requests PROVE SaveInv(q)'
  BY <1>3 DEF SaveInv
<1>4. ASSUME NEW q \in Requests, NEW r \in Requests PROVE PairInv(q, r)'
  BY <1>4 DEF PairInv, ChangeInv
<1>5. ItemsHaveCategory'
  BY DEF ItemsHaveCategory, SaveInv
<1>6. ASSUME NEW q \in Requests PROVE FormInv(q)'
  BY <1>6 DEF FormInv
<1> QED BY <1>1, <1>2, <1>3, <1>4, <1>5, <1>6

(* InsertCategory keeps the invariant. *)
LEMMA InsertCategoryInv ==
  ASSUME IInv, NEW p \in Requests, InsertCategory(p)
  PROVE  IInv'
<1> USE DEF IInv, TypeInv, GoTo, In, Idle, ReqRows, PCs, InsertCategory, Fail, Tables
<1>1. TypeInv'
  BY DEF FormInv, ChangeInv, SaveInv
<1>2. ASSUME NEW q \in Requests PROVE ChangeInv(q)'
  BY <1>2 DEF ChangeInv, PairInv, IsInReview
<1>3. ASSUME NEW q \in Requests PROVE SaveInv(q)'
  BY <1>3 DEF SaveInv
<1>4. ASSUME NEW q \in Requests, NEW r \in Requests PROVE PairInv(q, r)'
  BY <1>4 DEF PairInv, ChangeInv
<1>5. ItemsHaveCategory'
  BY DEF ItemsHaveCategory, SaveInv
<1>6. ASSUME NEW q \in Requests PROVE FormInv(q)'
  BY <1>6 DEF FormInv
<1> QED BY <1>1, <1>2, <1>3, <1>4, <1>5, <1>6

(* StartChange keeps the invariant. *)
LEMMA StartChangeInv ==
  ASSUME IInv, NEW p \in Requests, NEW c \in CatIds, NEW name \in Names \cup {None},
         NEW limit \in Limits \cup {None}, StartChange(p, c, name, limit)
  PROVE  IInv'
<1> USE DEF IInv, TypeInv, GoTo, In, Idle, ReqRows, PCs, StartChange, Tables
<1>1. TypeInv'
  BY DEF FormInv, ChangeInv, SaveInv
<1>2. ASSUME NEW q \in Requests PROVE ChangeInv(q)'
  BY <1>2 DEF ChangeInv, PairInv, IsInReview
<1>3. ASSUME NEW q \in Requests PROVE SaveInv(q)'
  BY <1>3 DEF SaveInv
<1>4. ASSUME NEW q \in Requests, NEW r \in Requests PROVE PairInv(q, r)'
  BY <1>4 DEF PairInv, ChangeInv
<1>5. ItemsHaveCategory'
  BY DEF ItemsHaveCategory, SaveInv
<1>6. ASSUME NEW q \in Requests PROVE FormInv(q)'
  BY <1>6 DEF FormInv
<1> QED BY <1>1, <1>2, <1>3, <1>4, <1>5, <1>6

(* ChangeCategory keeps the invariant. *)
LEMMA ChangeCategoryInv ==
  ASSUME IInv, NEW p \in Requests, ChangeCategory(p)
  PROVE  IInv'
<1> USE DEF IInv, TypeInv, GoTo, In, Idle, ReqRows, PCs, ChangeCategory, Fail, Tables
<1>1. TypeInv'
  BY DEF FormInv, ChangeInv, SaveInv
<1>2. ASSUME NEW q \in Requests PROVE ChangeInv(q)'
  BY <1>2 DEF ChangeInv, PairInv, IsInReview
<1>3. ASSUME NEW q \in Requests PROVE SaveInv(q)'
  BY <1>3 DEF SaveInv
<1>4. ASSUME NEW q \in Requests, NEW r \in Requests PROVE PairInv(q, r)'
  BY <1>4 DEF PairInv, ChangeInv
<1>5. ItemsHaveCategory'
  BY DEF ItemsHaveCategory, SaveInv
<1>6. ASSUME NEW q \in Requests PROVE FormInv(q)'
  BY <1>6 DEF FormInv
<1> QED BY <1>1, <1>2, <1>3, <1>4, <1>5, <1>6

(* RefreshItems keeps the invariant. *)
LEMMA RefreshItemsInv ==
  ASSUME IInv, NEW p \in Requests, RefreshItems(p)
  PROVE  IInv'
<1> USE DEF IInv, TypeInv, GoTo, In, Idle, ReqRows, PCs, RefreshItems, ItemLocked, HasLiveLimits, Tables
<1>1. TypeInv'
  <2> DEFINE hit == {i \in DOMAIN items : items[i].cat = req[p].cat /\ HasLiveLimits}
             r == [req[p] EXCEPT !.pc = "commitChange", !.items = hit, !.round = rounds]
  <2>1. hit \in SUBSET ItemIds
    OBVIOUS
  <2>2. req' = [req EXCEPT ![p] = r] /\ UNCHANGED Tables
    OBVIOUS
  <2> HIDE DEF hit, RefreshItems
  <2>3. r \in ReqRows
    BY <2>1
  <2> HIDE DEF r, ReqRows
  <2>4. req' \in [Requests -> ReqRows]
    BY <2>2, <2>3
  <2> QED BY <2>2, <2>4
<1>2. ASSUME NEW q \in Requests PROVE ChangeInv(q)'
  BY <1>2 DEF ChangeInv, PairInv, IsInReview
<1>3. ASSUME NEW q \in Requests PROVE SaveInv(q)'
  BY <1>3 DEF SaveInv
<1>4. ASSUME NEW q \in Requests, NEW r \in Requests PROVE PairInv(q, r)'
  BY <1>4 DEF PairInv, ChangeInv
<1>5. ItemsHaveCategory'
  BY DEF ItemsHaveCategory, SaveInv
<1>6. ASSUME NEW q \in Requests PROVE FormInv(q)'
  BY <1>6 DEF FormInv
<1> QED BY <1>1, <1>2, <1>3, <1>4, <1>5, <1>6

(* CommitChange keeps the invariant. *)
LEMMA CommitChangeInv ==
  ASSUME IInv, NEW p \in Requests, CommitChange(p)
  PROVE  IInv'
<1> USE DEF IInv, TypeInv, GoTo, In, Idle, ReqRows, PCs, CommitChange, ChangedLimit
<1>1. TypeInv'
  <2>1. req' \in [Requests -> ReqRows]
    OBVIOUS
  <2>2. DOMAIN cats' = DOMAIN cats /\ DOMAIN items' = DOMAIN items /\ rounds' \in Nat
    OBVIOUS
  <2>3. cats' \in [DOMAIN cats -> [name : Names, limit : Limits \cup {None}]]
    BY DEF FormInv
  <2>4. items' \in [DOMAIN items -> [cat : CatIds, limit : Limits \cup {None}]]
    BY DEF ChangeInv
  <2> QED BY <2>1, <2>2, <2>3, <2>4
<1>2. ASSUME NEW q \in Requests PROVE ChangeInv(q)'
  BY <1>2 DEF ChangeInv, PairInv, IsInReview
<1>3. ASSUME NEW q \in Requests PROVE SaveInv(q)'
  BY <1>3 DEF SaveInv
<1>4. ASSUME NEW q \in Requests, NEW r \in Requests PROVE PairInv(q, r)'
  BY <1>4 DEF PairInv, ChangeInv
<1>5. ItemsHaveCategory'
  BY DEF ItemsHaveCategory, SaveInv
<1>6. ASSUME NEW q \in Requests PROVE FormInv(q)'
  BY <1>6 DEF FormInv
<1> QED BY <1>1, <1>2, <1>3, <1>4, <1>5, <1>6

(* StartErase keeps the invariant. *)
LEMMA StartEraseInv ==
  ASSUME IInv, NEW p \in Requests, NEW c \in CatIds, StartErase(p, c)
  PROVE  IInv'
<1> USE DEF IInv, TypeInv, GoTo, In, Idle, ReqRows, PCs, StartErase, Tables
<1>1. TypeInv'
  BY DEF FormInv, ChangeInv, SaveInv
<1>2. ASSUME NEW q \in Requests PROVE ChangeInv(q)'
  BY <1>2 DEF ChangeInv, PairInv, IsInReview
<1>3. ASSUME NEW q \in Requests PROVE SaveInv(q)'
  BY <1>3 DEF SaveInv
<1>4. ASSUME NEW q \in Requests, NEW r \in Requests PROVE PairInv(q, r)'
  BY <1>4 DEF PairInv, ChangeInv
<1>5. ItemsHaveCategory'
  BY DEF ItemsHaveCategory, SaveInv
<1>6. ASSUME NEW q \in Requests PROVE FormInv(q)'
  BY <1>6 DEF FormInv
<1> QED BY <1>1, <1>2, <1>3, <1>4, <1>5, <1>6

(* EraseCategory keeps the invariant. *)
LEMMA EraseCategoryInv ==
  ASSUME IInv, NEW p \in Requests, EraseCategory(p)
  PROVE  IInv'
<1> USE DEF IInv, TypeInv, GoTo, In, Idle, ReqRows, PCs, EraseCategory, IsUnused, Referenced, Restrict, Fail, Tables
<1>1. TypeInv'
  BY DEF FormInv, ChangeInv, SaveInv
<1>2. ASSUME NEW q \in Requests PROVE ChangeInv(q)'
  BY <1>2 DEF ChangeInv, PairInv, IsInReview
<1>3. ASSUME NEW q \in Requests PROVE SaveInv(q)'
  BY <1>3 DEF SaveInv
<1>4. ASSUME NEW q \in Requests, NEW r \in Requests PROVE PairInv(q, r)'
  BY <1>4 DEF PairInv, ChangeInv
<1>5. ItemsHaveCategory'
  BY DEF ItemsHaveCategory, SaveInv
<1>6. ASSUME NEW q \in Requests PROVE FormInv(q)'
  BY <1>6 DEF FormInv
<1> QED BY <1>1, <1>2, <1>3, <1>4, <1>5, <1>6

(* StartSave keeps the invariant. *)
LEMMA StartSaveInv ==
  ASSUME IInv, NEW p \in Requests, NEW i \in ItemIds, NEW c \in CatIds, StartSave(p, i, c)
  PROVE  IInv'
<1> USE DEF IInv, TypeInv, GoTo, In, Idle, ReqRows, PCs, StartSave, Tables
<1>1. TypeInv'
  BY DEF FormInv, ChangeInv, SaveInv
<1>2. ASSUME NEW q \in Requests PROVE ChangeInv(q)'
  BY <1>2 DEF ChangeInv, PairInv, IsInReview
<1>3. ASSUME NEW q \in Requests PROVE SaveInv(q)'
  BY <1>3 DEF SaveInv
<1>4. ASSUME NEW q \in Requests, NEW r \in Requests PROVE PairInv(q, r)'
  BY <1>4 DEF PairInv, ChangeInv
<1>5. ItemsHaveCategory'
  BY DEF ItemsHaveCategory, SaveInv
<1>6. ASSUME NEW q \in Requests PROVE FormInv(q)'
  BY <1>6 DEF FormInv
<1> QED BY <1>1, <1>2, <1>3, <1>4, <1>5, <1>6

(* WriteItem keeps the invariant. *)
LEMMA WriteItemInv ==
  ASSUME IInv, NEW p \in Requests, WriteItem(p)
  PROVE  IInv'
<1> USE DEF IInv, TypeInv, GoTo, In, Idle, ReqRows, PCs, WriteItem, ItemLocked, Fail, Tables
<1>1. TypeInv'
  BY DEF FormInv, ChangeInv, SaveInv
<1>2. ASSUME NEW q \in Requests PROVE ChangeInv(q)'
  BY <1>2 DEF ChangeInv, PairInv, IsInReview
<1>3. ASSUME NEW q \in Requests PROVE SaveInv(q)'
  BY <1>3 DEF SaveInv
<1>4. ASSUME NEW q \in Requests, NEW r \in Requests PROVE PairInv(q, r)'
  BY <1>4 DEF PairInv, ChangeInv
<1>5. ItemsHaveCategory'
  BY DEF ItemsHaveCategory, SaveInv
<1>6. ASSUME NEW q \in Requests PROVE FormInv(q)'
  BY <1>6 DEF FormInv
<1> QED BY <1>1, <1>2, <1>3, <1>4, <1>5, <1>6

(* CommitItem keeps the invariant. *)
LEMMA CommitItemInv ==
  ASSUME IInv, NEW p \in Requests, CommitItem(p)
  PROVE  IInv'
<1> USE DEF IInv, TypeInv, GoTo, In, Idle, ReqRows, PCs, CommitItem
<1>1. TypeInv'
  BY DEF FormInv, ChangeInv, SaveInv
<1>2. ASSUME NEW q \in Requests PROVE ChangeInv(q)'
  BY <1>2 DEF ChangeInv, PairInv, IsInReview
<1>3. ASSUME NEW q \in Requests PROVE SaveInv(q)'
  BY <1>3 DEF SaveInv
<1>4. ASSUME NEW q \in Requests, NEW r \in Requests PROVE PairInv(q, r)'
  BY <1>4 DEF PairInv, ChangeInv
<1>5. ItemsHaveCategory'
  BY DEF ItemsHaveCategory, SaveInv
<1>6. ASSUME NEW q \in Requests PROVE FormInv(q)'
  BY <1>6 DEF FormInv
<1> QED BY <1>1, <1>2, <1>3, <1>4, <1>5, <1>6

(* Abort keeps the invariant. *)
LEMMA AbortInv ==
  ASSUME IInv, NEW p \in Requests, Abort(p)
  PROVE  IInv'
<1> USE DEF IInv, TypeInv, GoTo, In, Idle, ReqRows, PCs, Abort, Fail, Tables
<1>1. TypeInv'
  BY DEF FormInv, ChangeInv, SaveInv
<1>2. ASSUME NEW q \in Requests PROVE ChangeInv(q)'
  BY <1>2 DEF ChangeInv, PairInv, IsInReview
<1>3. ASSUME NEW q \in Requests PROVE SaveInv(q)'
  BY <1>3 DEF SaveInv
<1>4. ASSUME NEW q \in Requests, NEW r \in Requests PROVE PairInv(q, r)'
  BY <1>4 DEF PairInv, ChangeInv
<1>5. ItemsHaveCategory'
  BY DEF ItemsHaveCategory, SaveInv
<1>6. ASSUME NEW q \in Requests PROVE FormInv(q)'
  BY <1>6 DEF FormInv
<1> QED BY <1>1, <1>2, <1>3, <1>4, <1>5, <1>6

(* DeleteItem keeps the invariant. *)
LEMMA DeleteItemInv ==
  ASSUME IInv, NEW i \in ItemIds, DeleteItem(i)
  PROVE  IInv'
<1> USE DEF IInv, TypeInv, GoTo, In, Idle, ReqRows, PCs, DeleteItem, ItemLocked, Restrict
<1>1. TypeInv'
  BY DEF FormInv, ChangeInv, SaveInv
<1>2. ASSUME NEW q \in Requests PROVE ChangeInv(q)'
  BY <1>2 DEF ChangeInv, PairInv, IsInReview
<1>3. ASSUME NEW q \in Requests PROVE SaveInv(q)'
  BY <1>3 DEF SaveInv
<1>4. ASSUME NEW q \in Requests, NEW r \in Requests PROVE PairInv(q, r)'
  BY <1>4 DEF PairInv, ChangeInv
<1>5. ItemsHaveCategory'
  BY DEF ItemsHaveCategory, SaveInv
<1>6. ASSUME NEW q \in Requests PROVE FormInv(q)'
  BY <1>6 DEF FormInv
<1> QED BY <1>1, <1>2, <1>3, <1>4, <1>5, <1>6

(* Submit keeps the invariant. *)
LEMMA SubmitInv ==
  ASSUME IInv, Submit
  PROVE  IInv'
<1> USE DEF IInv, TypeInv, GoTo, In, Idle, ReqRows, PCs, Submit
<1>1. TypeInv'
  BY DEF FormInv, ChangeInv, SaveInv
<1>2. ASSUME NEW q \in Requests PROVE ChangeInv(q)'
  BY <1>2 DEF ChangeInv, PairInv, IsInReview
<1>3. ASSUME NEW q \in Requests PROVE SaveInv(q)'
  BY <1>3 DEF SaveInv
<1>4. ASSUME NEW q \in Requests, NEW r \in Requests PROVE PairInv(q, r)'
  BY <1>4 DEF PairInv, ChangeInv
<1>5. ItemsHaveCategory'
  BY DEF ItemsHaveCategory, SaveInv
<1>6. ASSUME NEW q \in Requests PROVE FormInv(q)'
  BY <1>6 DEF FormInv
<1> QED BY <1>1, <1>2, <1>3, <1>4, <1>5, <1>6

(* Decide keeps the invariant. *)
LEMMA DecideInv ==
  ASSUME IInv, NEW decision \in Statuses, Decide(decision)
  PROVE  IInv'
<1> USE DEF IInv, TypeInv, GoTo, In, Idle, ReqRows, PCs, Decide
<1>1. TypeInv'
  BY DEF FormInv, ChangeInv, SaveInv
<1>2. ASSUME NEW q \in Requests PROVE ChangeInv(q)'
  BY <1>2 DEF ChangeInv, PairInv, IsInReview
<1>3. ASSUME NEW q \in Requests PROVE SaveInv(q)'
  BY <1>3 DEF SaveInv
<1>4. ASSUME NEW q \in Requests, NEW r \in Requests PROVE PairInv(q, r)'
  BY <1>4 DEF PairInv, ChangeInv
<1>5. ItemsHaveCategory'
  BY DEF ItemsHaveCategory, SaveInv
<1>6. ASSUME NEW q \in Requests PROVE FormInv(q)'
  BY <1>6 DEF FormInv
<1> QED BY <1>1, <1>2, <1>3, <1>4, <1>5, <1>6

-----------------------------------------------------------------------------
(* The invariant.                                                          *)

(* Init establishes it: the legacy categories, no item, nobody at work. *)
LEMMA InitInv == Init => IInv
<1> SUFFICES ASSUME Init PROVE IInv
  OBVIOUS
<1> USE DEF Init
<1>1. TypeInv
  BY LegacyAssumption DEF TypeInv, ReqRows, PCs, Idle
<1>2. ASSUME NEW p \in Requests PROVE FormInv(p) /\ ChangeInv(p) /\ SaveInv(p)
  BY <1>2 DEF FormInv, ChangeInv, SaveInv, Idle
<1>3. ASSUME NEW p \in Requests, NEW q \in Requests PROVE PairInv(p, q)
  BY <1>3 DEF PairInv, Idle
<1>4. ItemsHaveCategory
  BY DEF ItemsHaveCategory
<1> QED BY <1>1, <1>2, <1>3, <1>4 DEF IInv

(* Every step keeps it. *)
LEMMA NextInv == IInv /\ [Next]_vars => IInv'
<1> SUFFICES ASSUME IInv, [Next]_vars PROVE IInv'
  OBVIOUS
<1>1. ASSUME NEW p \in Requests, FinanceStep(p) PROVE IInv'
  BY <1>1, StartCreateInv, InsertCategoryInv, StartChangeInv, ChangeCategoryInv,
     RefreshItemsInv, CommitChangeInv, StartEraseInv, EraseCategoryInv DEF FinanceStep
<1>2. ASSUME NEW p \in Requests, ItemStep(p) PROVE IInv'
  BY <1>2, StartSaveInv, WriteItemInv, CommitItemInv DEF ItemStep
<1>3. CASE UNCHANGED vars
  BY <1>3 DEF vars, IInv, TypeInv, FormInv, ChangeInv, SaveInv, PairInv, ItemsHaveCategory
<1> QED BY <1>1, <1>2, <1>3, AbortInv, DeleteItemInv, SubmitInv, DecideInv DEF Next

(* The invariant holds throughout. *)
LEMMA Invariance == Spec => []IInv
<1> QED BY InitInv, NextInv, PTL DEF Spec

-----------------------------------------------------------------------------
(* The theorems.                                                           *)

(* No item refers to a deleted category: the count that deleteCategory()   *)
(* takes before the DELETE may be stale, the foreign key is not.           *)
THEOREM CategoriesOutliveItems == Spec => []ItemsHaveCategory
<1>1. IInv => ItemsHaveCategory
  BY DEF IInv
<1> QED BY <1>1, Invariance, PTL

(* Which step moves the limit of an item in review.                        *)
LEMMA LimitStep ==
  ASSUME IInv, [Next]_vars, NEW i \in DOMAIN items \cap DOMAIN items',
         IsInReview(status), items'[i].limit # items[i].limit
  PROVE  \E p \in Requests :
           \/ In(p, "commitItem") /\ req[p].item = i
           \/ In(p, "commitChange") /\ req[p].cat = items[i].cat /\ req[p].round < rounds
<1> DEFINE Goal == \E p \in Requests :
           \/ In(p, "commitItem") /\ req[p].item = i
           \/ In(p, "commitChange") /\ req[p].cat = items[i].cat /\ req[p].round < rounds
<1>1. ASSUME NEW p \in Requests, CommitItem(p) PROVE Goal
  BY <1>1 DEF CommitItem
<1>2. ASSUME NEW p \in Requests, CommitChange(p) PROVE Goal
  BY <1>2 DEF CommitChange, IInv, ChangeInv, In
<1>3. ASSUME NEW p \in Requests, FinanceStep(p) PROVE Goal
  BY <1>2, <1>3 DEF FinanceStep, StartCreate, InsertCategory, StartChange, ChangeCategory,
     RefreshItems, StartErase, EraseCategory, Fail, Tables
<1>4. ASSUME NEW p \in Requests, ItemStep(p) PROVE Goal
  BY <1>1, <1>4 DEF ItemStep, StartSave, WriteItem, Fail, Tables
<1>5. ASSUME NEW j \in ItemIds, DeleteItem(j) PROVE Goal
  BY <1>5 DEF DeleteItem, Restrict
<1> QED BY <1>3, <1>4, <1>5 DEF Next, Abort, Submit, Decide, Fail, Tables, vars

(* A limit change that starts after a submission spares the items under    *)
(* review (expenseCategoryService.ts:62), whatever else is in progress.   *)
THEOREM ReviewedLimitsMoveOnlyLate == Spec => LateChangesSpareReview
<1>1. IInv /\ [Next]_vars =>
        [\A i \in DOMAIN items \cap DOMAIN items' :
           IsInReview(status) /\ items'[i].limit # items[i].limit =>
             \E p \in Requests :
               \/ In(p, "commitItem") /\ req[p].item = i
               \/ In(p, "commitChange") /\ req[p].cat = items[i].cat /\ req[p].round < rounds]_vars
  BY LimitStep
<1> QED BY <1>1, Invariance, PTL DEF Spec, LateChangesSpareReview
=============================================================================
