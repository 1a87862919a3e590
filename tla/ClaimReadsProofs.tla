--------------------------- MODULE ClaimReadsProofs ---------------------------
(***************************************************************************)
(* Proofs of the properties of lists and exports for any number of claims, *)
(* users, filters and pages, pages and batches of any size, and readings   *)
(* of any length.                                                          *)
(*                                                                         *)
(* The lists: a cached page not marked stale is as new as the handover its *)
(* user was last told of, and so is an answer on its way to one (FreshInv);*)
(* and what is picked is what its row allowed (SelectionInv).              *)
(*                                                                         *)
(* The export: a claim alone in its millisecond has, in every order the    *)
(* database may choose, as many rows before it as matching claims are      *)
(* older.  While nothing older leaves, that number never falls, so the     *)
(* offset does not pass over the claim; while nothing older enters, it     *)
(* never rises, so the offset does not fall behind it (MissInv, RepeatInv).*)
(***************************************************************************)
EXTENDS ClaimReads, FiniteSetTheorems, TLAPS

RowOrNone == ClaimRows \cup {None}

Pages == [row : [Claims -> RowOrNone], asOf : Int, total : Int, crossed : BOOLEAN]

Entries == [data : Pages, stale : BOOLEAN, fetching : BOOLEAN, reply : Pages]

Jobs == [pc : {"idle", "sent", "done"}, rows : [Claims -> RowOrNone],
         to : Approvers \cup {None}, at : Nat]

ExportFilters == [status : SUBSET Statuses, claimant : {None}, approver : {None}, decidedBy : {None}]

Exports ==
  [pc : {"idle", "reading", "ended", "saved", "empty", "failed"}, filter : ExportFilters,
   skip : Nat, copies : [Claims -> Nat],
   atStart : SUBSET Claims, entered : SUBSET Claims, left : SUBSET Claims]

TablesOK ==
  /\ claims \in [Claims -> ClaimRows]
  /\ active \subseteq Approvers
  /\ ops \in Nat

ListOK ==
  /\ viewer \in Viewers /\ view \in Views /\ page \in 1..MaxPage
  /\ picked \in [Claims -> RowOrNone]
  /\ cache \in [Views -> [1..MaxPage -> Entries]]
  /\ job \in Jobs
  /\ told \in Nat /\ moves \in Nat

-----------------------------------------------------------------------------
(* What is picked, or sent, could be handed over as its row was shown, and *)
(* never to the user who does it.                                          *)
Allowed(rows) == \A c \in Claims : rows[c] # None => ClientCanReassign(rows[c], viewer)

SelectionInv ==
  /\ Allowed(picked) /\ Allowed(job.rows)
  /\ job.pc # "idle" => job.to \in Targets

(* No cached page that passes for valid, and no answer on its way, is      *)
(* older than the handover reported last, unless it was crossed by it.     *)
FreshEntry(e) ==
  /\ e.data # NoPage /\ ~e.stale => e.data.asOf >= told \/ e.data.crossed
  /\ e.fetching /\ e.reply.asOf # -1 => e.reply.asOf >= told \/ e.reply.crossed

FreshInv ==
  /\ told <= ops /\ (job.pc = "done" => job.at <= ops)
  /\ \A v \in Views, p \in 1..MaxPage : FreshEntry(cache[v][p])

-----------------------------------------------------------------------------
Selection == Matching(Exporter, export.filter)

(* The selected claims older than c.                                       *)
Older(c) == {d \in Selection : Created[d] < Created[c]}

Position(c) == Cardinality(Older(c))

(* Claims the export cannot miss, and claims it cannot repeat.             *)
Unpassed(c) ==
  /\ c \in export.atStart \ export.left /\ ~Tied(c)
  /\ \A d \in export.left : ~Precedes(d, c)

Unpushed(c) == ~Tied(c) /\ \A d \in export.entered : ~Precedes(d, c)

SourceInv ==
  /\ \A c \in Claims : export.copies[c] > 0 => c \in export.atStart \cup export.entered
  /\ export.pc = "reading" =>
       /\ export.atStart \ export.left \subseteq Selection
       /\ Selection \subseteq export.atStart \cup export.entered

MissInv == \A c \in Claims : Unpassed(c) =>
  /\ export.pc = "reading" => export.copies[c] > 0 \/ Position(c) >= export.skip
  /\ export.pc \in {"ended", "saved", "empty"} => export.copies[c] > 0

RepeatInv == \A c \in Claims : Unpushed(c) =>
  /\ export.copies[c] <= 1
  /\ export.pc = "reading" => export.copies[c] = 0 \/ Position(c) < export.skip

(* An export of every status loses no claim while it reads.                *)
KeepInv == export.filter.status = {} => export.left = {}

ExportInv ==
  /\ screen = "list" => export.pc = "idle"
  /\ SourceInv /\ MissInv /\ RepeatInv /\ KeepInv

ListInv == TablesOK /\ ListOK /\ SelectionInv /\ FreshInv

IInv == ListInv /\ export \in Exports /\ screen \in {"list", "export"} /\ ExportInv

-----------------------------------------------------------------------------
(* Counting rows by offset.                                                *)

Injective(order) == \A c, d \in Claims : c # d => order[c] # order[d]

(* In a list without equals the offsets of the rows are 0, 1, 2, ...       *)
LEMMA OffsetsAreDense ==
  ASSUME NEW S \in SUBSET Claims, NEW order \in [Claims -> Int], Injective(order)
  PROVE  [c \in S |-> Cardinality({d \in S : order[d] < order[c]})]
           \in Bijection(S, 0..(Cardinality(S) - 1))
<1> DEFINE Before(c) == {d \in S : order[d] < order[c]}
           offset == [c \in S |-> Cardinality(Before(c))]
           T == 0..(Cardinality(S) - 1)
<1>1. IsFiniteSet(S) /\ Cardinality(S) \in Nat
  BY ClaimsAssumption, FS_Subset, FS_CardinalityType
<1>2. IsFiniteSet(T) /\ Cardinality(T) = Cardinality(S)
  BY <1>1, FS_Interval
<1>3. ASSUME NEW c \in S
      PROVE  IsFiniteSet(Before(c)) /\ Cardinality(Before(c)) \in T
  <2>1. Before(c) \in SUBSET S /\ c \notin Before(c)
    OBVIOUS
  <2>2. IsFiniteSet(Before(c)) /\ Cardinality(Before(c)) <= Cardinality(S)
    BY <1>1, <2>1, FS_Subset
  <2>3. Cardinality(Before(c)) # Cardinality(S)
    BY <1>1, <2>1, FS_Subset
  <2>4. Cardinality(Before(c)) \in Nat
    BY <2>2, FS_CardinalityType
  <2> QED BY <1>1, <2>2, <2>3, <2>4
<1>4. ASSUME NEW c \in S, NEW d \in S, order[c] < order[d]
      PROVE  Cardinality(Before(c)) # Cardinality(Before(d))
  <2>1. Before(c) \in SUBSET Before(d) /\ c \in Before(d) /\ c \notin Before(c)
    BY <1>4
  <2> QED BY <1>3, <2>1, FS_Subset
<1>5. offset \in Injection(S, T)
  <2>1. offset \in [S -> T]
    BY <1>3
  <2>2. ASSUME NEW c \in S, NEW d \in S, offset[c] = offset[d] PROVE c = d
    <3>1. ~(order[c] < order[d]) /\ ~(order[d] < order[c])
      BY <1>4, <2>2
    <3>2. order[c] = order[d]
      BY <3>1
    <3> QED BY <3>2 DEF Injective
  <2> QED BY <2>1, <2>2 DEF Injection, IsInjective
<1>6. offset \in Surjection(S, T)
  BY <1>1, <1>2, <1>5, FS_Injection
<1> QED BY <1>5, <1>6 DEF Bijection

(* A page or batch that the rows fill is full.                             *)
LEMMA FullWindow ==
  ASSUME NEW S \in SUBSET Claims, NEW order \in [Claims -> Int], Injective(order),
         NEW skip \in Nat, NEW take \in Nat, skip + take <= Cardinality(S)
  PROVE  Cardinality(Window(S, order, skip, take)) = take
<1> DEFINE offset == [c \in S |-> Cardinality({d \in S : order[d] < order[c]})]
           W == Window(S, order, skip, take)
           T == skip..(skip + take - 1)
           part == [c \in W |-> offset[c]]
<1>1. IsFiniteSet(S) /\ Cardinality(S) \in Nat
  BY ClaimsAssumption, FS_Subset, FS_CardinalityType
<1>2. offset \in Bijection(S, 0..(Cardinality(S) - 1))
  BY OffsetsAreDense
<1>3. /\ offset \in [S -> 0..(Cardinality(S) - 1)]
      /\ \A c, d \in S : offset[c] = offset[d] => c = d
      /\ \A n \in 0..(Cardinality(S) - 1) : \E c \in S : offset[c] = n
  BY <1>2 DEF Bijection, Injection, Surjection, IsInjective
<1>4. W = {c \in S : skip <= offset[c] /\ offset[c] < skip + take}
  BY DEF Window
<1> HIDE DEF offset, W
<1>5. W = {c \in S : offset[c] \in T}
  BY <1>3, <1>4
<1>6. \A n \in T : n \in 0..(Cardinality(S) - 1)
  BY <1>1
<1>7. part \in Bijection(W, T)
  <2>1. part \in [W -> T] /\ W \subseteq S
    BY <1>5
  <2>2. \A c, d \in W : part[c] = part[d] => c = d
    BY <1>3, <2>1
  <2>3. \A n \in T : \E c \in W : part[c] = n
    BY <1>3, <1>5, <1>6
  <2> QED BY <2>1, <2>2, <2>3 DEF Bijection, Injection, Surjection, IsInjective
<1>8. IsFiniteSet(W)
  BY <1>1, <1>4, FS_Subset
<1>9. Cardinality(W) = Cardinality(T)
  BY <1>7, <1>8, FS_Bijection DEF ExistsBijection
<1> QED BY <1>9, FS_Interval DEF W

(* The order of a statement of the export.                                 *)
LEMMA OrderFacts ==
  ASSUME NEW order \in OldestFirst
  PROVE  /\ order \in [Claims -> Int] /\ Injective(order)
         /\ \A c, d \in Claims : Created[c] < Created[d] => order[c] < order[d]
<1>1. order \in [Claims -> 1..Cardinality(Claims)]
  BY DEF OldestFirst, Orders
<1>2. 1..Cardinality(Claims) \subseteq Int
  OBVIOUS
<1> QED BY <1>1, <1>2 DEF OldestFirst, Orders, Injective

(* Before a claim alone in its millisecond stand the older ones.           *)
LEMMA PositionInOrder ==
  ASSUME NEW order \in OldestFirst, NEW c \in Claims, ~Tied(c)
  PROVE  {d \in Selection : order[d] < order[c]} = Older(c)
<1>1. ASSUME NEW d \in Selection PROVE order[d] < order[c] <=> Created[d] < Created[c]
  <2>1. d \in Claims /\ Created[d] \in Nat /\ Created[c] \in Nat /\ order[d] \in Int /\ order[c] \in Int
    BY CreatedAssumption, OrderFacts DEF Selection, Matching, MatchingIn
  <2>2. d # c => Created[d] # Created[c]
    BY <2>1 DEF Tied
  <2>3. CASE d = c
    BY <2>1, <2>3
  <2>4. CASE Created[d] < Created[c]
    BY <2>1, <2>4, OrderFacts
  <2>5. CASE Created[c] < Created[d]
    <3>1. order[c] < order[d]
      BY <2>1, <2>5, OrderFacts
    <3> QED BY <2>1, <2>5, <3>1
  <2> QED BY <2>1, <2>2, <2>3, <2>4, <2>5
<1> QED BY <1>1 DEF Older

-----------------------------------------------------------------------------
(* The lists.                                                              *)

LEMMA EntryTypes ==
  /\ NothingPicked \in [Claims -> RowOrNone] /\ NoPage \in Pages /\ NoEntry \in Entries
  /\ \A e \in Entries : Refetch(e) \in Entries
<1>1. NothingPicked \in [Claims -> RowOrNone]
  BY DEF NothingPicked, RowOrNone
<1>2. NoPage \in Pages
  BY <1>1 DEF NoPage, Pages
<1>3. NoEntry \in Entries
  BY <1>2 DEF NoEntry, Entries
<1> QED BY <1>1, <1>2, <1>3 DEF Refetch, Entries

(* A new fetch leaves an entry as valid as it was.                         *)
LEMMA RefetchIsFresh ==
  ASSUME NEW e \in Entries
  PROVE  /\ FreshEntry(e) => FreshEntry(Refetch(e))
         /\ FreshEntry(Refetch([e EXCEPT !.stale = TRUE]))
<1>1. NoPage.asOf = -1
  BY DEF NoPage
<1>2. /\ Refetch(e).data = e.data /\ Refetch(e).stale = e.stale /\ Refetch(e).reply = NoPage
      /\ Refetch([e EXCEPT !.stale = TRUE]).stale = TRUE
      /\ Refetch([e EXCEPT !.stale = TRUE]).reply = NoPage
  BY DEF Refetch, Entries
<1> QED BY <1>1, <1>2 DEF FreshEntry

(* Changing one entry of the cache.                                        *)
LEMMA PutEntry ==
  ASSUME ListOK, NEW v \in Views, NEW p \in 1..MaxPage, NEW e \in Entries,
         cache' = [cache EXCEPT ![v][p] = e]
  PROVE  /\ cache' \in [Views -> [1..MaxPage -> Entries]]
         /\ \A w \in Views, q \in 1..MaxPage :
              cache'[w][q] = IF w = v /\ q = p THEN e ELSE cache[w][q]
BY DEF ListOK

(* What the invariant of the lists asks of a step that reports nothing.    *)
LEMMA FreshKept ==
  ASSUME FreshInv, TablesOK, told' = told, ops' \in Nat, ops' >= ops, told \in Nat,
         job'.pc = "done" => job'.at <= ops',
         \A v \in Views, p \in 1..MaxPage :
           cache'[v][p] = cache[v][p] \/ FreshEntry(cache'[v][p])
  PROVE  FreshInv'
<1>1. \A v \in Views, p \in 1..MaxPage : FreshEntry(cache'[v][p])
  BY DEF FreshInv
<1>2. \A v \in Views, p \in 1..MaxPage : FreshEntry(cache[v][p])'
  BY <1>1 DEF FreshEntry
<1>3. told' <= ops'
  BY DEF FreshInv, TablesOK
<1> QED BY <1>2, <1>3 DEF FreshInv

(* The same of one that leaves tables and handover alone as well.          *)
LEMMA EntryKept ==
  ASSUME ListInv, NEW v \in Views, NEW p \in 1..MaxPage, NEW e \in Entries, FreshEntry(e),
         cache' = [cache EXCEPT ![v][p] = e], UNCHANGED <<told, job, ops>>
  PROVE  FreshInv' /\ cache' \in [Views -> [1..MaxPage -> Entries]]
<1> USE DEF ListInv
<1>1. /\ cache' \in [Views -> [1..MaxPage -> Entries]]
      /\ \A w \in Views, q \in 1..MaxPage :
           cache'[w][q] = IF w = v /\ q = p THEN e ELSE cache[w][q]
  BY PutEntry
<1>2. \A w \in Views, q \in 1..MaxPage :
        cache'[w][q] = cache[w][q] \/ FreshEntry(cache'[w][q])
  BY <1>1
<1>3. ops' \in Nat /\ ops' >= ops /\ told \in Nat /\ (job'.pc = "done" => job'.at <= ops')
  BY DEF TablesOK, ListOK, FreshInv
<1> QED BY <1>1, <1>2, <1>3, FreshKept

LEMMA OpenedKept ==
  ASSUME ListInv, NEW v \in Views, NEW p \in 1..MaxPage, cache' \in Opened(v, p),
         UNCHANGED <<told, job, ops>>
  PROVE  FreshInv' /\ cache' \in [Views -> [1..MaxPage -> Entries]]
<1>1. PICK e \in {cache[v][p], Refetch(cache[v][p])} : cache' = [cache EXCEPT ![v][p] = e]
  BY DEF Opened
<1>2. cache[v][p] \in Entries /\ FreshEntry(cache[v][p])
  BY DEF ListInv, ListOK, FreshInv
<1>3. e \in Entries /\ FreshEntry(e)
  BY <1>1, <1>2, EntryTypes, RefetchIsFresh
<1> QED BY <1>1, <1>3, EntryKept

LEMMA ChangeViewKeepsInv ==
  ASSUME ListInv, NEW v \in Views, ChangeView(v)
  PROVE  ListInv'
<1>1. /\ view' = v /\ page' = 1 /\ picked' = NothingPicked /\ moves' = moves + 1
      /\ cache' \in Opened(v, 1) /\ UNCHANGED <<viewer, job, told, claims, active, ops>>
  BY DEF ChangeView, tables
<1>2. 1 \in 1..MaxPage
  BY ListAssumption
<1>3. FreshInv' /\ cache' \in [Views -> [1..MaxPage -> Entries]]
  BY <1>1, <1>2, OpenedKept
<1>4. TablesOK' /\ ListOK'
  BY <1>1, <1>2, <1>3, EntryTypes DEF ListInv, TablesOK, ListOK
<1>5. SelectionInv'
  BY <1>1 DEF ListInv, SelectionInv, Allowed, NothingPicked, Targets
<1> QED BY <1>3, <1>4, <1>5 DEF ListInv

LEMMA GoToPageKeepsInv ==
  ASSUME ListInv, NEW p \in 1..MaxPage, GoToPage(p)
  PROVE  ListInv'
<1>1. /\ page' = p /\ moves' = moves + 1 /\ cache' \in Opened(view, p)
      /\ UNCHANGED <<viewer, view, picked, job, told, claims, active, ops>>
  BY DEF GoToPage, tables
<1>2. FreshInv' /\ cache' \in [Views -> [1..MaxPage -> Entries]]
  BY <1>1, OpenedKept DEF ListInv, ListOK
<1>3. TablesOK' /\ ListOK'
  BY <1>1, <1>2 DEF ListInv, TablesOK, ListOK
<1>4. SelectionInv'
  BY <1>1 DEF ListInv, SelectionInv, Allowed, Targets
<1> QED BY <1>2, <1>3, <1>4 DEF ListInv

(* An answer is as new as the table.                                       *)
LEMMA FindClaimsKeepsInv ==
  ASSUME ListInv, NEW v \in Views, NEW p \in 1..MaxPage, FindClaims(v, p)
  PROVE  ListInv'
<1> DEFINE e == cache[v][p]
           all == Matching(viewer, FilterOf(v))
<1>1. e \in Entries /\ FreshEntry(e)
  BY DEF ListInv, ListOK, FreshInv
<1>2. Cardinality(all) \in Int
  <2>1. all \in SUBSET Claims
    BY DEF Matching, MatchingIn
  <2> QED BY <2>1, ClaimsAssumption, FS_Subset, FS_CardinalityType
<1>3. PICK rows \in SUBSET Claims, n \in Int :
        cache' = [cache EXCEPT ![v][p].reply =
          [@ EXCEPT !.row = [c \in Claims |-> IF c \in rows THEN claims[c] ELSE None],
                    !.asOf = ops, !.total = n]]
  <2>1. all \in SUBSET Claims
    BY DEF Matching, MatchingIn
  <2>2. \A order, skip, take : Window(all, order, skip, take) \in SUBSET Claims
    BY <2>1 DEF Window
  <2>3. PICK order \in NewestFirst :
          cache' = [cache EXCEPT ![v][p].reply =
            [@ EXCEPT !.row = [c \in Claims |->
                          IF c \in Window(all, order, (p - 1) * PageSize, PageSize)
                          THEN claims[c] ELSE None],
                      !.asOf = ops, !.total = Cardinality(all)]]
    BY DEF FindClaims
  <2> HIDE DEF all
  <2>4. PICK rows \in SUBSET Claims : rows = Window(all, order, (p - 1) * PageSize, PageSize)
    BY <2>2
  <2>5. PICK n \in Int : n = Cardinality(all)
    BY <1>2
  <2> QED BY <2>3, <2>4, <2>5
<1>4. PICK row \in [Claims -> RowOrNone] :
        row = [c \in Claims |-> IF c \in rows THEN claims[c] ELSE None]
  BY DEF ListInv, TablesOK, RowOrNone
<1>5. PICK x \in Entries : x = [e EXCEPT !.reply = [e.reply EXCEPT !.row = row, !.asOf = ops, !.total = n]]
  <2>1. [e.reply EXCEPT !.row = row, !.asOf = ops, !.total = n] \in Pages
    <3>1. e.reply \in Pages /\ ops \in Int
      BY <1>1 DEF Entries, ListInv, TablesOK
    <3> QED BY <3>1 DEF Pages
  <2> QED BY <1>1, <2>1 DEF Entries
<1>6. cache' = [cache EXCEPT ![v][p] = x]
  BY <1>3, <1>4, <1>5 DEF ListInv, ListOK
<1>7. FreshEntry(x)
  <2>1. x.data = e.data /\ x.stale = e.stale /\ x.reply.asOf = ops
    BY <1>1, <1>5 DEF Entries, Pages
  <2> QED BY <1>1, <2>1 DEF FreshEntry, ListInv, FreshInv
<1>8. UNCHANGED <<viewer, view, page, picked, job, told, moves, claims, active, ops>>
  BY DEF FindClaims, tables
<1>9. FreshInv' /\ cache' \in [Views -> [1..MaxPage -> Entries]]
  BY <1>6, <1>7, <1>8, EntryKept
<1>10. TablesOK' /\ ListOK' /\ SelectionInv'
  BY <1>8, <1>9 DEF ListInv, TablesOK, ListOK, SelectionInv, Allowed, Targets
<1> QED BY <1>9, <1>10 DEF ListInv

LEMMA ListAnswerKeepsInv ==
  ASSUME ListInv, NEW v \in Views, NEW p \in 1..MaxPage, ListArrives(v, p) \/ ListFails(v, p)
  PROVE  ListInv'
<1> DEFINE e == cache[v][p]
<1>1. e \in Entries /\ FreshEntry(e)
  BY DEF ListInv, ListOK, FreshInv
<1>2. PICK x \in Entries : cache' = [cache EXCEPT ![v][p] = x] /\ FreshEntry(x)
  <2>1. CASE ListArrives(v, p)
    <3>1. PICK x \in Entries : x = [NoEntry EXCEPT !.data = e.reply]
      BY <1>1, EntryTypes DEF Entries
    <3>2. x.data = e.reply /\ ~x.fetching
      BY <3>1, EntryTypes DEF NoEntry, Entries
    <3>3. FreshEntry(x) /\ cache' = [cache EXCEPT ![v][p] = x]
      BY <1>1, <2>1, <3>1, <3>2 DEF ListArrives, FreshEntry
    <3> QED BY <3>3
  <2>2. CASE ListFails(v, p)
    <3>1. PICK x \in Entries : x = [NoEntry EXCEPT !.data = e.data, !.stale = TRUE]
      BY <1>1, EntryTypes DEF Entries
    <3>2. x.stale /\ ~x.fetching
      BY <3>1, EntryTypes DEF NoEntry, Entries
    <3>3. FreshEntry(x) /\ cache' = [cache EXCEPT ![v][p] = x]
      BY <2>2, <3>1, <3>2 DEF ListFails, FreshEntry
    <3> QED BY <3>3
  <2> QED BY <2>1, <2>2
<1>3. UNCHANGED <<viewer, view, page, picked, job, told, moves, claims, active, ops>>
  BY DEF ListArrives, ListFails, tables
<1>4. FreshInv' /\ cache' \in [Views -> [1..MaxPage -> Entries]]
  BY <1>2, <1>3, EntryKept
<1>5. TablesOK' /\ ListOK' /\ SelectionInv'
  BY <1>3, <1>4 DEF ListInv, TablesOK, ListOK, SelectionInv, Allowed, Targets
<1> QED BY <1>4, <1>5 DEF ListInv

LEMMA RetryListKeepsInv ==
  ASSUME ListInv, RetryList
  PROVE  ListInv'
<1>1. PICK x : x = Refetch(cache[view][page])
  OBVIOUS
<1>2. cache' = [cache EXCEPT ![view][page] = x]
  BY <1>1 DEF RetryList
<1>3. view \in Views /\ page \in 1..MaxPage /\ cache[view][page] \in Entries
  BY DEF ListInv, ListOK
<1>4. x \in Entries /\ FreshEntry(x)
  BY <1>1, <1>3, EntryTypes, RefetchIsFresh DEF ListInv, FreshInv
<1>5. UNCHANGED <<viewer, view, page, picked, job, told, moves, claims, active, ops>>
  BY DEF RetryList, tables
<1>6. FreshInv' /\ cache' \in [Views -> [1..MaxPage -> Entries]]
  BY <1>2, <1>3, <1>4, <1>5, EntryKept
<1>7. TablesOK' /\ ListOK' /\ SelectionInv'
  BY <1>5, <1>6 DEF ListInv, TablesOK, ListOK, SelectionInv, Allowed, Targets
<1> QED BY <1>6, <1>7 DEF ListInv

(* Only rows that could be handed over can be picked.                      *)
LEMMA ToggleKeepsInv ==
  ASSUME ListInv, NEW S \in SUBSET Claims, Toggle(S)
  PROVE  ListInv'
<1>1. /\ S \subseteq Selectable
      /\ picked' = [c \in Claims |->
           IF c \notin S THEN picked[c]
           ELSE IF S \subseteq Selected THEN None
           ELSE IF c \in Selected THEN picked[c] ELSE Shown.data.row[c]]
      /\ UNCHANGED <<viewer, view, page, cache, job, told, moves, claims, active, ops>>
  BY DEF Toggle, tables
<1>2. Shown.data.row \in [Claims -> RowOrNone]
  <2>1. Shown \in Entries
    BY DEF ListInv, ListOK, Shown
  <2> QED BY <2>1 DEF Entries, Pages
<1>3. \A c \in Claims : picked'[c] \in {picked[c], None} \/ (c \in S /\ picked'[c] = Shown.data.row[c])
  BY <1>1
<1>4. picked' \in [Claims -> RowOrNone]
  BY <1>1, <1>2 DEF ListInv, ListOK, RowOrNone
<1>5. \A c \in Claims : picked'[c] # None => ClientCanReassign(picked'[c], viewer)
  BY <1>1, <1>3 DEF ListInv, SelectionInv, Allowed, Selectable
<1>6. TablesOK' /\ ListOK' /\ SelectionInv'
  BY <1>1, <1>4, <1>5 DEF ListInv, TablesOK, ListOK, SelectionInv, Allowed, Targets
<1>7. FreshInv'
  BY <1>1 DEF ListInv, FreshInv, FreshEntry
<1> QED BY <1>6, <1>7 DEF ListInv

LEMMA ClearSelectionKeepsInv ==
  ASSUME ListInv, ClearSelection
  PROVE  ListInv'
<1>1. /\ picked' = NothingPicked
      /\ UNCHANGED <<viewer, view, page, cache, job, told, moves, claims, active, ops>>
  BY DEF ClearSelection, tables
<1>2. TablesOK' /\ ListOK'
  BY <1>1, EntryTypes DEF ListInv, TablesOK, ListOK
<1>3. SelectionInv' /\ FreshInv'
  BY <1>1 DEF ListInv, SelectionInv, Allowed, Targets, NothingPicked, FreshInv, FreshEntry
<1> QED BY <1>2, <1>3 DEF ListInv

LEMMA IdleJobFacts ==
  IdleJob \in Jobs /\ IdleJob.pc = "idle" /\ IdleJob.rows = NothingPicked
BY EntryTypes DEF IdleJob, Jobs

LEMMA ApproversAreUsers == Approvers \subseteq Users
BY DEF Approvers

LEMMA HandOverKeepsInv ==
  ASSUME ListInv, NEW to \in Approvers, HandOver(to)
  PROVE  ListInv'
<1>1. /\ job' = [IdleJob EXCEPT !.pc = "sent", !.rows = picked, !.to = to] /\ to \in Targets
      /\ UNCHANGED <<viewer, view, page, picked, cache, told, moves, claims, active, ops>>
  BY DEF HandOver, tables
<1>2. job' \in Jobs /\ job'.pc = "sent" /\ job'.rows = picked /\ job'.to = to
  BY <1>1, IdleJobFacts DEF ListInv, ListOK, Jobs
<1>3. TablesOK' /\ ListOK' /\ SelectionInv'
  BY <1>1, <1>2 DEF ListInv, TablesOK, ListOK, SelectionInv, Allowed, Targets
<1>4. FreshInv'
  BY <1>1, <1>2 DEF ListInv, FreshInv, FreshEntry
<1> QED BY <1>3, <1>4 DEF ListInv

LEMMA ServeHandOverKeepsInv ==
  ASSUME ListInv, ServeHandOver
  PROVE  ListInv'
<1>1. /\ claims' = [c \in Claims |-> IF c \in Ids(job) THEN HandedOver(claims[c], job.to)
                                                        ELSE claims[c]]
      /\ ops' = ops + 1 /\ job' = [job EXCEPT !.pc = "done", !.at = ops + 1]
      /\ job.pc = "sent" /\ job.to \in active
      /\ UNCHANGED <<viewer, view, page, picked, cache, told, moves, active>>
  BY DEF ServeHandOver, AcceptsHandOver
<1>2. ops \in Nat /\ told \in Nat /\ job \in Jobs /\ claims \in [Claims -> ClaimRows]
  BY DEF ListInv, TablesOK, ListOK
<1>3. /\ job' \in Jobs /\ job'.pc = "done" /\ job'.at = ops + 1
      /\ job'.rows = job.rows /\ job'.to = job.to
  <2>1. PICK n \in Nat : n = ops + 1
    BY <1>2
  <2>2. job' = [job EXCEPT !.pc = "done", !.at = n]
    BY <1>1, <2>1
  <2>3. job' \in Jobs
    BY <1>2, <2>1, <2>2 DEF Jobs
  <2> QED BY <1>2, <2>1, <2>2, <2>3 DEF Jobs
<1>4. claims' \in [Claims -> ClaimRows]
  <2>1. job.to \in UserRefs
    BY <1>1, ApproversAreUsers DEF ListInv, TablesOK, UserRefs
  <2>2. \A c \in Claims : HandedOver(claims[c], job.to) \in ClaimRows
    BY <1>2, <2>1 DEF HandedOver, ClaimRows
  <2> QED BY <1>1, <1>2, <2>2
<1>5. TablesOK' /\ ListOK'
  BY <1>1, <1>2, <1>3, <1>4 DEF ListInv, TablesOK, ListOK
<1>6. SelectionInv'
  BY <1>1, <1>3 DEF ListInv, SelectionInv, Allowed, Targets
<1>7. FreshInv'
  <2>1. ops' \in Nat /\ ops' >= ops /\ job'.at <= ops'
    BY <1>1, <1>2, <1>3
  <2>2. told' = told /\ cache' = cache
    BY <1>1
  <2> QED BY <1>2, <2>1, <2>2, FreshKept DEF ListInv
<1> QED BY <1>5, <1>6, <1>7 DEF ListInv

(* Every entry is marked stale, and fetches that go on are marked crossed.  *)
LEMMA HandOverDoneKeepsInv ==
  ASSUME ListInv, HandOverDone
  PROVE  ListInv'
<1>1. /\ job.pc = "done" /\ told' = job.at /\ job' = IdleJob /\ picked' = NothingPicked
      /\ cache' = Invalidated /\ UNCHANGED <<viewer, view, page, moves, claims, active, ops>>
  BY DEF HandOverDone, tables
<1>2. ASSUME NEW v \in Views, NEW p \in 1..MaxPage
      PROVE  cache'[v][p] \in Entries /\ FreshEntry(cache[v][p])'
  <2>0. cache[v][p] \in Entries
    BY DEF ListInv, ListOK
  <2>1. PICK e : e = [cache[v][p] EXCEPT !.stale = TRUE]
    OBVIOUS
  <2>2. e \in Entries /\ e.stale = TRUE
    BY <2>0, <2>1 DEF Entries
  <2>3. CASE v = view /\ p = page /\ (e.data # NoPage \/ ~e.fetching)
    <3>1. cache'[v][p] = Refetch(e)
      BY <1>1, <2>1, <2>3 DEF Invalidated
    <3>2. cache'[v][p] \in Entries
      BY <3>1, <2>2, EntryTypes
    <3>3. cache'[v][p].stale = TRUE /\ cache'[v][p].reply.asOf = -1
      BY <3>1, <2>2 DEF Refetch, Entries, NoPage
    <3> QED BY <3>2, <3>3 DEF FreshEntry
  <2>4. CASE ~(v = view /\ p = page /\ (e.data # NoPage \/ ~e.fetching))
    <3>1. cache'[v][p] = [e EXCEPT !.reply.crossed = e.fetching]
      BY <1>1, <2>1, <2>4 DEF Invalidated
    <3>2. cache'[v][p] \in Entries
      <4>1. PICK reply : reply = [e.reply EXCEPT !.crossed = e.fetching]
        OBVIOUS
      <4>2. reply \in Pages
        BY <2>2, <4>1 DEF Entries, Pages
      <4>3. [e EXCEPT !.reply = reply] \in Entries
        BY <2>2, <4>2 DEF Entries
      <4> QED BY <3>1, <4>1, <4>3
    <3>3. cache'[v][p].stale = TRUE /\ cache'[v][p].fetching = e.fetching
          /\ cache'[v][p].reply.crossed = e.fetching
      BY <3>1, <2>2 DEF Entries, Pages
    <3> QED BY <3>2, <3>3 DEF FreshEntry
  <2> QED BY <2>3, <2>4
<1>3. cache' \in [Views -> [1..MaxPage -> Entries]]
  BY <1>1, <1>2 DEF Invalidated
<1>4. job.at \in Nat /\ job.at <= ops
  BY <1>1 DEF ListInv, ListOK, Jobs, FreshInv
<1>5. TablesOK' /\ ListOK'
  BY <1>1, <1>3, <1>4, EntryTypes, IdleJobFacts DEF ListInv, TablesOK, ListOK
<1>6. SelectionInv'
  BY <1>1, IdleJobFacts DEF SelectionInv, Allowed, NothingPicked
<1>7. FreshInv'
  BY <1>1, <1>2, <1>4, IdleJobFacts DEF FreshInv
<1> QED BY <1>5, <1>6, <1>7 DEF ListInv

LEMMA HandOverFailsKeepsInv ==
  ASSUME ListInv, HandOverFails
  PROVE  ListInv'
<1>1. /\ job' = IdleJob
      /\ UNCHANGED <<viewer, view, page, picked, cache, told, moves, claims, active, ops>>
  BY DEF HandOverFails, tables
<1>2. TablesOK' /\ ListOK'
  BY <1>1, IdleJobFacts DEF ListInv, TablesOK, ListOK
<1>3. SelectionInv' /\ FreshInv'
  BY <1>1, IdleJobFacts
     DEF ListInv, SelectionInv, Allowed, Targets, NothingPicked, FreshInv, FreshEntry
<1> QED BY <1>2, <1>3 DEF ListInv

LEMMA ListStepKeepsInv ==
  ASSUME ListInv, ListStep
  PROVE  ListInv'
BY ChangeViewKeepsInv, GoToPageKeepsInv, FindClaimsKeepsInv, ListAnswerKeepsInv,
   RetryListKeepsInv, ToggleKeepsInv, ClearSelectionKeepsInv, HandOverKeepsInv,
   ServeHandOverKeepsInv, HandOverDoneKeepsInv, HandOverFailsKeepsInv
   DEF ListStep, QueryStep

LEMMA ListUntouched ==
  ASSUME ListInv, UNCHANGED <<tables, listVars>>
  PROVE  ListInv'
BY DEF tables, listVars, ListInv, TablesOK, ListOK, SelectionInv, Allowed, Targets,
       FreshInv, FreshEntry

-----------------------------------------------------------------------------
(* The table changes under its readers.                                    *)

(* A claim Finance sees stays in its sight: no operation makes it a draft. *)
LEMMA SuccessorFacts ==
  ASSUME TablesOK, NEW r \in ClaimRows, NEW row \in Successors(r)
  PROVE  /\ row \in ClaimRows
         /\ row.status \notin {"ABSENT", "DRAFT"}
<1>0. active \subseteq UserRefs /\ Users \subseteq UserRefs /\ None \in UserRefs
  BY ApproversAreUsers DEF TablesOK, UserRefs
<1>1. CASE row \in Submitted(r)
  BY <1>0, <1>1 DEF Submitted, ClaimRows, Statuses
<1>2. CASE row = [r EXCEPT !.status = "CANCELLED"]
  BY <1>2 DEF ClaimRows, Statuses
<1>3. CASE row = Answered(r)
  BY <1>3 DEF Answered, ClaimRows, Statuses
<1>4. ASSUME IsReassignable(r), row \in {HandedOver(r, to) : to \in active}
      PROVE  row \in ClaimRows /\ row.status \notin {"ABSENT", "DRAFT"}
  BY <1>0, <1>4 DEF IsReassignable, HandedOver, ClaimRows, Statuses
<1>5. ASSUME NEW u \in Users, row \in Decided(r, u)
      PROVE  row \in ClaimRows /\ row.status \notin {"ABSENT", "DRAFT"}
  <2>1. u \in UserRefs
    BY <1>0
  <2>2. CASE row \in {[r EXCEPT !.status = s, !.decidedBy = u] : s \in {"APPROVED", "REJECTED"}}
    BY <2>1, <2>2 DEF ClaimRows, Statuses
  <2>3. CASE row = [r EXCEPT !.status = "INFO_REQUESTED"]
    BY <2>3 DEF ClaimRows, Statuses
  <2>4. CASE row = [r EXCEPT !.status = "PENDING_FINANCE_APPROVAL", !.approverApprovedBy = u]
    BY <2>1, <2>4 DEF ClaimRows, Statuses
  <2> QED BY <1>5, <2>2, <2>3, <2>4 DEF Decided
<1> QED BY <1>1, <1>2, <1>3, <1>4, <1>5 DEF Successors

LEMMA OperationFacts ==
  ASSUME TablesOK, Operations
  PROVE  /\ TablesOK' /\ ops' = ops + 1
         /\ \A c \in Claims : InScope(Exporter, claims[c]) => InScope(Exporter, claims'[c])
<1>1. ASSUME NEW c \in Claims, NEW row \in ClaimRows, claims' = [claims EXCEPT ![c] = row],
             active' = active, ops' = ops + 1,
             row.status \notin {"ABSENT", "DRAFT"} \/ claims[c].status = "ABSENT"
      PROVE  /\ TablesOK'
             /\ \A d \in Claims : InScope(Exporter, claims[d]) => InScope(Exporter, claims'[d])
  <2>1. TablesOK'
    BY <1>1 DEF TablesOK
  <2>2. ASSUME NEW d \in Claims, InScope(Exporter, claims[d])
        PROVE  InScope(Exporter, claims'[d])
    <3>1. claims'[d] = IF d = c THEN row ELSE claims[d]
      BY <1>1 DEF TablesOK
    <3>2. claims[d].status \notin {"ABSENT", "DRAFT"}
      BY <2>2, ExporterAssumption DEF InScope
    <3> QED BY <1>1, <2>2, <3>1, <3>2, ExporterAssumption DEF InScope
  <2> QED BY <2>1, <2>2
<1>2. ASSUME NEW c \in Claims, Operate(c)
      PROVE  /\ TablesOK' /\ ops' = ops + 1
             /\ \A d \in Claims : InScope(Exporter, claims[d]) => InScope(Exporter, claims'[d])
  <2>1. PICK row \in Successors(claims[c]) : claims' = [claims EXCEPT ![c] = row]
    BY <1>2 DEF Operate
  <2>2. row \in ClaimRows /\ row.status \notin {"ABSENT", "DRAFT"}
    BY <2>1, SuccessorFacts DEF TablesOK
  <2> QED BY <1>1, <1>2, <2>1, <2>2 DEF Operate
<1>3. ASSUME NEW u \in Users, NEW c \in Claims, CreateClaim(u, c)
      PROVE  /\ TablesOK' /\ ops' = ops + 1
             /\ \A d \in Claims : InScope(Exporter, claims[d]) => InScope(Exporter, claims'[d])
  <2>1. NewClaim(u) \in ClaimRows
    BY DEF NewClaim, ClaimRows, Statuses, UserRefs
  <2> QED BY <1>1, <1>3, <2>1 DEF CreateClaim
<1>4. ASSUME NEW a \in active, Deactivate(a)
      PROVE  /\ TablesOK' /\ ops' = ops + 1
             /\ \A d \in Claims : InScope(Exporter, claims[d]) => InScope(Exporter, claims'[d])
  BY <1>4 DEF Deactivate, TablesOK
<1> QED BY <1>2, <1>3, <1>4 DEF Operations

LEMMA OperationKeepsList ==
  ASSUME ListInv, Operations, UNCHANGED listVars
  PROVE  ListInv'
<1>1. TablesOK' /\ ops' = ops + 1
  BY OperationFacts DEF ListInv
<1>2. UNCHANGED <<viewer, view, page, picked, cache, job, told, moves>>
  BY DEF listVars
<1>3. ListOK' /\ SelectionInv'
  BY <1>2 DEF ListInv, ListOK, SelectionInv, Allowed, Targets
<1>4. ops' \in Nat /\ ops' >= ops /\ told \in Nat /\ (job'.pc = "done" => job'.at <= ops')
  BY <1>1, <1>2 DEF ListInv, TablesOK, ListOK, Jobs, FreshInv
<1>5. FreshInv'
  BY <1>2, <1>4, FreshKept DEF ListInv
<1> QED BY <1>1, <1>3, <1>5 DEF ListInv

-----------------------------------------------------------------------------
(* The export.                                                             *)

LEMMA SelectionFinite ==
  /\ Selection \in SUBSET Claims /\ IsFiniteSet(Selection)
  /\ \A c : Older(c) \in SUBSET Selection /\ IsFiniteSet(Older(c)) /\ Position(c) \in Nat
<1>1. Selection \in SUBSET Claims /\ IsFiniteSet(Selection)
  BY ClaimsAssumption, FS_Subset DEF Selection, Matching, MatchingIn
<1>2. ASSUME NEW c
      PROVE  Older(c) \in SUBSET Selection /\ IsFiniteSet(Older(c)) /\ Position(c) \in Nat
  <2>1. Older(c) \in SUBSET Selection
    BY DEF Older
  <2> QED BY <1>1, <2>1, FS_Subset, FS_CardinalityType DEF Position
<1> QED BY <1>1, <1>2

LEMMA NoExportFacts ==
  /\ NoExport \in Exports
  /\ NoExport.pc = "idle" /\ NoExport.left = {} /\ NoExport.copies = [c \in Claims |-> 0]
BY DEF NoExport, NoFilter, Exports, ExportFilters

LEMMA StartExportKeepsInv ==
  ASSUME IInv, StartExport, screen = "export", UNCHANGED screen
  PROVE  export' \in Exports /\ ExportInv'
<1>0. PICK status \in SUBSET Statuses :
        LET f == [NoFilter EXCEPT !.status = status] IN
        export' = [NoExport EXCEPT !.pc = "reading", !.filter = f,
                                   !.atStart = Matching(Exporter, f)]
  BY DEF StartExport
<1>1. PICK f : /\ f = [NoFilter EXCEPT !.status = status]
               /\ export' = [NoExport EXCEPT !.pc = "reading", !.filter = f,
                                             !.atStart = Matching(Exporter, f)]
  BY <1>0
<1>2. f \in ExportFilters
  BY <1>1 DEF NoFilter, ExportFilters
<1>3. PICK now \in SUBSET Claims : now = Matching(Exporter, f)
  BY DEF Matching, MatchingIn
<1>4. /\ export' \in Exports /\ export'.pc = "reading" /\ export'.filter = f /\ export'.atStart = now
      /\ export'.copies = [c \in Claims |-> 0] /\ export'.skip = 0
      /\ export'.left = {} /\ export'.entered = {}
  BY <1>1, <1>2, <1>3 DEF NoExport, Exports
<1>5. claims' = claims
  BY DEF StartExport, tables
<1>6. Selection' = now
  BY <1>3, <1>4, <1>5 DEF Selection, Matching, MatchingIn
<1>7. \A c : Position(c)' >= 0
  <2>1. ASSUME NEW c PROVE Position(c)' \in Nat
    <3>1. IsFiniteSet(now)
      BY ClaimsAssumption, FS_Subset
    <3>2. Older(c)' \in SUBSET now
      BY <1>6 DEF Older
    <3> QED BY <3>1, <3>2, FS_Subset, FS_CardinalityType DEF Position
  <2> QED BY <2>1
<1>8. SourceInv' /\ KeepInv'
  BY <1>4, <1>6 DEF SourceInv, KeepInv
<1>9. MissInv'
  BY <1>4, <1>7 DEF MissInv
<1>10. RepeatInv'
  BY <1>4 DEF RepeatInv
<1> QED BY <1>4, <1>8, <1>9, <1>10 DEF ExportInv

(* A batch holds the rows at its offsets, and one with rows behind it is   *)
(* full.                                                                   *)
LEMMA BatchFacts ==
  ASSUME export \in Exports, NEW order \in OldestFirst, NEW c \in Claims, ~Tied(c),
         NEW batch, batch = Window(Selection, order, export.skip, BatchSize)
  PROVE  /\ c \in batch <=> /\ c \in Selection /\ export.skip <= Position(c)
                           /\ Position(c) < export.skip + BatchSize
         /\ c \in Selection /\ Position(c) >= export.skip + BatchSize =>
              Cardinality(batch) = BatchSize
<1>1. Cardinality({d \in Selection : order[d] < order[c]}) = Position(c)
  BY PositionInOrder DEF Position
<1>2. export.skip \in Nat /\ BatchSize \in Nat
  BY BatchSizeAssumption DEF Exports
<1>3. ASSUME c \in Selection, Position(c) >= export.skip + BatchSize
      PROVE  Cardinality(batch) = BatchSize
  <2>1. Position(c) <= Cardinality(Selection) /\ Cardinality(Selection) \in Nat /\ Position(c) \in Nat
    BY SelectionFinite, FS_Subset, FS_CardinalityType DEF Position
  <2>2. export.skip + BatchSize <= Cardinality(Selection)
    BY <1>2, <1>3, <2>1
  <2> QED BY <1>2, <2>2, SelectionFinite, OrderFacts, FullWindow
<1> QED BY <1>1, <1>3 DEF Window

LEMMA ReadBatchKeepsInv ==
  ASSUME IInv, ReadBatch, screen = "export", UNCHANGED screen
  PROVE  export' \in Exports /\ ExportInv'
<1>0. PICK order \in OldestFirst :
        LET batch == Window(Selection, order, export.skip, BatchSize) IN
        export' = [export EXCEPT
          !.copies = [c \in Claims |-> IF c \in batch THEN @[c] + 1 ELSE @[c]],
          !.skip = NextSkip(@),
          !.pc = IF Cardinality(batch) < BatchSize THEN "ended" ELSE @]
  BY DEF ReadBatch, Selection
<1>1. PICK batch :
        /\ batch = Window(Selection, order, export.skip, BatchSize)
        /\ export' = [export EXCEPT
             !.copies = [c \in Claims |-> IF c \in batch THEN @[c] + 1 ELSE @[c]],
             !.skip = NextSkip(@),
             !.pc = IF Cardinality(batch) < BatchSize THEN "ended" ELSE @]
  BY <1>0
<1>2. export.pc = "reading" /\ claims' = claims
  BY DEF ReadBatch, tables
<1>3. export \in Exports /\ export.skip \in Nat /\ BatchSize \in Nat /\ BatchSize > 0
      /\ export.copies \in [Claims -> Nat]
  BY BatchSizeAssumption DEF IInv, Exports
<1>4. /\ export'.copies = [c \in Claims |-> IF c \in batch THEN export.copies[c] + 1
                                                          ELSE export.copies[c]]
      /\ export'.skip = export.skip + BatchSize
      /\ export'.pc = IF Cardinality(batch) < BatchSize THEN "ended" ELSE "reading"
      /\ export'.filter = export.filter /\ export'.atStart = export.atStart
      /\ export'.entered = export.entered /\ export'.left = export.left
  BY <1>1, <1>2, <1>3 DEF Exports, NextSkip
<1>5. export' \in Exports
  <2>1. PICK copies \in [Claims -> Nat] :
          copies = [c \in Claims |-> IF c \in batch THEN export.copies[c] + 1
                                                    ELSE export.copies[c]]
    <3>1. \A c \in Claims : export.copies[c] \in Nat /\ export.copies[c] + 1 \in Nat
      BY <1>3
    <3>2. \A c \in Claims : (IF c \in batch THEN export.copies[c] + 1 ELSE export.copies[c]) \in Nat
      BY <3>1
    <3> QED BY <3>2, Zenon
  <2>2. PICK skip \in Nat : skip = NextSkip(export.skip)
    BY <1>3 DEF NextSkip
  <2>3. export' = [export EXCEPT !.copies = copies, !.skip = skip,
                     !.pc = IF Cardinality(batch) < BatchSize THEN "ended" ELSE @]
    BY <1>1, <1>3, <2>1, <2>2 DEF Exports
  <2> QED BY <1>3, <2>3 DEF Exports
<1>6. Selection' = Selection
  BY <1>2, <1>4 DEF Selection, Matching, MatchingIn
<1>7. \A c : Position(c)' = Position(c)
  BY <1>6 DEF Position, Older
<1>8. \A c : (Unpassed(c)' <=> Unpassed(c)) /\ (Unpushed(c)' <=> Unpushed(c))
  BY <1>4 DEF Unpassed, Unpushed
<1>9. SourceInv'
  <2>1. batch \subseteq Selection
    BY <1>1 DEF Window
  <2>2. ASSUME NEW c \in Claims, export'.copies[c] > 0
        PROVE  c \in export.atStart \cup export.entered
    <3>1. c \in batch \/ export.copies[c] > 0
      BY <1>4, <2>2
    <3> QED BY <1>2, <2>1, <3>1 DEF IInv, ExportInv, SourceInv
  <2> QED BY <1>2, <1>4, <1>6, <2>2 DEF IInv, ExportInv, SourceInv
<1>10. MissInv'
  <2> SUFFICES ASSUME NEW c \in Claims, Unpassed(c)
               PROVE  /\ export'.pc = "reading" => export'.copies[c] > 0 \/ Position(c) >= export'.skip
                      /\ export'.pc \in {"ended", "saved", "empty"} => export'.copies[c] > 0
    BY <1>7, <1>8 DEF MissInv
  <2>1. c \in Selection /\ ~Tied(c)
    BY <1>2 DEF Unpassed, IInv, ExportInv, SourceInv
  <2>2. export.copies[c] > 0 \/ Position(c) >= export.skip
    BY <1>2 DEF IInv, ExportInv, MissInv
  <2>3. Position(c) \in Nat
    BY SelectionFinite
  <2>4. CASE export.copies[c] > 0
    BY <1>3, <1>4, <2>4
  <2>5. CASE Position(c) >= export.skip /\ Position(c) < export.skip + BatchSize
    <3>1. c \in batch
      BY <1>1, <1>3, <2>1, <2>5, BatchFacts
    <3> QED BY <1>3, <1>4, <3>1
  <2>6. CASE Position(c) >= export.skip + BatchSize
    <3>1. Cardinality(batch) = BatchSize
      BY <1>1, <1>3, <2>1, <2>6, BatchFacts
    <3>2. export'.pc = "reading"
      BY <1>3, <1>4, <3>1
    <3> QED BY <1>4, <2>6, <3>2
  <2> QED BY <1>3, <2>2, <2>3, <2>4, <2>5, <2>6
<1>11. RepeatInv'
  <2> SUFFICES ASSUME NEW c \in Claims, Unpushed(c)
               PROVE  /\ export'.copies[c] <= 1
                      /\ export'.copies[c] = 0 \/ Position(c) < export'.skip
    BY <1>7, <1>8 DEF RepeatInv
  <2>1. export.copies[c] <= 1 /\ (export.copies[c] = 0 \/ Position(c) < export.skip)
    BY <1>2 DEF IInv, ExportInv, RepeatInv
  <2>2. Position(c) \in Nat /\ export.copies[c] \in Nat
    BY <1>3, SelectionFinite
  <2>3. c \in batch <=> /\ c \in Selection /\ export.skip <= Position(c)
                        /\ Position(c) < export.skip + BatchSize
    BY <1>1, <1>3, BatchFacts DEF Unpushed
  <2>4. CASE c \in batch
    <3>1. export.copies[c] = 0
      BY <1>3, <2>1, <2>2, <2>3, <2>4
    <3> QED BY <1>4, <2>3, <2>4, <3>1
  <2>5. CASE c \notin batch
    BY <1>3, <1>4, <2>1, <2>2, <2>5
  <2> QED BY <2>4, <2>5
<1> QED BY <1>4, <1>5, <1>9, <1>10, <1>11 DEF IInv, ExportInv, KeepInv

LEMMA FailExportKeepsInv ==
  ASSUME IInv, FailExport, screen = "export", UNCHANGED screen
  PROVE  export' \in Exports /\ ExportInv'
<1>1. /\ export' \in Exports /\ export'.pc = "failed"
      /\ export'.filter = export.filter /\ export'.copies = export.copies
      /\ export'.atStart = export.atStart
      /\ export'.entered = export.entered /\ export'.left = export.left
  BY DEF FailExport, IInv, Exports
<1> QED
  BY <1>1 DEF IInv, ExportInv, SourceInv, MissInv, RepeatInv, KeepInv, Unpushed

LEMMA SaveExportKeepsInv ==
  ASSUME IInv, SaveExport, screen = "export", UNCHANGED screen
  PROVE  export' \in Exports /\ ExportInv'
<1>1. PICK pc \in {"saved", "empty"} : export' = [export EXCEPT !.pc = pc]
  BY DEF SaveExport
<1>2. /\ export' \in Exports /\ export'.pc = pc
      /\ export'.filter = export.filter /\ export'.copies = export.copies
      /\ export'.atStart = export.atStart
      /\ export'.entered = export.entered /\ export'.left = export.left
  BY <1>1 DEF IInv, Exports
<1>3. export.pc = "ended"
  BY DEF SaveExport
<1> QED
  BY <1>2, <1>3
     DEF IInv, ExportInv, SourceInv, MissInv, RepeatInv, KeepInv, Unpassed, Unpushed

(* A claim's position can fall only when an older claim leaves, and rise   *)
(* only when one enters.                                                   *)
LEMMA ObserveExportKeepsInv ==
  ASSUME IInv, ObserveExport, TablesOK', UNCHANGED screen,
         \A c \in Claims : InScope(Exporter, claims[c]) => InScope(Exporter, claims'[c])
  PROVE  export' \in Exports /\ ExportInv'
<1>1. CASE export.pc # "reading"
  <2>1. export' = export
    BY <1>1 DEF ObserveExport
  <2> QED
    BY <1>1, <2>1
       DEF IInv, ExportInv, SourceInv, MissInv, RepeatInv, KeepInv, Unpassed, Unpushed
<1>2. CASE export.pc = "reading"
  <2> DEFINE after == MatchingIn(claims', Exporter, export.filter)
  <2>1. export' = [export EXCEPT !.entered = @ \cup (after \ Selection),
                                 !.left    = @ \cup (Selection \ after)]
    BY <1>2 DEF ObserveExport, Selection, Matching
  <2>2. PICK now \in SUBSET Claims : now = after
    BY DEF MatchingIn
  <2>3. /\ export' \in Exports /\ export'.pc = "reading"
        /\ export'.filter = export.filter /\ export'.copies = export.copies
        /\ export'.atStart = export.atStart /\ export'.skip = export.skip
        /\ export'.entered = export.entered \cup (now \ Selection)
        /\ export'.left = export.left \cup (Selection \ now)
    BY <1>2, <2>1, <2>2, SelectionFinite DEF IInv, Exports
  <2>4. Selection' = now
    BY <2>2, <2>3 DEF Selection, Matching, MatchingIn
  <2> HIDE DEF after
  <2>5. SourceInv'
    BY <1>2, <2>3, <2>4 DEF IInv, ExportInv, SourceInv
  <2>6. KeepInv'
    <3> SUFFICES ASSUME export.filter.status = {} PROVE Selection \subseteq now
      BY <2>3 DEF IInv, ExportInv, KeepInv
    <3>1. export.filter \in ExportFilters
      BY DEF IInv, Exports
    <3> QED
      BY <2>2, <3>1 DEF after, Selection, Matching, MatchingIn, MatchesFilter, ExportFilters
  <2>7. \A c : /\ Position(c) \in Nat /\ IsFiniteSet(Older(c))
               /\ Older(c)' = {d \in now : Created[d] < Created[c]}
               /\ IsFiniteSet(Older(c)') /\ Position(c)' \in Nat
    <3>1. \A c : Position(c) \in Nat /\ IsFiniteSet(Older(c))
      BY SelectionFinite
    <3>2. IsFiniteSet(now)
      BY ClaimsAssumption, FS_Subset
    <3>3. ASSUME NEW c
          PROVE  /\ Older(c)' = {d \in now : Created[d] < Created[c]}
                 /\ IsFiniteSet(Older(c)') /\ Position(c)' \in Nat
      <4>1. Older(c)' = {d \in now : Created[d] < Created[c]}
        BY <2>4 DEF Older
      <4>2. Older(c)' \in SUBSET now
        BY <4>1
      <4> QED BY <3>2, <4>1, <4>2, FS_Subset, FS_CardinalityType DEF Position
    <3> QED BY <3>1, <3>3
  <2>8. \A c, d \in Claims : Created[d] < Created[c] => Precedes(d, c)
    BY CreatedAssumption DEF Precedes
  <2>9. MissInv'
    <3> SUFFICES ASSUME NEW c \in Claims, Unpassed(c)'
                 PROVE  export.copies[c] > 0 \/ Position(c)' >= export.skip
      BY <2>3 DEF MissInv
    <3>1. /\ c \in export.atStart \ export.left /\ ~Tied(c)
          /\ \A d \in export.left \cup (Selection \ now) : ~Precedes(d, c)
      BY <2>3 DEF Unpassed
    <3>2. export.copies[c] > 0 \/ Position(c) >= export.skip
      BY <1>2, <3>1 DEF IInv, ExportInv, MissInv, Unpassed
    <3>3. Older(c) \in SUBSET Older(c)'
      BY <2>7, <2>8, <3>1, SelectionFinite DEF Older
    <3>4. Position(c) <= Position(c)'
      BY <2>7, <3>3, FS_Subset DEF Position
    <3>5. export.skip \in Nat
      BY DEF IInv, Exports
    <3> QED BY <2>7, <3>2, <3>4, <3>5
  <2>10. RepeatInv'
    <3> SUFFICES ASSUME NEW c \in Claims, Unpushed(c)'
                 PROVE  /\ export.copies[c] <= 1
                        /\ export.copies[c] = 0 \/ Position(c)' < export.skip
      BY <2>3 DEF RepeatInv
    <3>1. ~Tied(c) /\ \A d \in export.entered \cup (now \ Selection) : ~Precedes(d, c)
      BY <2>3 DEF Unpushed
    <3>2. export.copies[c] <= 1 /\ (export.copies[c] = 0 \/ Position(c) < export.skip)
      BY <1>2, <3>1 DEF IInv, ExportInv, RepeatInv, Unpushed
    <3>3. Older(c)' \in SUBSET Older(c)
      BY <2>7, <2>8, <3>1 DEF Older
    <3>4. Position(c)' <= Position(c)
      BY <2>7, <3>3, FS_Subset DEF Position
    <3>5. export.skip \in Nat
      BY DEF IInv, Exports
    <3> QED BY <2>7, <3>2, <3>4, <3>5
  <2> QED BY <1>2, <2>3, <2>5, <2>6, <2>9, <2>10 DEF IInv, ExportInv
<1> QED BY <1>1, <1>2

(* With the list on the screen there is no export.                         *)
LEMMA NoExportKeepsInv ==
  ASSUME IInv, screen = "list", UNCHANGED <<export, screen>>
  PROVE  export' \in Exports /\ ExportInv'
<1>1. export.pc = "idle"
  BY DEF IInv, ExportInv
<1> QED
  BY <1>1 DEF IInv, ExportInv, SourceInv, MissInv, RepeatInv, KeepInv, Unpassed, Unpushed

-----------------------------------------------------------------------------
LEMMA InitInv == Init => IInv
<1> SUFFICES ASSUME Init PROVE IInv
  OBVIOUS
<1>1. TablesOK
  BY TablesAssumption DEF Init, TablesOK
<1>2. PICK u \in Viewers : viewer = u /\ view = HomeView(u) /\ view \in Views
  BY ViewsAssumption DEF Init, ListInit
<1>3. /\ page = 1 /\ picked = NothingPicked /\ job = IdleJob /\ told = 0 /\ moves = 0
      /\ cache = [v \in Views |-> [p \in 1..MaxPage |->
                    IF v = view /\ p = 1 THEN Refetch(NoEntry) ELSE NoEntry]]
  BY DEF Init, ListInit
<1>4. 1 \in 1..MaxPage
  BY ListAssumption
<1>5. ListOK
  BY <1>2, <1>3, <1>4, EntryTypes, IdleJobFacts DEF ListOK
<1>6. SelectionInv
  BY <1>3, IdleJobFacts DEF SelectionInv, Allowed, NothingPicked
<1>7. FreshEntry(NoEntry) /\ FreshEntry(Refetch(NoEntry))
  <2>1. FreshEntry(NoEntry)
    BY EntryTypes DEF NoEntry, FreshEntry, Entries
  <2> QED BY <2>1, EntryTypes, RefetchIsFresh
<1>8. FreshInv
  BY <1>1, <1>3, <1>7, IdleJobFacts DEF FreshInv, TablesOK
<1>9. export = NoExport /\ screen \in {"list", "export"}
  BY DEF Init, ExportInit
<1>10. ExportInv
  BY <1>9, NoExportFacts DEF ExportInv, SourceInv, MissInv, RepeatInv, KeepInv
<1> QED BY <1>1, <1>5, <1>6, <1>8, <1>9, <1>10, NoExportFacts DEF IInv, ListInv

LEMMA NextInv == IInv /\ [Next]_vars => IInv'
<1> SUFFICES ASSUME IInv, [Next]_vars PROVE IInv'
  OBVIOUS
<1>1. CASE ListPage
  BY <1>1, ListStepKeepsInv, NoExportKeepsInv DEF ListPage, IInv
<1>2. CASE ExportPage
  <2>1. UNCHANGED tables
    BY <1>2 DEF ExportPage, ExportStep, StartExport, ReadBatch, FailExport, SaveExport
  <2>2. ListInv'
    BY <1>2, <2>1, ListUntouched DEF ExportPage, IInv
  <2>3. export' \in Exports /\ ExportInv'
    BY <1>2, StartExportKeepsInv, ReadBatchKeepsInv, FailExportKeepsInv, SaveExportKeepsInv
       DEF ExportPage, ExportStep
  <2> QED BY <1>2, <2>2, <2>3 DEF ExportPage, IInv
<1>3. CASE Elsewhere
  <2>1. ListInv'
    BY <1>3, OperationKeepsList DEF Elsewhere, IInv
  <2>2. export' \in Exports /\ ExportInv'
    BY <1>3, <2>1, OperationFacts, ObserveExportKeepsInv DEF Elsewhere, IInv, ListInv
  <2> QED BY <1>3, <2>1, <2>2 DEF Elsewhere, IInv
<1>4. CASE UNCHANGED vars
  <2>1. ListInv'
    BY <1>4, ListUntouched DEF vars, IInv
  <2>2. claims' = claims /\ export' = export /\ screen' = screen
    BY <1>4 DEF vars, tables
  <2>3. \A c : Position(c)' = Position(c)
    BY <2>2 DEF Position, Older, Selection, Matching, MatchingIn
  <2>4. Selection' = Selection
    BY <2>2 DEF Selection, Matching, MatchingIn
  <2>5. export' \in Exports /\ ExportInv'
    BY <2>2, <2>3, <2>4
       DEF IInv, ExportInv, SourceInv, MissInv, RepeatInv, KeepInv, Unpassed, Unpushed
  <2> QED BY <2>1, <2>2, <2>5 DEF IInv
<1> QED BY <1>1, <1>2, <1>3, <1>4 DEF Next

LEMMA Invariance == Spec => []IInv
BY InitInv, NextInv, PTL DEF Spec

(* A handover is refused only for something that changed since its rows    *)
(* were picked, or that Finance's selection across approvers allows        *)
(* (reassignClaimsBulk against canReassignClaim of the client).            *)
THEOREM RefusedHandoverHasCause == Spec => []HandoverFailsForCause
<1>1. IInv => HandoverFailsForCause
  <2> SUFFICES ASSUME IInv, job.pc = "sent", ~AcceptsHandOver(job), job.to \in active,
                      ~(Cardinality(Ids(job)) > MaxBulk),
                      \A c \in Ids(job) : claims[c] = job.rows[c]
               PROVE  Role[viewer] = "FINANCE" /\ \E c \in Ids(job) : job.rows[c].assignedApprover = job.to
    BY DEF HandoverFailsForCause
  <2>1. Cardinality(Ids(job)) <= MaxBulk
    <3>1. Ids(job) \in SUBSET Claims
      BY DEF Ids
    <3>2. Cardinality(Ids(job)) \in Nat /\ MaxBulk \in Nat
      BY <3>1, ClaimsAssumption, ListAssumption, FS_Subset, FS_CardinalityType
    <3> QED BY <3>2
  <2>2. \A c \in Ids(job) : ClientCanReassign(claims[c], viewer)
    BY DEF IInv, ListInv, SelectionInv, Allowed, Ids
  <2>3. PICK c \in Ids(job) :
          ~IsReassignableBy(claims[c], viewer) \/ claims[c].assignedApprover = job.to
    BY <2>1 DEF AcceptsHandOver
  <2>4. claims[c].assignedApprover = job.to
    BY <2>2, <2>3 DEF ClientCanReassign, IsReassignableBy, IsReassignable
  <2>5. job.to # viewer
    BY DEF IInv, ListInv, SelectionInv, Targets
  <2>6. Role[viewer] = "FINANCE"
    BY <2>2, <2>4, <2>5 DEF ClientCanReassign
  <2> QED BY <2>4, <2>6
<1> QED BY <1>1, Invariance, PTL

(* A list that passes for up to date shows the handover its user was told  *)
(* of, unless a fetch that was under way then, and went on, made it look   *)
(* so (useInvalidateClaims).                                               *)
THEOREM ReportedHandoverIsShown == Spec => []HandoverIsShown
<1>1. IInv => HandoverIsShown
  BY DEF IInv, ListInv, ListOK, FreshInv, FreshEntry, HandoverIsShown, Shown
<1> QED BY <1>1, Invariance, PTL

(* A finished export misses or repeats a claim only because an older one   *)
(* left or entered meanwhile or the order of creation does not decide, and *)
(* holds no claim that never matched (streamClaimsCsv), with batches of    *)
(* any size and whatever orders the database chooses.                      *)
THEOREM ExportErrorsHaveCauses == Spec => []ExportErrsForCause
<1>1. IInv => ExportErrsForCause
  <2> SUFFICES ASSUME IInv, Exported, NEW c \in Claims
               PROVE  /\ c \in export.atStart \ export.left /\ export.copies[c] = 0 =>
                           Tied(c) \/ \E d \in export.left : Precedes(d, c)
                      /\ export.copies[c] > 1 =>
                           Tied(c) \/ \E d \in export.entered : Precedes(d, c)
                      /\ export.copies[c] > 0 => c \in export.atStart \cup export.entered
    BY DEF ExportErrsForCause
  <2>1. export.copies[c] \in Nat
    BY DEF IInv, Exports
  <2>2. Unpassed(c) => export.copies[c] > 0
    BY DEF IInv, ExportInv, MissInv, Exported
  <2>3. Unpushed(c) => export.copies[c] <= 1
    BY DEF IInv, ExportInv, RepeatInv
  <2>4. export.copies[c] > 0 => c \in export.atStart \cup export.entered
    BY DEF IInv, ExportInv, SourceInv
  <2> QED BY <2>1, <2>2, <2>3, <2>4 DEF Unpassed, Unpushed
<1> QED BY <1>1, Invariance, PTL

(* An export of every status holds each claim Finance could see when it    *)
(* started, but for claims created in the same millisecond                 *)
(* (exportService.ts:52).                                                  *)
THEOREM UnfilteredExportMissesNothing == Spec => []UnfilteredExportIsComplete
<1>1. IInv => UnfilteredExportIsComplete
  <2> SUFFICES ASSUME IInv, Exported, export.filter.status = {}, NEW c \in export.atStart
               PROVE  Tied(c) \/ export.copies[c] > 0
    BY DEF UnfilteredExportIsComplete
  <2>1. c \in Claims
    BY DEF IInv, Exports
  <2>2. export.left = {}
    BY DEF IInv, ExportInv, KeepInv
  <2> QED BY <2>1, <2>2 DEF IInv, ExportInv, MissInv, Unpassed, Exported
<1> QED BY <1>1, Invariance, PTL
=============================================================================
