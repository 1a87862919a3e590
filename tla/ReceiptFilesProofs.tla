-------------------------- MODULE ReceiptFilesProofs --------------------------
(***************************************************************************)
(* Proofs that rows and files stay together, and evidence stays locked,    *)
(* for any number of requests, files and items.                            *)
(*                                                                         *)
(* All of it rests on who may still touch a path.  A path is drawn once,   *)
(* so the row an upload writes is nobody's: no other upload has the path,  *)
(* no deletion has read its row, and no handler is about to remove it.     *)
(***************************************************************************)
EXTENDS ReceiptFiles, TLAPS

PCs == {"idle", "store", "record", "cleanup", "erase", "unlink"}

ReqRows == [pc : PCs, file : Files \cup {None}, item : ItemIds \cup {None},
            doomed : SUBSET Files]

Uploading(p) == req[p].pc \in {"store", "record", "cleanup"}

TypeInv ==
  /\ items \subseteq ItemIds
  /\ req \in [Requests -> ReqRows]
  /\ drawn \subseteq Files
  /\ DOMAIN receipts \subseteq drawn
  /\ files \subseteq drawn

(* What a request knows of the paths it holds.                             *)
PathInv(p) ==
  /\ req[p].doomed \subseteq drawn
  /\ req[p].doomed \cap DOMAIN receipts = {}
  /\ req[p].pc # "unlink" => req[p].doomed = {}
  /\ Uploading(p) \/ req[p].pc = "erase" => req[p].file \in drawn
  /\ req[p].pc \in {"store", "record"} => req[p].file \notin DOMAIN receipts
  /\ req[p].pc = "record" => req[p].file \in files
  /\ req[p].pc = "cleanup" => req[p].file \notin DOMAIN receipts \ unacked
  /\ req[p].pc = "erase" /\ req[p].file \in DOMAIN receipts => receipts[req[p].file] = req[p].item

(* The path of an upload is nobody else's.                                 *)
PairInv(p, q) ==
  p # q =>
    /\ Uploading(p) /\ Uploading(q) => req[p].file # req[q].file
    /\ req[p].pc \in {"store", "record"} =>
         /\ req[p].file \notin req[q].doomed
         /\ req[q].pc = "erase" => req[p].file # req[q].file

(* Every file without a row is accounted for.                              *)
OwedInv == \A f \in files \ DOMAIN receipts : f \in stranded \/ \E p \in Requests : f \in Owed(p)

IInv ==
  /\ TypeInv
  /\ \A p \in Requests : PathInv(p)
  /\ \A p, q \in Requests : PairInv(p, q)
  /\ RowsHaveFiles
  /\ OwedInv
  /\ ReceiptsAttachToItems

-----------------------------------------------------------------------------
(* One lemma for each operation.                                           *)

(* StartUpload keeps the invariant. *)
LEMMA StartUploadInv ==
  ASSUME IInv, NEW p \in Requests, NEW f \in Files, NEW item \in ItemIds \cup {None}, StartUpload(p, f, item)
  PROVE  IInv'
<1> USE DEF IInv, TypeInv, GoTo, Idle, ReqRows, PCs, StartUpload, Draws
<1>1. TypeInv'
  OBVIOUS
<1>2. ASSUME NEW q \in Requests PROVE PathInv(q)'
  BY <1>2 DEF PathInv, PairInv, Uploading, RowsHaveFiles
<1>3. ASSUME NEW q \in Requests, NEW r \in Requests PROVE PairInv(q, r)'
  BY <1>3 DEF PathInv, PairInv, Uploading
<1>4. RowsHaveFiles'
  BY DEF PathInv, PairInv, Uploading, RowsHaveFiles
<1>5. OwedInv'
  BY DEF PathInv, OwedInv, Owed
<1>6. ReceiptsAttachToItems'
  BY DEF ReceiptsAttachToItems
<1> QED BY <1>1, <1>2, <1>3, <1>4, <1>5, <1>6

(* StoreFile keeps the invariant. *)
LEMMA StoreFileInv ==
  ASSUME IInv, NEW p \in Requests, StoreFile(p)
  PROVE  IInv'
<1> USE DEF IInv, TypeInv, GoTo, Idle, ReqRows, PCs, StoreFile
<1>1. TypeInv'
  BY DEF PathInv, Uploading
<1>2. ASSUME NEW q \in Requests PROVE PathInv(q)'
  BY <1>2 DEF PathInv, PairInv, Uploading, RowsHaveFiles
<1>3. ASSUME NEW q \in Requests, NEW r \in Requests PROVE PairInv(q, r)'
  BY <1>3 DEF PathInv, PairInv, Uploading
<1>4. RowsHaveFiles'
  BY DEF PathInv, PairInv, Uploading, RowsHaveFiles
<1>5. OwedInv'
  BY DEF PathInv, OwedInv, Owed
<1>6. ReceiptsAttachToItems'
  BY DEF ReceiptsAttachToItems
<1> QED BY <1>1, <1>2, <1>3, <1>4, <1>5, <1>6

(* StoreFails keeps the invariant. *)
LEMMA StoreFailsInv ==
  ASSUME IInv, NEW p \in Requests, StoreFails(p)
  PROVE  IInv'
<1> USE DEF IInv, TypeInv, GoTo, Idle, ReqRows, PCs, StoreFails
<1>1. TypeInv'
  BY DEF PathInv, Uploading
<1>2. ASSUME NEW q \in Requests PROVE PathInv(q)'
  BY <1>2 DEF PathInv, PairInv, Uploading, RowsHaveFiles
<1>3. ASSUME NEW q \in Requests, NEW r \in Requests PROVE PairInv(q, r)'
  BY <1>3 DEF PathInv, PairInv, Uploading
<1>4. RowsHaveFiles'
  BY DEF PathInv, PairInv, Uploading, RowsHaveFiles
<1>5. OwedInv'
  BY DEF PathInv, OwedInv, Owed
<1>6. ReceiptsAttachToItems'
  BY DEF ReceiptsAttachToItems
<1> QED BY <1>1, <1>2, <1>3, <1>4, <1>5, <1>6

(* RecordReceipt keeps the invariant. *)
LEMMA RecordReceiptInv ==
  ASSUME IInv, NEW p \in Requests, RecordReceipt(p)
  PROVE  IInv'
<1> USE DEF IInv, TypeInv, GoTo, Idle, ReqRows, PCs, RecordReceipt, WriteRow, RowCanBeWritten
<1>1. TypeInv'
  BY DEF PathInv, Uploading
<1>2. ASSUME NEW q \in Requests PROVE PathInv(q)'
  BY <1>2 DEF PathInv, PairInv, Uploading, RowsHaveFiles
<1>3. ASSUME NEW q \in Requests, NEW r \in Requests PROVE PairInv(q, r)'
  BY <1>3 DEF PathInv, PairInv, Uploading
<1>4. RowsHaveFiles'
  BY DEF PathInv, PairInv, Uploading, RowsHaveFiles
<1>5. OwedInv'
  BY DEF PathInv, OwedInv, Owed
<1>6. ReceiptsAttachToItems'
  BY DEF ReceiptsAttachToItems
<1> QED BY <1>1, <1>2, <1>3, <1>4, <1>5, <1>6

(* RecordUnacknowledged keeps the invariant. *)
LEMMA RecordUnacknowledgedInv ==
  ASSUME IInv, NEW p \in Requests, RecordUnacknowledged(p)
  PROVE  IInv'
<1> USE DEF IInv, TypeInv, GoTo, Idle, ReqRows, PCs, RecordUnacknowledged, WriteRow, RowCanBeWritten
<1>1. TypeInv'
  BY DEF PathInv, Uploading
<1>2. ASSUME NEW q \in Requests PROVE PathInv(q)'
  BY <1>2 DEF PathInv, PairInv, Uploading, RowsHaveFiles
<1>3. ASSUME NEW q \in Requests, NEW r \in Requests PROVE PairInv(q, r)'
  BY <1>3 DEF PathInv, PairInv, Uploading
<1>4. RowsHaveFiles'
  BY DEF PathInv, PairInv, Uploading, RowsHaveFiles
<1>5. OwedInv'
  BY DEF PathInv, OwedInv, Owed
<1>6. ReceiptsAttachToItems'
  BY DEF ReceiptsAttachToItems
<1> QED BY <1>1, <1>2, <1>3, <1>4, <1>5, <1>6

(* RecordFails keeps the invariant. *)
LEMMA RecordFailsInv ==
  ASSUME IInv, NEW p \in Requests, RecordFails(p)
  PROVE  IInv'
<1> USE DEF IInv, TypeInv, GoTo, Idle, ReqRows, PCs, RecordFails
<1>1. TypeInv'
  OBVIOUS
<1>2. ASSUME NEW q \in Requests PROVE PathInv(q)'
  BY <1>2 DEF PathInv, PairInv, Uploading, RowsHaveFiles
<1>3. ASSUME NEW q \in Requests, NEW r \in Requests PROVE PairInv(q, r)'
  BY <1>3 DEF PathInv, PairInv, Uploading
<1>4. RowsHaveFiles'
  BY DEF PathInv, PairInv, Uploading, RowsHaveFiles
<1>5. OwedInv'
  BY DEF PathInv, OwedInv, Owed
<1>6. ReceiptsAttachToItems'
  BY DEF ReceiptsAttachToItems
<1> QED BY <1>1, <1>2, <1>3, <1>4, <1>5, <1>6

(* CleanUp keeps the invariant. *)
LEMMA CleanUpInv ==
  ASSUME IInv, NEW p \in Requests, CleanUp(p)
  PROVE  IInv'
<1> USE DEF IInv, TypeInv, GoTo, Idle, ReqRows, PCs, CleanUp
<1>1. TypeInv'
  OBVIOUS
<1>2. ASSUME NEW q \in Requests PROVE PathInv(q)'
  BY <1>2 DEF PathInv, PairInv, Uploading, RowsHaveFiles
<1>3. ASSUME NEW q \in Requests, NEW r \in Requests PROVE PairInv(q, r)'
  BY <1>3 DEF PathInv, PairInv, Uploading
<1>4. RowsHaveFiles'
  BY DEF PathInv, PairInv, Uploading, RowsHaveFiles
<1>5. OwedInv'
  BY DEF PathInv, OwedInv, Owed
<1>6. ReceiptsAttachToItems'
  BY DEF ReceiptsAttachToItems
<1> QED BY <1>1, <1>2, <1>3, <1>4, <1>5, <1>6

(* StartDelete keeps the invariant. *)
LEMMA StartDeleteInv ==
  ASSUME IInv, NEW p \in Requests, NEW f \in Files, StartDelete(p, f)
  PROVE  IInv'
<1> USE DEF IInv, TypeInv, GoTo, Idle, ReqRows, PCs, StartDelete
<1>1. TypeInv'
  BY DEF ReceiptsAttachToItems
<1>2. ASSUME NEW q \in Requests PROVE PathInv(q)'
  BY <1>2 DEF PathInv, PairInv, Uploading, RowsHaveFiles
<1>3. ASSUME NEW q \in Requests, NEW r \in Requests PROVE PairInv(q, r)'
  BY <1>3 DEF PathInv, PairInv, Uploading
<1>4. RowsHaveFiles'
  BY DEF PathInv, PairInv, Uploading, RowsHaveFiles
<1>5. OwedInv'
  BY DEF PathInv, OwedInv, Owed
<1>6. ReceiptsAttachToItems'
  BY DEF ReceiptsAttachToItems
<1> QED BY <1>1, <1>2, <1>3, <1>4, <1>5, <1>6

(* Rows S are erased by request p, which goes on to remove their files, or *)
(* never gets to it.                                                       *)
LEMMA ErasedRowsInv ==
  ASSUME IInv, NEW p \in Requests, NEW S \in SUBSET DOMAIN receipts,
         req[p].pc \in {"idle", "erase"}, receipts' = Without(S), Unlinking(p, S),
         UNCHANGED <<files, drawn, unacked>>, items' \subseteq items,
         \A f \in DOMAIN receipts \ S : receipts[f] \in items' \cup {None}
  PROVE  IInv'
<1> USE DEF IInv, TypeInv
<1>1. /\ DOMAIN receipts' = DOMAIN receipts \ S
      /\ \A f \in DOMAIN receipts' : receipts'[f] = receipts[f]
  BY DEF Without, Restrict
<1>2. PICK row \in ReqRows :
        /\ req' = [req EXCEPT ![p] = row]
        /\ row.pc \in {"idle", "unlink"}
        /\ row.doomed \subseteq S
        /\ row.pc = "idle" => row.doomed = {}
        /\ row.doomed = S \/ stranded' = stranded \cup S
        /\ stranded \subseteq stranded'
  <2>1. CASE UNCHANGED stranded /\ GoTo(p, [Idle EXCEPT !.pc = "unlink", !.doomed = S])
    <3> DEFINE row == [Idle EXCEPT !.pc = "unlink", !.doomed = S]
    <3>1. row \in ReqRows BY DEF Idle, ReqRows, PCs
    <3>2. row.pc = "unlink" /\ row.doomed = S BY DEF Idle
    <3> QED BY <2>1, <3>1, <3>2 DEF GoTo
  <2>2. CASE GoTo(p, Idle) /\ stranded' = stranded \cup S
    <3>1. Idle \in ReqRows /\ Idle.pc = "idle" /\ Idle.doomed = {} BY DEF Idle, ReqRows, PCs
    <3> QED BY <2>2, <3>1 DEF GoTo
  <2> QED BY <2>1, <2>2 DEF Unlinking
<1>3. /\ req' \in [Requests -> ReqRows]
      /\ req'[p] = row
      /\ \A q \in Requests \ {p} : req'[q] = req[q]
  BY <1>2
<1>4. TypeInv'
  BY <1>1, <1>3
<1>5. ASSUME NEW q \in Requests PROVE PathInv(q)'
  <2>1. CASE q = p
    BY <1>1, <1>2, <1>3, <2>1 DEF PathInv, Uploading
  <2>2. CASE q # p
    BY <1>1, <1>3, <2>2 DEF PathInv, Uploading
  <2> QED BY <2>1, <2>2
<1>6. ASSUME NEW q \in Requests, NEW r \in Requests PROVE PairInv(q, r)'
  <2>1. CASE q # p /\ r = p
    BY <1>2, <1>3, <2>1 DEF PairInv, PathInv, Uploading
  <2>2. CASE q = p \/ r # p
    BY <1>2, <1>3, <2>2 DEF PairInv, Uploading
  <2> QED BY <2>1, <2>2
<1>7. RowsHaveFiles'
  BY <1>1 DEF RowsHaveFiles
<1>8. OwedInv'
  <2> SUFFICES ASSUME NEW f \in files \ DOMAIN receipts', f \notin stranded'
               PROVE  \E q \in Requests : f \in Owed(q)'
    BY DEF OwedInv
  <2>1. CASE f \in S
    BY <1>2, <1>3, <2>1 DEF Owed
  <2>2. CASE f \notin S
    <3>1. PICK q \in Requests : f \in Owed(q)
      BY <1>1, <1>2, <2>2 DEF OwedInv
    <3>2. q # p
      BY <3>1 DEF Owed, PathInv
    <3> QED BY <1>3, <3>1, <3>2 DEF Owed
  <2> QED BY <2>1, <2>2
<1>9. ReceiptsAttachToItems'
  BY <1>1 DEF ReceiptsAttachToItems
<1> QED BY <1>4, <1>5, <1>6, <1>7, <1>8, <1>9

(* EraseReceipt keeps the invariant. *)
LEMMA EraseReceiptInv ==
  ASSUME IInv, NEW p \in Requests, EraseReceipt(p)
  PROVE  IInv'
BY ErasedRowsInv DEF EraseReceipt, IInv, ReceiptsAttachToItems

(* EraseFails keeps the invariant. *)
LEMMA EraseFailsInv ==
  ASSUME IInv, NEW p \in Requests, EraseFails(p)
  PROVE  IInv'
<1> USE DEF IInv, TypeInv, GoTo, Idle, ReqRows, PCs, EraseFails
<1>1. TypeInv'
  OBVIOUS
<1>2. ASSUME NEW q \in Requests PROVE PathInv(q)'
  BY <1>2 DEF PathInv, PairInv, Uploading, RowsHaveFiles
<1>3. ASSUME NEW q \in Requests, NEW r \in Requests PROVE PairInv(q, r)'
  BY <1>3 DEF PathInv, PairInv, Uploading
<1>4. RowsHaveFiles'
  BY DEF PathInv, PairInv, Uploading, RowsHaveFiles
<1>5. OwedInv'
  BY DEF PathInv, OwedInv, Owed
<1>6. ReceiptsAttachToItems'
  BY DEF ReceiptsAttachToItems
<1> QED BY <1>1, <1>2, <1>3, <1>4, <1>5, <1>6

(* DeleteItem keeps the invariant. *)
LEMMA DeleteItemInv ==
  ASSUME IInv, NEW p \in Requests, NEW i \in ItemIds, DeleteItem(p, i)
  PROVE  IInv'
<1> DEFINE attached == {f \in DOMAIN receipts : receipts[f] = i}
<1>1. \A f \in DOMAIN receipts \ attached : receipts[f] \in items' \cup {None}
  BY DEF DeleteItem, IInv, ReceiptsAttachToItems
<1> QED BY <1>1, ErasedRowsInv DEF DeleteItem

(* Unlink keeps the invariant. *)
LEMMA UnlinkInv ==
  ASSUME IInv, NEW p \in Requests, NEW f \in Files, Unlink(p, f)
  PROVE  IInv'
<1> USE DEF IInv, TypeInv, GoTo, Idle, ReqRows, PCs, Unlink, Remaining
<1>1. TypeInv'
  OBVIOUS
<1>2. ASSUME NEW q \in Requests PROVE PathInv(q)'
  BY <1>2 DEF PathInv, PairInv, Uploading, RowsHaveFiles
<1>3. ASSUME NEW q \in Requests, NEW r \in Requests PROVE PairInv(q, r)'
  BY <1>3 DEF PathInv, PairInv, Uploading
<1>4. RowsHaveFiles'
  BY DEF PathInv, PairInv, Uploading, RowsHaveFiles
<1>5. OwedInv'
  BY DEF PathInv, OwedInv, Owed
<1>6. ReceiptsAttachToItems'
  BY DEF ReceiptsAttachToItems
<1> QED BY <1>1, <1>2, <1>3, <1>4, <1>5, <1>6

(* EndUnlink keeps the invariant. *)
LEMMA EndUnlinkInv ==
  ASSUME IInv, NEW p \in Requests, EndUnlink(p)
  PROVE  IInv'
<1> USE DEF IInv, TypeInv, GoTo, Idle, ReqRows, PCs, EndUnlink
<1>1. TypeInv'
  OBVIOUS
<1>2. ASSUME NEW q \in Requests PROVE PathInv(q)'
  BY <1>2 DEF PathInv, PairInv, Uploading, RowsHaveFiles
<1>3. ASSUME NEW q \in Requests, NEW r \in Requests PROVE PairInv(q, r)'
  BY <1>3 DEF PathInv, PairInv, Uploading
<1>4. RowsHaveFiles'
  BY DEF PathInv, PairInv, Uploading, RowsHaveFiles
<1>5. OwedInv'
  BY DEF PathInv, OwedInv, Owed
<1>6. ReceiptsAttachToItems'
  BY DEF ReceiptsAttachToItems
<1> QED BY <1>1, <1>2, <1>3, <1>4, <1>5, <1>6

(* ClaimMoves keeps the invariant. *)
LEMMA ClaimMovesInv ==
  ASSUME IInv, UNCHANGED <<items, receipts, files, req, drawn, unacked, stranded>>
  PROVE  IInv'
BY DEF IInv, TypeInv, PathInv, PairInv, Uploading, RowsHaveFiles, OwedInv, Owed,
       ReceiptsAttachToItems

(* Crash keeps the invariant. *)
LEMMA CrashInv ==
  ASSUME IInv, Crash
  PROVE  IInv'
<1> USE DEF IInv, Crash, Idle
<1>1. TypeInv'
  BY DEF TypeInv, ReqRows, PCs
<1>2. ASSUME NEW p \in Requests PROVE PathInv(p)'
  BY <1>2 DEF PathInv, Uploading
<1>3. ASSUME NEW p \in Requests, NEW q \in Requests PROVE PairInv(p, q)'
  BY <1>3 DEF PairInv, Uploading
<1>4. RowsHaveFiles'
  BY DEF RowsHaveFiles
<1>5. OwedInv'
  <2>1. ASSUME NEW p \in Requests, NEW f \in Owed(p) PROVE f \in stranded'
    BY <2>1
  <2>2. stranded \subseteq stranded'
    OBVIOUS
  <2> QED BY <2>1, <2>2 DEF OwedInv
<1>6. ReceiptsAttachToItems'
  BY DEF ReceiptsAttachToItems
<1> QED BY <1>1, <1>2, <1>3, <1>4, <1>5, <1>6

-----------------------------------------------------------------------------
LEMMA InitInv == Init => IInv
<1> SUFFICES ASSUME Init PROVE IInv
  OBVIOUS
<1> USE DEF Init, Idle
<1>1. DOMAIN receipts = {}
  OBVIOUS
<1>2. TypeInv
  BY <1>1 DEF TypeInv, ReqRows, PCs
<1>3. (\A p \in Requests : PathInv(p)) /\ (\A p, q \in Requests : PairInv(p, q))
  BY <1>1 DEF PathInv, PairInv, Uploading
<1> QED BY <1>1, <1>2, <1>3 DEF IInv, RowsHaveFiles, OwedInv, ReceiptsAttachToItems

LEMMA NextInv == IInv /\ [Next]_vars => IInv'
<1> SUFFICES ASSUME IInv, [Next]_vars PROVE IInv'
  OBVIOUS
<1>1. ASSUME NEW p \in Requests, Arrive(p) PROVE IInv'
  BY <1>1, StartUploadInv, StartDeleteInv, DeleteItemInv DEF Arrive
<1>2. ASSUME NEW p \in Requests, Proceed(p) PROVE IInv'
  BY <1>2, StoreFileInv, StoreFailsInv, RecordReceiptInv, RecordUnacknowledgedInv,
     RecordFailsInv, CleanUpInv, EraseReceiptInv, EraseFailsInv, UnlinkInv, EndUnlinkInv
     DEF Proceed
<1>3. ASSUME NEW new \in Statuses, ClaimMoves(new) PROVE IInv'
  BY <1>3, ClaimMovesInv DEF ClaimMoves
<1>4. CASE UNCHANGED vars
  BY <1>4, ClaimMovesInv DEF vars
<1> QED BY <1>1, <1>2, <1>3, <1>4, CrashInv DEF Next

(* Every reachable state satisfies the invariant.                          *)
LEMMA Invariance == Spec => []IInv
<1> QED BY InitInv, NextInv, PTL DEF Spec

-----------------------------------------------------------------------------
(* A receipt has its file, unless the upload that wrote its row was told   *)
(* that it had failed (receiptService.ts:98): no order of deletions, item  *)
(* deletions and crashes takes the file from under a row.                  *)
THEOREM RowsKeepTheirFiles == Spec => []RowsHaveFiles
<1>1. IInv => RowsHaveFiles
  BY DEF IInv
<1> QED BY <1>1, Invariance, PTL

(* A file without a row is accounted for by a request in flight, or its    *)
(* removal failed or was cut off.                                          *)
THEOREM FilesAreAccountedFor == Spec => []FilesHaveRows
<1>1. IInv => FilesHaveRows
  BY DEF IInv, OwedInv, FilesHaveRows
<1> QED BY <1>1, Invariance, PTL

(* The item of a receipt exists, although the upload looked for it before  *)
(* storing the file.                                                       *)
THEOREM ReceiptsHaveTheirItem == Spec => []ReceiptsAttachToItems
<1>1. IInv => ReceiptsAttachToItems
  BY DEF IInv
<1> QED BY <1>1, Invariance, PTL

(* Which rows a step may add or remove.                                    *)
LEMMA EvidenceStep ==
  ASSUME IInv, [Next]_vars, NEW f \in Files,
         (f \in DOMAIN receipts) # (f \in DOMAIN receipts')
  PROVE  \/ IsEditableStatus(status)
         \/ /\ status = "INFO_REQUESTED"
            /\ f \in DOMAIN receipts  => receipts[f] = None
            /\ f \in DOMAIN receipts' => receipts'[f] = None
<1> DEFINE Goal == \/ IsEditableStatus(status)
                  \/ /\ status = "INFO_REQUESTED"
                     /\ f \in DOMAIN receipts  => receipts[f] = None
                     /\ f \in DOMAIN receipts' => receipts'[f] = None
<1>1. ASSUME NEW p \in Requests, WriteRow(p) PROVE Goal
  <2>1. f = req[p].file /\ f \in DOMAIN receipts' /\ receipts'[f] = req[p].item
    BY <1>1 DEF WriteRow
  <2>2. f \notin DOMAIN receipts
    BY <2>1
  <2> QED BY <1>1, <2>1, <2>2 DEF WriteRow, RowCanBeWritten, ReceiptChangeAllowed
<1>2. ASSUME NEW p \in Requests, EraseReceipt(p) PROVE Goal
  <2>1. f = req[p].file /\ f \in DOMAIN receipts /\ f \notin DOMAIN receipts'
    BY <1>2 DEF EraseReceipt, Without, Restrict
  <2>2. receipts[f] = req[p].item
    BY <1>2, <2>1 DEF EraseReceipt, IInv, PathInv
  <2> QED BY <1>2, <2>1, <2>2 DEF EraseReceipt, ReceiptChangeAllowed
<1>3. ASSUME NEW p \in Requests, NEW i \in ItemIds, DeleteItem(p, i) PROVE Goal
  BY <1>3 DEF DeleteItem
<1>4. ASSUME NEW p \in Requests, Arrive(p) PROVE Goal
  BY <1>3, <1>4 DEF Arrive, StartUpload, StartDelete
<1>5. ASSUME NEW p \in Requests, Proceed(p) PROVE Goal
  BY <1>1, <1>2, <1>5 DEF Proceed, StoreFile, StoreFails, RecordReceipt, RecordUnacknowledged,
     RecordFails, CleanUp, EraseFails, Unlink, EndUnlink
<1> QED BY <1>4, <1>5 DEF Next, ClaimMoves, Crash, vars

(* The evidence of a claim is locked while the claim is under review, but  *)
(* for receipts of no item while its claimant is asked: the re-check under *)
(* the lock (receiptService.ts:51) suffices for any number of requests.    *)
THEOREM EvidenceIsLocked == Spec => EvidenceLocked
<1>1. IInv /\ [Next]_vars =>
        [\A f \in Files :
           (f \in DOMAIN receipts) # (f \in DOMAIN receipts') =>
             \/ IsEditableStatus(status)
             \/ /\ status = "INFO_REQUESTED"
                /\ f \in DOMAIN receipts  => receipts[f] = None
                /\ f \in DOMAIN receipts' => receipts'[f] = None]_vars
  BY EvidenceStep
<1> QED BY <1>1, Invariance, PTL DEF Spec, EvidenceLocked
=============================================================================
