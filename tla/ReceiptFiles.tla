----------------------------- MODULE ReceiptFiles -----------------------------
(***************************************************************************)
(* The receipts of one claim: rows of table Receipt and the files they     *)
(* name, which live in a store no database transaction covers.  An upload  *)
(* stores the file first and then commits the row; a deletion commits      *)
(* first and then removes the files.  Either may fail in between, and the  *)
(* server may die at any point with requests in flight.                    *)
(*                                                                         *)
(* A transaction here is one step: it starts by taking the claim's row     *)
(* lock, as everything does that changes the claim, its items or its       *)
(* receipts (ClaimTransactions shows what that lock gives).                *)
(***************************************************************************)
EXTENDS ClaimStateMachine, FiniteSets, Functions

CONSTANTS
  Requests,   \* requests in flight
  Files,      \* storage paths; every upload draws a new one (randomUUID)
  ItemIds     \* line items the claim starts with; ids are never used again

VARIABLES
  status,     \* Claim.status
  items,      \* table ClaimItem
  receipts,   \* table Receipt: storagePath -> the item it is attached to, if any
  files,      \* the store
  req,        \* the requests
  drawn,      \* storage paths drawn so far
  unacked,    \* (history) paths of rows committed by an upload that was told it failed
  stranded    \* (history) paths whose removal somebody gave up on

vars == <<status, items, receipts, files, req, drawn, unacked, stranded>>

Idle == [pc |-> "idle", file |-> None, item |-> None, doomed |-> {}]

GoTo(p, r) == req' = [req EXCEPT ![p] = r]

Without(f) == Restrict(receipts, DOMAIN receipts \ f)

\* assertReceiptChangeAllowed()
ReceiptChangeAllowed(item) ==
  IF status = "INFO_REQUESTED" THEN item = None ELSE IsEditableStatus(status)

-----------------------------------------------------------------------------
(* addReceipt()                                                            *)

Draws(f) == f \notin drawn

\* The checks before the file is stored, none of them under the lock.
StartUpload(p, f, item) ==
  /\ req[p].pc = "idle"
  /\ ReceiptChangeAllowed(item)
  /\ item \in items \cup {None}
  /\ Draws(f)
  /\ drawn' = drawn \cup {f}
  /\ GoTo(p, [Idle EXCEPT !.pc = "store", !.file = f, !.item = item])
  /\ UNCHANGED <<status, items, receipts, files, unacked, stranded>>

StoreFile(p) ==
  /\ req[p].pc = "store"
  /\ files' = files \cup {req[p].file}
  /\ GoTo(p, [req[p] EXCEPT !.pc = "record"])
  /\ UNCHANGED <<status, items, receipts, drawn, unacked, stranded>>

\* storage.save() throws outside the try block, whether or not a file is there.
StoreFails(p) ==
  /\ req[p].pc = "store"
  /\ \/ UNCHANGED <<files, stranded>>
     \/ files' = files \cup {req[p].file} /\ stranded' = stranded \cup {req[p].file}
  /\ GoTo(p, Idle)
  /\ UNCHANGED <<status, items, receipts, drawn, unacked>>

\* Mutant: the row is written on the strength of the first check.
RowCanBeWrittenUnchecked(item) == item \in items \cup {None}

\* Mutant: an item deleted meanwhile is not noticed.
RowCanBeWrittenAnyItem(item) == ReceiptChangeAllowed(item)

\* recheckUnderLock(), and the foreign key on claimItemId.
RowCanBeWritten(item) == ReceiptChangeAllowed(item) /\ item \in items \cup {None}

WriteRow(p) ==
  /\ req[p].pc = "record"
  /\ RowCanBeWritten(req[p].item)
  /\ receipts' = [f \in DOMAIN receipts \cup {req[p].file} |->
       IF f = req[p].file THEN req[p].item ELSE receipts[f]]
  /\ UNCHANGED <<status, items, files, drawn, stranded>>

RecordReceipt(p) == WriteRow(p) /\ GoTo(p, Idle) /\ UNCHANGED unacked

\* The row is committed but the connection is lost before the answer.
RecordUnacknowledged(p) ==
  /\ WriteRow(p)
  /\ GoTo(p, [req[p] EXCEPT !.pc = "cleanup"])
  /\ unacked' = unacked \cup {req[p].file}

\* Mutant: a failed transaction leaves the file.
RecordFailsNoCleanUp(p) ==
  /\ req[p].pc = "record"
  /\ GoTo(p, Idle)
  /\ UNCHANGED <<status, items, receipts, files, drawn, unacked, stranded>>

\* A refused or failed transaction.
RecordFails(p) ==
  /\ req[p].pc = "record"
  /\ GoTo(p, [req[p] EXCEPT !.pc = "cleanup"])
  /\ UNCHANGED <<status, items, receipts, files, drawn, unacked, stranded>>

CleanUp(p) ==
  /\ req[p].pc = "cleanup"
  /\ \/ files' = files \ {req[p].file} /\ UNCHANGED stranded
     \/ UNCHANGED files /\ stranded' = stranded \cup {req[p].file}   \* only logged
  /\ GoTo(p, Idle)
  /\ UNCHANGED <<status, items, receipts, drawn, unacked>>

-----------------------------------------------------------------------------
(* deleteReceipt() and deleteItem()                                        *)

StartDelete(p, f) ==
  /\ req[p].pc = "idle"
  /\ f \in DOMAIN receipts
  /\ ReceiptChangeAllowed(receipts[f])
  /\ GoTo(p, [Idle EXCEPT !.pc = "erase", !.file = f, !.item = receipts[f]])
  /\ UNCHANGED <<status, items, receipts, files, drawn, unacked, stranded>>

\* After the commit the handler owes the store the removal of `doomed`; it does
\* not get to it when the commit is not acknowledged.
Unlinking(p, doomed) ==
  \/ GoTo(p, [Idle EXCEPT !.pc = "unlink", !.doomed = doomed]) /\ UNCHANGED stranded
  \/ GoTo(p, Idle) /\ stranded' = stranded \cup doomed

EraseReceipt(p) ==
  /\ req[p].pc = "erase"
  /\ ReceiptChangeAllowed(req[p].item)
  /\ req[p].file \in DOMAIN receipts
  /\ receipts' = Without({req[p].file})
  /\ Unlinking(p, {req[p].file})
  /\ UNCHANGED <<status, items, files, drawn, unacked>>

\* Mutant: the file is removed whether or not the row could be.
EraseFailsButUnlinks(p) ==
  /\ req[p].pc = "erase"
  /\ GoTo(p, [Idle EXCEPT !.pc = "unlink", !.doomed = {req[p].file}])
  /\ UNCHANGED <<status, items, receipts, files, drawn, unacked, stranded>>

\* Refused, or another request deleted the row first, or any other failure.
EraseFails(p) ==
  /\ req[p].pc = "erase"
  /\ GoTo(p, Idle)
  /\ UNCHANGED <<status, items, receipts, files, drawn, unacked, stranded>>

DeleteItem(p, i) ==
  LET attached == {f \in DOMAIN receipts : receipts[f] = i} IN
  /\ req[p].pc = "idle"
  /\ IsEditableStatus(status)
  /\ i \in items
  /\ status = "PENDING_APPROVAL" => items # {i}
  /\ items' = items \ {i}
  /\ receipts' = Without(attached)
  /\ Unlinking(p, attached)
  /\ UNCHANGED <<status, files, drawn, unacked>>

\* Mutant: one removal is taken for all of them.
RemainingNone(doomed, f) == {}

Remaining(doomed, f) == doomed \ {f}

\* storage.delete() of each file; one that throws is not tried again.
Unlink(p, f) ==
  /\ req[p].pc = "unlink"
  /\ f \in req[p].doomed
  /\ \/ files' = files \ {f} /\ UNCHANGED stranded
     \/ UNCHANGED files /\ stranded' = stranded \cup {f}
  /\ GoTo(p, [req[p] EXCEPT !.doomed = Remaining(@, f)])
  /\ UNCHANGED <<status, items, receipts, drawn, unacked>>

EndUnlink(p) ==
  /\ req[p].pc = "unlink" /\ req[p].doomed = {}
  /\ GoTo(p, Idle)
  /\ UNCHANGED <<status, items, receipts, files, drawn, unacked, stranded>>

-----------------------------------------------------------------------------
\* What the operations of ClaimLifecycle do to the status.
StatusMoves ==
  ({"DRAFT", "REJECTED"} \X {"PENDING_APPROVAL"})
    \cup ({"DRAFT", "PENDING_APPROVAL"} \X {"CANCELLED"})
    \cup ({"PENDING_APPROVAL", "PENDING_FINANCE_APPROVAL", "INFO_REQUESTED"}
            \X {"PENDING_FINANCE_APPROVAL", "INFO_REQUESTED", "APPROVED", "REJECTED"})
    \cup {<<"INFO_REQUESTED", "PENDING_APPROVAL">>}

ClaimMoves(new) ==
  /\ <<status, new>> \in StatusMoves
  /\ IsSubmittableStatus(status) /\ new = "PENDING_APPROVAL" => items # {}
  /\ status' = new
  /\ UNCHANGED <<items, receipts, files, req, drawn, unacked, stranded>>

\* The files a request has stored or doomed and not yet dealt with.
Owed(p) ==
  (IF req[p].pc \in {"record", "cleanup"} THEN {req[p].file} ELSE {}) \cup req[p].doomed

\* The server stops with everything it was doing; database and store survive.
Crash ==
  /\ \E p \in Requests : req[p].pc # "idle"
  /\ stranded' = stranded \cup UNION {Owed(p) : p \in Requests}
  /\ req' = [p \in Requests |-> Idle]
  /\ UNCHANGED <<status, items, receipts, files, drawn, unacked>>

Init ==
  /\ status = "DRAFT" /\ items = ItemIds
  /\ receipts = <<>> /\ files = {} /\ drawn = {}
  /\ req = [p \in Requests |-> Idle]
  /\ unacked = {} /\ stranded = {}

\* What a request goes on to do once it has started.
Proceed(p) ==
  \/ StoreFile(p) \/ StoreFails(p)
  \/ RecordReceipt(p) \/ RecordUnacknowledged(p) \/ RecordFails(p) \/ CleanUp(p)
  \/ EraseReceipt(p) \/ EraseFails(p)
  \/ \E f \in Files : Unlink(p, f)
  \/ EndUnlink(p)

Arrive(p) ==
  \/ \E f \in Files, item \in ItemIds \cup {None} : StartUpload(p, f, item)
  \/ \E f \in Files : StartDelete(p, f)
  \/ \E i \in ItemIds : DeleteItem(p, i)

Next ==
  \/ \E p \in Requests : Arrive(p) \/ Proceed(p)
  \/ \E new \in Statuses : ClaimMoves(new)
  \/ Crash

\* The event loop runs the handlers; nothing is assumed of arrivals or crashes.
Fairness == \A p \in Requests : WF_vars(Proceed(p))

Spec == Init /\ [][Next]_vars /\ Fairness

-----------------------------------------------------------------------------
(* Properties.                                                             *)

(* Every receipt can be downloaded, except that an upload told of failure  *)
(* although its row was committed has removed the file from under the row. *)
(* Refused deletions, deletions racing each other and crashes never do.    *)
RowsHaveFiles == DOMAIN receipts \ files \subseteq unacked

(* A file without a row is one a request in flight still accounts for, or  *)
(* one whose removal failed or was cut off by a crash.                     *)
FilesHaveRows ==
  files \ DOMAIN receipts \subseteq stranded \cup UNION {Owed(p) : p \in Requests}

(* No row is attached to a line item that is gone, though the upload       *)
(* looked for the item before it stored the file.                          *)
ReceiptsAttachToItems ==
  \A f \in DOMAIN receipts : receipts[f] \in items \cup {None}

(* The evidence of a claim changes only while the claim can be edited or,  *)
(* for receipts of no item, while its claimant is asked: the re-check      *)
(* under the lock holds against a decision made while the file was stored. *)
EvidenceLocked ==
  [][\A f \in Files :
       (f \in DOMAIN receipts) # (f \in DOMAIN receipts') =>
         \/ IsEditableStatus(status)
         \/ /\ status = "INFO_REQUESTED"
            /\ f \in DOMAIN receipts  => receipts[f] = None
            /\ f \in DOMAIN receipts' => receipts'[f] = None]_vars

(* A file that lost its row, or never got one, is removed in the end,      *)
(* unless its removal failed or was cut off.                               *)
OrphansAreTransient ==
  \A f \in Files :
    (f \in files \ DOMAIN receipts)
      ~> (f \notin files \/ f \in DOMAIN receipts \/ f \in stranded)
=============================================================================
