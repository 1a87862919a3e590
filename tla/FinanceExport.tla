---------------------------- MODULE FinanceExport ----------------------------
(***************************************************************************)
(* The CSV export of Finance: exportService.ts reads the table in batches  *)
(* by offset while it changes, routes/finance.ts streams the rows, and     *)
(* ExportPage saves them as a file once all have arrived.                  *)
(***************************************************************************)
EXTENDS ClaimListing

CONSTANTS
  Exporter,     \* the Finance user
  BatchSize     \* BATCH_SIZE

ASSUME ExporterAssumption  == Exporter \in Users /\ Role[Exporter] = "FINANCE"
ASSUME BatchSizeAssumption == BatchSize \in Nat \ {0}

VARIABLE export

\* pc     "idle", "reading", "ended" (all rows sent), "saved", "empty" (nothing to
\*        save), "failed"
\* copies how often each claim was sent
\* atStart, entered, left: which claims matched at the start, and which came to match
\*        or ceased to since, at any time
NoExport ==
  [pc |-> "idle", filter |-> NoFilter, skip |-> 0, copies |-> [c \in Claims |-> 0],
   atStart |-> {}, entered |-> {}, left |-> {}]

ExportInit == export = NoExport

\* The button of ExportPage: one status, or all.
StartExport ==
  /\ export.pc = "idle"
  /\ \E status \in {{}} \cup {{s} : s \in Statuses \ {"ABSENT", "DRAFT"}} :
       LET f == [NoFilter EXCEPT !.status = status] IN
       export' = [NoExport EXCEPT !.pc = "reading", !.filter = f,
                                  !.atStart = Matching(Exporter, f)]
  /\ UNCHANGED tables

\* Mutant: the offset is the number of the last row, not of the next.
NextSkipShort(skip) == skip + BatchSize - 1

\* Mutant: the next offset is one past the first row of the next batch.
NextSkipLong(skip) == skip + BatchSize + 1

NextSkip(skip) == skip + BatchSize

\* One round of streamClaimsCsv(); a short batch is the last.
ReadBatch ==
  /\ export.pc = "reading"
  /\ \E order \in OldestFirst :
       LET batch == Window(Matching(Exporter, export.filter), order, export.skip, BatchSize) IN
       export' = [export EXCEPT
         !.copies = [c \in Claims |-> IF c \in batch THEN @[c] + 1 ELSE @[c]],
         !.skip = NextSkip(@),
         !.pc = IF Cardinality(batch) < BatchSize THEN "ended" ELSE @]
  /\ UNCHANGED tables

\* A query or the connection fails; the status line is sent already, so the response
\* is cut off and res.text() rejects.
FailExport ==
  /\ export.pc \in {"reading", "ended"}
  /\ export' = [export EXCEPT !.pc = "failed"]
  /\ UNCHANGED tables

\* exportClaims() counts the lines of the whole text.
NoRows == \A c \in Claims : export.copies[c] = 0

\* handleExport()
SaveExport ==
  /\ export.pc = "ended"
  /\ export' = [export EXCEPT !.pc = IF NoRows THEN "empty" ELSE "saved"]
  /\ UNCHANGED tables

\* What a change of the table means to an export under way.
ObserveExport ==
  LET before == MatchingIn(claims, Exporter, export.filter)
      after  == MatchingIn(claims', Exporter, export.filter)
  IN export' = IF export.pc = "reading"
               THEN [export EXCEPT !.entered = @ \cup (after \ before),
                                   !.left    = @ \cup (before \ after)]
               ELSE export

ExportStep == StartExport \/ ReadBatch \/ FailExport \/ SaveExport

-----------------------------------------------------------------------------
(* Properties.                                                             *)

Exported == export.pc \in {"saved", "empty"}

\* Another claim than c that precedes it in the order of the export, or may.
Precedes(d, c) == d # c /\ Created[d] <= Created[c]

Tied(c) == \E d \in Claims : d # c /\ Created[d] = Created[c]

(* A finished export errs only for a cause.  A claim that matched all the  *)
(* time is missing only if an earlier one ceased to match meanwhile, or    *)
(* was created in the same millisecond; a claim is repeated only if an     *)
(* earlier one came to match, or likewise; and no claim is in it that      *)
(* never matched (exportService.ts:52-54).                                 *)
ExportErrsForCause ==
  Exported =>
    \A c \in Claims :
      /\ c \in export.atStart \ export.left /\ export.copies[c] = 0 =>
           Tied(c) \/ \E d \in export.left : Precedes(d, c)
      /\ export.copies[c] > 1 =>
           Tied(c) \/ \E d \in export.entered : Precedes(d, c)
      /\ export.copies[c] > 0 => c \in export.atStart \cup export.entered

(* An export without a status filter misses no claim Finance could see     *)
(* when it started, whatever happens to claims meanwhile: none ever        *)
(* returns to DRAFT, so rows only move to later offsets.                   *)
UnfilteredExportIsComplete ==
  Exported /\ export.filter.status = {} =>
    \A c \in export.atStart : Tied(c) \/ export.copies[c] > 0
=============================================================================
