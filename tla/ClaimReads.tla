------------------------------ MODULE ClaimReads ------------------------------
(***************************************************************************)
(* Lists and the export, reading the same table while claims change.  One  *)
(* browser tab shows one page at a time; here it is one page for good.     *)
(***************************************************************************)
EXTENDS ClaimLists, FinanceExport

CONSTANTS
  Tables,     \* Tables[s]: the tables a reading on screen s may start with
  MaxSteps    \* bound on operations and changes of filter or page together

ASSUME TablesAssumption ==
  \A s \in {"list", "export"} : Tables[s] \subseteq [Claims -> ClaimRows]

VARIABLE screen     \* "list" or "export"

vars == <<tables, listVars, export, screen>>

Init ==
  /\ active = Approvers
  /\ ops = 0
  /\ screen \in {"list", "export"}
  /\ claims \in Tables[screen]
  /\ ListInit
  /\ ExportInit

ListPage   == screen = "list" /\ ListStep /\ UNCHANGED <<export, screen>>
ExportPage == screen = "export" /\ ExportStep /\ UNCHANGED <<listVars, screen>>
Elsewhere  == Operations /\ ObserveExport /\ UNCHANGED <<listVars, screen>>

Next ==
  /\ ListPage \/ ExportPage \/ Elsewhere
  /\ ops' + moves' <= MaxSteps

Spec == Init /\ [][Next]_vars
=============================================================================
