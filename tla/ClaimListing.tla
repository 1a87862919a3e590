----------------------------- MODULE ClaimListing -----------------------------
(***************************************************************************)
(* What lists and exports are read from: a table of claims that changes    *)
(* under the reader, ordered by createdAt, and pages of it by offset.      *)
(*                                                                         *)
(* Only the columns that scope, filters and the pages' buttons look at are *)
(* kept.  The amount is not, so an approver's approval may close a claim   *)
(* or escalate it.                                                         *)
(***************************************************************************)
EXTENDS ClaimQueries, FiniteSets

CONSTANTS
  Claims,     \* ids of claims
  Created,    \* Created[c]: createdAt; not unique, the clock has milliseconds
  MaxOps      \* bound on the operations that change claims

ASSUME ClaimsAssumption  == IsFiniteSet(Claims)
ASSUME CreatedAssumption == Created \in [Claims -> Nat]
ASSUME OpsAssumption     == MaxOps \in Nat

VARIABLES
  claims,     \* table Claim
  active,     \* the approvers with isActive = true
  ops         \* operations so far

tables == <<claims, active, ops>>

Approvers == {a \in Users : Role[a] = "APPROVER"}

UserRefs == Users \cup {None}

ClaimRows ==
  [status : Statuses, claimant : UserRefs, assignedApprover : UserRefs,
   decidedBy : UserRefs, approverApprovedBy : UserRefs]

NewClaim(u) ==
  [status |-> "DRAFT", claimant |-> u, assignedApprover |-> None,
   decidedBy |-> None, approverApprovedBy |-> None]

AbsentClaim == [NewClaim(None) EXCEPT !.status = "ABSENT"]

-----------------------------------------------------------------------------
(* What one operation of the claim services may make of a row.             *)

Submitted(r) ==
  {[r EXCEPT !.status = "PENDING_APPROVAL", !.assignedApprover = a,
             !.decidedBy = None, !.approverApprovedBy = None] : a \in active}

\* A decision or a question of user u.
Decided(r, u) ==
  {[r EXCEPT !.status = s, !.decidedBy = u] : s \in {"APPROVED", "REJECTED"}}
    \cup {[r EXCEPT !.status = "INFO_REQUESTED"]}
    \cup (IF Role[u] = "FINANCE" THEN {}
          ELSE {[r EXCEPT !.status = "PENDING_FINANCE_APPROVAL", !.approverApprovedBy = u]})

Answered(r) ==
  [r EXCEPT !.status = IF IsAtFinanceStage(r) THEN "PENDING_FINANCE_APPROVAL"
                                              ELSE "PENDING_APPROVAL"]

HandedOver(r, to) == [r EXCEPT !.assignedApprover = to]

Successors(r) ==
  UNION ({IF IsSubmittableStatus(r.status) THEN Submitted(r) ELSE {},
          IF IsCancellable(r) THEN {[r EXCEPT !.status = "CANCELLED"]} ELSE {},
          IF r.status = "INFO_REQUESTED" THEN {Answered(r)} ELSE {},
          IF IsReassignable(r) THEN {HandedOver(r, to) : to \in active} ELSE {}}
         \cup {Decided(r, u) : u \in {v \in Users : IsDecidableBy(r, v)}})

Operate(c) ==
  /\ ops < MaxOps
  /\ ops' = ops + 1
  /\ \E row \in Successors(claims[c]) \ {claims[c]} : claims' = [claims EXCEPT ![c] = row]
  /\ UNCHANGED active

\* A claim is created after all others.
CreateClaim(u, c) ==
  /\ ops < MaxOps
  /\ Role[u] = "CLAIMANT"
  /\ claims[c].status = "ABSENT"
  /\ \A d \in Claims : Created[d] > Created[c] => claims[d].status = "ABSENT"
  /\ ops' = ops + 1
  /\ claims' = [claims EXCEPT ![c] = NewClaim(u)]
  /\ UNCHANGED active

\* Accounts are deactivated outside this program, in the database.
Deactivate(a) ==
  /\ ops < MaxOps
  /\ ops' = ops + 1
  /\ active' = active \ {a}
  /\ UNCHANGED claims

Operations ==
  \/ \E c \in Claims : Operate(c)
  \/ \E u \in Users, c \in Claims : CreateClaim(u, c)
  \/ \E a \in active : Deactivate(a)

-----------------------------------------------------------------------------
(* Pages.                                                                  *)

\* The rows of a table that a query of user u with filter f selects.
MatchingIn(table, u, f) == {c \in Claims : InScope(u, table[c]) /\ MatchesFilter(f, table[c])}

Matching(u, f) == MatchingIn(claims, u, f)

\* The orders ORDER BY createdAt leaves to the database, one chosen per statement.
Orders ==
  {rank \in [Claims -> 1..Cardinality(Claims)] :
     /\ \A c, d \in Claims : c # d => rank[c] # rank[d]
     /\ \A c, d \in Claims : Created[c] < Created[d] => rank[c] < rank[d]}

OldestFirst == Orders

NewestFirst == {[c \in Claims |-> -rank[c]] : rank \in Orders}

\* OFFSET skip LIMIT take
Window(S, order, skip, take) ==
  {c \in S : LET before == Cardinality({d \in S : order[d] < order[c]}) IN
               skip <= before /\ before < skip + take}
=============================================================================
