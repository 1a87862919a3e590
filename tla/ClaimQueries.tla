----------------------------- MODULE ClaimQueries -----------------------------
(***************************************************************************)
(* Which claims a reader gets: the scope of a role, which every list and   *)
(* detail query applies (claimScope.ts), and the filter of a list          *)
(* (claimQueryService.ts).  The filters by date, amount and title are left *)
(* out: a claim enters and leaves them as it does a filter by status.      *)
(***************************************************************************)
EXTENDS ClaimStateMachine

\* Mutant: Finance loses sight of claims that were sent back or withdrawn.
InScopeWithoutReturned(u, claim) ==
  \/ Role[u] = "FINANCE"  /\ claim.status \notin {"ABSENT", "DRAFT", "REJECTED", "CANCELLED"}
  \/ Role[u] = "CLAIMANT" /\ claim.claimant = u
  \/ Role[u] = "APPROVER" /\ claim.assignedApprover = u

\* getClaimScopeFilter() and claimInScope(); an ABSENT claim is no row at all.
InScope(u, claim) ==
  \/ Role[u] = "FINANCE"  /\ claim.status \notin {"ABSENT", "DRAFT"}
  \/ Role[u] = "CLAIMANT" /\ claim.claimant = u
  \/ Role[u] = "APPROVER" /\ claim.assignedApprover = u

\* What a request filters by; {} and None where it does not.
NoFilter == [status |-> {}, claimant |-> None, approver |-> None, decidedBy |-> None]

MatchesFilter(f, claim) ==
  /\ f.status # {}      => claim.status \in f.status
  /\ f.claimant # None  => claim.claimant = f.claimant
  /\ f.approver # None  => claim.assignedApprover = f.approver
  /\ f.decidedBy # None => claim.decidedBy = f.decidedBy
=============================================================================
