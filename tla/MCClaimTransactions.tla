-------------------------- MODULE MCClaimTransactions --------------------------
(***************************************************************************)
(* Two requests in flight on two claims of two items.  An approval of two  *)
(* items needs Finance, of one item does not, so one edit decides which.   *)
(* The requests are any two of MCOperations: every operation on claim 1,   *)
(* enough on claim 2 for bulk moves, submissions and decisions to overlap. *)
(***************************************************************************)
EXTENDS ClaimTransactions, TLC

CONSTANTS claimant, approver1, approver2, former, finance, i1, i2

MCUsers == {claimant, approver1, approver2, former, finance}

MCActive == MCUsers \ {former}

MCRole == [u \in MCUsers |->
  IF u = claimant THEN "CLAIMANT" ELSE IF u = finance THEN "FINANCE" ELSE "APPROVER"]

Row(status, approver, decided, signed, its) ==
  [row |-> [status |-> status, claimant |-> claimant, assignedApprover |-> approver,
            decidedBy |-> decided, approverApprovedBy |-> signed, total |-> Cardinality(its),
            createdAt |-> 1],
   items |-> its]

Draft    == Row("DRAFT", None, None, None, {i1})
Pending  == Row("PENDING_APPROVAL", approver1, None, None, {i1})
Pending2 == Row("PENDING_APPROVAL", approver1, None, None, {i1, i2})
Asked2   == Row("INFO_REQUESTED", approver1, None, None, {i1, i2})
Signed2  == Row("PENDING_FINANCE_APPROVAL", approver1, None, approver1, {i1, i2})
Asked    == Row("INFO_REQUESTED", approver1, None, approver1, {i1, i2})
Rejected == Row("REJECTED", approver2, approver2, None, {i1})
Orphan   == Row("REJECTED", former, former, None, {i1})

Later(start) == [start EXCEPT !.row.createdAt = 2]

\* Claim 2 was created after claim 1, or at the same instant.
MCInitRows == 1 :> {Draft, Pending, Pending2, Asked2, Signed2, Asked, Rejected, Orphan}
           @@ 2 :> {Draft, Pending, Later(Pending)}

\* Requests; the fields an operation has no use for are None.
Ask(kind, user, c) ==
  [kind |-> kind, user |-> user, claims |-> {c}, item |-> None, to |-> None, from |-> None]

MCOperations ==
  {Ask(kind, claimant, c) : kind \in {"Submit", "Resubmit"}, c \in {1, 2}}
    \cup {Ask(kind, claimant, 1) : kind \in {"Cancel", "Respond"}}
    \cup {[Ask(kind, claimant, 1) EXCEPT !.item = i2] : kind \in {"AddItem", "DeleteItem"}}
    \cup {Ask(kind, user, 1) : kind \in {"Approve", "Reject", "RequestInfo"},
                               user \in {approver1, finance}}
    \cup {Ask("Approve", approver1, 2)}
    \cup {[Ask("Reassign", finance, c) EXCEPT !.to = approver2] : c \in {1, 2}}
    \cup {[Ask("Reassign", finance, 1) EXCEPT !.to = former]}
    \cup {[Ask("ReassignListed", finance, 1) EXCEPT !.claims = {1, 2}, !.to = approver2],
          [Ask("ReassignQueue", approver1, 1) EXCEPT !.from = approver1, !.to = approver2]}
=============================================================================
