--------------------------- MODULE ApprovalWorkflow ---------------------------
(***************************************************************************)
(* What the approval of expense claims promises, said without statuses,    *)
(* queues, messages or line items: a claim of some value is presented, is  *)
(* signed by an approver, and is accepted only with the signature of       *)
(* Finance when its value is above the threshold.  From the moment the     *)
(* approver has signed, the value can no longer move until the claim has   *)
(* been returned to its claimant.  ClaimLifecycle implements this          *)
(* specification (ClaimLifecycle!ImplementsWorkflow).                      *)
(***************************************************************************)
EXTENDS Integers

CONSTANTS
  ClaimIds,
  Values,     \* the totals a claim can have
  Threshold

VARIABLES
  stage,      \* where each claim is
  value,      \* the total of each claim
  signed      \* the roles that have signed each claim in its present round

vars == <<stage, value, signed>>

Stages == {"open", "approver", "finance", "accepted", "returned", "withdrawn"}

TypeOK ==
  /\ stage  \in [ClaimIds -> Stages]
  /\ value  \in [ClaimIds -> Values]
  /\ signed \in [ClaimIds -> SUBSET {"APPROVER", "FINANCE"}]

Init ==
  /\ stage  = [c \in ClaimIds |-> "open"]
  /\ value  = [c \in ClaimIds |-> 0]
  /\ signed = [c \in ClaimIds |-> {}]

\* The claimant works on a claim nobody has signed yet, or that was returned.
Amend(c) ==
  /\ stage[c] \in {"open", "returned", "approver"}
  /\ \E v \in Values : value' = [value EXCEPT ![c] = v]
  /\ UNCHANGED <<stage, signed>>

\* The claimant presents the claim; an earlier round's signatures are void.
Present(c) ==
  /\ stage[c] \in {"open", "returned"}
  /\ stage'  = [stage EXCEPT ![c] = "approver"]
  /\ signed' = [signed EXCEPT ![c] = {}]
  /\ UNCHANGED value

\* The approver's signature is final only up to the threshold.
ApproverSigns(c) ==
  /\ stage[c] = "approver"
  /\ stage'  = [stage EXCEPT ![c] = IF value[c] > Threshold THEN "finance" ELSE "accepted"]
  /\ signed' = [signed EXCEPT ![c] = @ \cup {"APPROVER"}]
  /\ UNCHANGED value

\* The signature of Finance is final at either stage.
FinanceSigns(c) ==
  /\ stage[c] \in {"approver", "finance"}
  /\ stage'  = [stage EXCEPT ![c] = "accepted"]
  /\ signed' = [signed EXCEPT ![c] = @ \cup {"FINANCE"}]
  /\ UNCHANGED value

Return(c) ==
  /\ stage[c] \in {"approver", "finance"}
  /\ stage' = [stage EXCEPT ![c] = "returned"]
  /\ UNCHANGED <<value, signed>>

Withdraw(c) ==
  /\ stage[c] \in {"open", "approver"}
  /\ stage' = [stage EXCEPT ![c] = "withdrawn"]
  /\ UNCHANGED <<value, signed>>

Next == \E c \in ClaimIds :
  \/ Amend(c)        \/ Present(c) \/ ApproverSigns(c)
  \/ FinanceSigns(c) \/ Return(c)  \/ Withdraw(c)

Spec == Init /\ [][Next]_vars
=============================================================================
