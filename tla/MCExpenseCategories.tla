-------------------------- MODULE MCExpenseCategories --------------------------
(***************************************************************************)
(* Two requests at a time on a category that predates limits and one that  *)
(* can be created; two spellings of one name; one claim with one item      *)
(* that is edited, submitted and decided.                                  *)
(***************************************************************************)
EXTENDS ExpenseCategories, TLC

CONSTANTS claimant, k1, k2

MCUsers  == {claimant}
MCRole   == [u \in MCUsers |-> "CLAIMANT"]
MCNames  == {"travel", "Travel", "meals"}
MCFold   == [n \in MCNames |-> IF n = "Travel" THEN "travel" ELSE n]
MCLegacy == [c \in {k1} |-> "meals"]

Interchangeable == Permutations(Requests)
=============================================================================
