---------------------------- MODULE MCReceiptFiles ----------------------------
(***************************************************************************)
(* Two requests at a time, as many of them as there is something to do,    *)
(* on a claim of two items.  Two files suffice for an upload to race a     *)
(* deletion and for one item to take two files with it.                    *)
(***************************************************************************)
EXTENDS ReceiptFiles

CONSTANT claimant

MCUsers == {claimant}

MCRole == [u \in MCUsers |-> "CLAIMANT"]
=============================================================================
