--------------------------- MODULE MCClientSessions ---------------------------
(***************************************************************************)
(* Two tabs of one browser and two users, of whichever role.  The second   *)
(* tab is there to sign in and out, so it signs in less often and fetches  *)
(* nothing.                                                                *)
(***************************************************************************)
EXTENDS ClientSessions, TLC

CONSTANTS tab1, tab2, slot1, slot2, user1, user2

MCUsers == {user1, user2}

MCRole == [u \in MCUsers |-> "CLAIMANT"]

MCMaxSignIns == (tab1 :> 2) @@ (tab2 :> 1)

Symmetry == Permutations(Slots) \cup Permutations(Users)
=============================================================================
