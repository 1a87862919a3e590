---------------------------- MODULE MCDatabaseSeed ----------------------------
(***************************************************************************)
(* The seed's own users and claims, one claim to be filed and one limit to *)
(* be edited; two containers, started three times.                         *)
(***************************************************************************)
EXTENDS DatabaseSeed

MCUsers == ToSet(SeedUsers)

MCRole == [u \in MCUsers |-> SeedRole(u)]

ASSUME SeedAssumption == SeedFits

MCClaimIds == {s.id : s \in SeedClaims} \cup NewIds

ContainerSymmetry == Permutations(Boots)
=============================================================================
