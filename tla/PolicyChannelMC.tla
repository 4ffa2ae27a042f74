--------------------------- MODULE PolicyChannelMC ---------------------------
(***************************************************************************)
(* Instances of PolicyChannel for TLC: one principal, one capability and   *)
(* one or two grants of that one pair, so that a grant can be revoked and  *)
(* granted again.                                                          *)
(***************************************************************************)
EXTENDS PolicyChannel, TLC

CONSTANTS p1, c1

MCPrincipalOf  == [g \in Grants |-> p1]
MCCapabilityOf == [g \in Grants |-> c1]

(* Grants of one pair, and writers, are interchangeable (safety runs only).*)
MCSymmetry == Permutations(Grants) \cup Permutations(Writers)

(* An empty database; one whose first version was lost to a rollback, so   *)
(* that a node that asks since=0 is answered with a reset.                 *)
MCFresh == {}
MCHoled == {[ver |-> 2, key |-> p1, row |-> "on"], [ver |-> 3, key |-> c1, row |-> "on"]}
=============================================================================
