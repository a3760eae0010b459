------------------------------ MODULE MCPartnerFleet ------------------------------
(***************************************************************************)
(* PartnerFleet for TLC: two requests at a time over two partners, two       *)
(* drivers and a vehicle.                                                    *)
(***************************************************************************)
EXTENDS PartnerFleet, TLC

CONSTANTS s1, s2, p1, p2, d1, d2, v1, u1, registration

Symmetry == Permutations(Sessions) \cup Permutations(Partners) \cup Permutations(Drivers)
=============================================================================
