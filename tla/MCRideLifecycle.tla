---------------------------- MODULE MCRideLifecycle ----------------------------
(***************************************************************************)
(* RideLifecycle with the requests each run makes.                          *)
(***************************************************************************)
EXTENDS RideLifecycle, TLC

CONSTANTS p1, p2, s1, s2

RideSymmetry == Permutations(Sessions) \cup Permutations(Supplements)
=============================================================================
