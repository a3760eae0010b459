-------------------------------- MODULE MCMatching --------------------------------
(***************************************************************************)
(* Matching on two rides and two drivers.                                   *)
(***************************************************************************)
EXTENDS Matching, TLC

CONSTANTS d1, d2, r1, r2, s1, s2, t1

MatchingSymmetry == Permutations(Drivers) \cup Permutations(Rides) \cup Permutations(Sessions)
=============================================================================
