------------------------------ MODULE MCOneTimeCodes ------------------------------
(***************************************************************************)
(* OneTimeCodes for TLC: two requests at a time over two codes and two       *)
(* quotes, and one return link.                                              *)
(***************************************************************************)
EXTENDS OneTimeCodes, TLC

CONSTANTS s1, s2, q1, q2

Symmetry == Permutations(Sessions) \cup Permutations(Quotes)
=============================================================================
