------------------------------ MODULE MCCollection ------------------------------
(***************************************************************************)
(* Collection, with the symmetry of its rows.                               *)
(***************************************************************************)
EXTENDS Collection, TLC

RowSymmetry == Permutations(Rows)
=============================================================================
