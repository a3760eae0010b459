------------------------------ MODULE MCDriverDossier ------------------------------
(***************************************************************************)
(* DriverDossier for TLC: two sessions, two vehicles, and for each dossier  *)
(* a document it must hold and, for a vehicle, one it may hold.             *)
(***************************************************************************)
EXTENDS DriverDossier, TLC

CONSTANTS s1, s2, v1, v2, k1, licence, registration, authorization

Symmetry == Permutations(Sessions) \cup Permutations(Vehicles)

MCPapers == [x \in Dossiers |->
    IF x = Profile THEN {licence} ELSE {registration, authorization}]
MCRequired == [x \in Dossiers |->
    IF x = Profile THEN {licence} ELSE {registration}]
=============================================================================
