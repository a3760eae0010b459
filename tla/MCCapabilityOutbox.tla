---------------------------- MODULE MCCapabilityOutbox ----------------------------
(***************************************************************************)
(* CapabilityOutbox for TLC: the loop of one process, a request, a driver.  *)
(***************************************************************************)
EXTENDS CapabilityOutbox, TLC

CONSTANTS u1, r1, w1
=============================================================================
