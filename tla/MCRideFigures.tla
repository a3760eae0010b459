----------------------------- MODULE MCRideFigures -----------------------------
(* Two quotes and two rides of one passenger over a day and the start of the
   next: a quote of a rule with a surge above the cap, whose amounts round as
   far apart as they can, and a quote without base fare under a surge below 1. *)
EXTENDS RideFigures, TLC

MCEstimates ==
    {<<[base |-> 300, perKm |-> 219, perMin |-> 39, surge |-> 9], 26, 5, 11>>,
     <<[base |-> 0, perKm |-> 401, perMin |-> 20, surge |-> 3], 23, 7, 12>>}

\* The whole of the first way, and a part of the second.
MCDriven == {<<5, 11>>}

\* A wait of 61 seconds.
MCExtras == {WaitFee(61)}

\* The figures of the first day: those of the last do not become final.
MCFigures == {0} \X Metrics

Alike == Permutations(Quotes) \cup Permutations(Rides)
=============================================================================
