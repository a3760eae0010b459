------------------------------- MODULE RideStates -------------------------------
(***************************************************************************)
(* What a ride promises: its status follows the graph of                    *)
(* modules/ride/domain/entities.py, and an ended ride stays ended.          *)
(***************************************************************************)
VARIABLE status

Cancelled == {"cancelled_by_passenger", "cancelled_by_driver"}
RideStatus == {"requested", "matched", "driver_en_route", "arrived", "in_progress", "waiting",
               "completed", "no_driver_found"} \cup Cancelled

Allowed ==
    [st \in RideStatus |->
        CASE st = "requested"       -> {"matched", "no_driver_found"} \cup Cancelled
          [] st = "matched"         -> {"driver_en_route"} \cup Cancelled
          [] st = "driver_en_route" -> {"arrived"} \cup Cancelled
          [] st = "arrived"         -> {"in_progress"} \cup Cancelled
          [] st = "in_progress"     -> {"waiting", "completed"} \cup Cancelled
          [] st = "waiting"         -> {"in_progress", "completed"} \cup Cancelled
          [] OTHER                  -> {}]

Init == status = "requested"
Next == \E st \in Allowed[status] : status' = st
Spec == Init /\ [][Next]_status
=============================================================================
