------------------------------- MODULE PartnerFleet -------------------------------
(***************************************************************************)
(* Partners and their fleets, from modules/partner: the dossier and the      *)
(* commission of a partner, its members, the drivers affiliated to it and    *)
(* the vehicles it assigns to them, with the requests of modules/ride that   *)
(* save the same vehicles.                                                   *)
(*                                                                          *)
(* A request checks what it reads, reads the row it saves a second time, and *)
(* flushes the columns where its copy differs from that second reading.      *)
(* Until the flush nothing is locked; from the flush to the commit the row   *)
(* and the index entries are, so that both are one step here.                *)
(***************************************************************************)
EXTENDS Integers, FiniteSets

CONSTANTS
    Sessions, Partners, Drivers, Vehicles, Users,
    Papers,       \* the documents a partner must hold
    MaxRequests,  \* bound: requests one after the other
    MaxTogether,  \* bound: requests, once two of them are open together
    None

ASSUME FleetAssumption ==
    /\ None \notin Partners \cup Drivers
    /\ MaxRequests \in Nat /\ MaxTogether \in 0 .. MaxRequests

VARIABLES
    partner,     \* partner.partners
    member,      \* partner.partner_members
    links,       \* partner.partner_driver_links: the active ones
    assigned,    \* partner.vehicle_assignments: the active ones
    vehicle,     \* ride.vehicles: owner, driver and verification
    pc, op,      \* the step of each session, and its operation
    copy,        \* the row it will save
    seen,        \* its second reading of that row
    joins,       \* a creation of vehicle will affiliate the driver
    overlapped,  \* history: two requests have been open at the same time
    requests

tables == <<partner, member, links, assigned, vehicle>>
local == <<op, copy, seen, joins>>
vars == <<tables, pc, local, overlapped, requests>>

PartnerRow(status, papers, mode, rate) ==
    [status |-> status, papers |-> papers, mode |-> mode, rate |-> rate]
VehicleRow(owner, driver, verified, active) ==
    [owner |-> owner, driver |-> driver, verified |-> verified, active |-> active]
Modes == {"percentage", "fixed"}
Rates == {"share", "amount"}  \* at most 1, above 1
PartnerRows == [status : {"absent", "pending", "active", "suspended", "rejected"},
                papers : SUBSET Papers, mode : Modes, rate : Rates]
VehicleRows == [owner : Partners \cup {None}, driver : Drivers \cup {None},
                verified : BOOLEAN, active : BOOLEAN]
NoPartner == PartnerRow("absent", {}, "percentage", "share")
NoVehicle == VehicleRow(None, None, FALSE, FALSE)
Registered == {x \in VehicleRows : x.owner = None /\ x.driver # None /\ x.active}
Assignment(p, v, d) == [partner |-> p, vehicle |-> v, driver |-> d]

Dossier == {"create", "update", "submit", "approve", "suspend", "reject"}
\* The changes a request may carry; none stands for a field that is not given.
Edits == [plus : SUBSET Papers, minus : SUBSET Papers,
          mode : Modes \cup {"none"}, rate : Rates \cup {"none"}]
NoEdit == [plus |-> {}, minus |-> {}, mode |-> "none", rate |-> "none"]
Requested(act, p, d, v, u, e) ==
    [act |-> act, partner |-> p, driver |-> d, vehicle |-> v, user |-> u, edit |-> e]
NoOp == Requested("none", None, None, None, None, NoEdit)

\* The commission is checked when a rate is given; a document, held as an
\* address, is given or cleared.
RateFits(mode, rate) == mode = "percentage" => rate = "share"
Commissions == {e \in Edits : e.plus \cap e.minus = {}}
Creations == {e \in Commissions : e.minus = {} /\ e.mode # "none" /\ e.rate # "none"
                                    /\ RateFits(e.mode, e.rate)}
Submissions == {e \in Commissions : e.mode = "none" /\ e.rate = "none"}

Ops ==
    {Requested("create", p, None, None, None, e) : p \in Partners, e \in Creations}
    \cup {Requested("update", p, None, None, None, e) : p \in Partners, e \in Commissions}
    \cup {Requested("submit", p, None, None, None, e) : p \in Partners, e \in Submissions}
    \cup {Requested(a, p, None, None, None, NoEdit) :
             a \in {"approve", "suspend", "reject"}, p \in Partners}
    \cup {Requested(a, p, None, None, u, NoEdit) :
             a \in {"join", "leave"}, p \in Partners, u \in Users}
    \cup {Requested(a, p, d, None, None, NoEdit) :
             a \in {"affiliate", "unaffiliate"}, p \in Partners, d \in Drivers}
    \cup {Requested(a, p, d, v, None, NoEdit) :
             a \in {"assign", "supply"}, p \in Partners, d \in Drivers, v \in Vehicles}
    \cup {Requested("unassign", p, None, v, None, NoEdit) : p \in Partners, v \in Vehicles}
    \cup {Requested(a, None, None, v, None, NoEdit) : a \in {"edit", "verify"}, v \in Vehicles}

TypeOK ==
    /\ partner \in [Partners -> PartnerRows]
    /\ member \in [Partners \X Users -> {"none", "active", "ended"}]
    /\ links \subseteq Partners \X Drivers
    /\ assigned \subseteq [partner : Partners, vehicle : Vehicles, driver : Drivers]
    /\ vehicle \in [Vehicles -> VehicleRows]
    /\ pc \in [Sessions -> {"idle", "read", "write"}]
    /\ joins \in [Sessions -> BOOLEAN]
    /\ overlapped \in BOOLEAN /\ requests \in 0 .. MaxRequests
    /\ \A s \in Sessions :
          /\ op[s] \in Ops \cup {NoOp}
          /\ op[s] = NoOp <=> pc[s] = "idle"
          /\ copy[s] \in (IF op[s].act \in Dossier THEN PartnerRows ELSE VehicleRows)
          /\ pc[s] = "write" =>
                seen[s] \in (IF op[s].act \in Dossier THEN PartnerRows ELSE VehicleRows)

\* Any fleet without affiliations: partners of either commission, and vehicles
\* that their drivers have registered, verified or not.
Init ==
    /\ partner \in [Partners -> {NoPartner, PartnerRow("active", Papers, "fixed", "amount")}]
    /\ member = [m \in Partners \X Users |-> "none"]
    /\ links = {} /\ assigned = {}
    /\ vehicle \in [Vehicles -> {NoVehicle} \cup Registered]
    /\ pc = [s \in Sessions |-> "idle"] /\ op = [s \in Sessions |-> NoOp]
    /\ copy = [s \in Sessions |-> NoVehicle] /\ seen = [s \in Sessions |-> NoVehicle]
    /\ joins = [s \in Sessions |-> FALSE]
    /\ overlapped = FALSE /\ requests = 0
-----------------------------------------------------------------------------
(* What a request makes of the rows it reads *)

Exists(p) == partner[p].status # "absent"
IsActive(p) == partner[p].status = "active"
Complete(row) == Papers \subseteq row.papers

Given(new, old) == IF new = "none" THEN old ELSE new
\* update_partner checks the new rate against the mode it will have.
RateAccepted(row, e) == e.rate # "none" => RateFits(Given(e.mode, row.mode), e.rate)
Edited(row, e, status) ==
    PartnerRow(status, (row.papers \ e.minus) \cup e.plus,
               Given(e.mode, row.mode), Given(e.rate, row.rate))
Decided(row, status) == PartnerRow(status, row.papers, row.mode, row.rate)

\* Mutant: the driver of the vehicle stays.
KeepsDriver(row, p, d) == VehicleRow(p, row.driver, row.verified, row.verified /\ row.active)
\* set_vehicle_partner_owner.
Owned(row, p, d) == VehicleRow(p, d, row.verified, row.verified /\ row.active)
\* create_vehicle.
Supplied(o) == VehicleRow(o.partner, o.driver, FALSE, TRUE)

Effect(o) ==
    CASE o.act = "update" -> Edited(partner[o.partner], o.edit, partner[o.partner].status)
      [] o.act \in {"create", "submit"} -> Edited(partner[o.partner], o.edit, "pending")
      [] o.act = "approve" -> Decided(partner[o.partner], "active")
      [] o.act = "suspend" -> Decided(partner[o.partner], "suspended")
      [] o.act = "reject" -> Decided(partner[o.partner], "rejected")
      [] o.act = "assign" -> Owned(vehicle[o.vehicle], o.partner, o.driver)
      [] o.act = "supply" -> Supplied(o)
      [] o.act = "verify" ->
            VehicleRow(vehicle[o.vehicle].owner, vehicle[o.vehicle].driver, TRUE, TRUE)
      [] o.act = "edit" -> vehicle[o.vehicle]  \* its description
      [] OTHER -> NoVehicle

Affiliated(d) == \E p \in Partners : <<p, d>> \in links
Busy(v) == \E a \in assigned : a.vehicle = v

\* The checks a request makes before it writes.
Admitted(o) ==
    CASE o.act = "create" -> ~Exists(o.partner) /\ \A s \in Sessions :
            op[s].act = "create" => op[s].partner # o.partner  \* its id is new
      [] o.act = "update" -> Exists(o.partner) /\ RateAccepted(partner[o.partner], o.edit)
      [] o.act = "approve" -> Exists(o.partner) /\ Complete(partner[o.partner])
      [] o.act = "affiliate" -> IsActive(o.partner) /\ ~Affiliated(o.driver)
      [] o.act = "assign" -> /\ IsActive(o.partner) /\ <<o.partner, o.driver>> \in links
                             /\ ~Busy(o.vehicle) /\ vehicle[o.vehicle] # NoVehicle
      [] o.act = "supply" ->
            IsActive(o.partner) /\ (Affiliated(o.driver) => <<o.partner, o.driver>> \in links)
      [] o.act = "edit" -> vehicle[o.vehicle].active
      [] o.act = "verify" -> vehicle[o.vehicle] # NoVehicle
      [] OTHER -> Exists(o.partner)

\* The requests that save a row they have read.
Saves(o) == o.act \in (Dossier \ {"create"}) \cup {"assign", "edit", "verify"}
Target(o) == IF o.act \in Dossier THEN partner[o.partner] ELSE vehicle[o.vehicle]
-----------------------------------------------------------------------------
(* A request *)

Begin(s, o) ==
    /\ pc[s] = "idle"
    /\ overlapped' = (overlapped \/ \E t \in Sessions \ {s} : pc[t] # "idle")
    /\ requests < IF overlapped' THEN MaxTogether ELSE MaxRequests
    /\ Admitted(o)
    /\ op' = [op EXCEPT ![s] = o]
    /\ copy' = [copy EXCEPT ![s] = Effect(o)]
    /\ seen' = [seen EXCEPT ![s] = IF o.act = "create" THEN NoPartner ELSE NoVehicle]
    /\ joins' = [joins EXCEPT ![s] = o.act = "supply" /\ ~Affiliated(o.driver)]
    /\ pc' = [pc EXCEPT ![s] = IF Saves(o) THEN "read" ELSE "write"]
    /\ requests' = requests + 1
    /\ UNCHANGED tables

Reread(s) ==
    /\ pc[s] = "read"
    /\ seen' = [seen EXCEPT ![s] = Target(op[s])]
    /\ copy' = IF op[s].act = "assign"  \* set_vehicle_partner_owner reads only here
               THEN [copy EXCEPT ![s] = Effect(op[s])] ELSE copy
    /\ pc' = [pc EXCEPT ![s] = "write"]
    /\ UNCHANGED <<tables, op, joins, overlapped, requests>>

Column(mine, read, now) == IF mine # read THEN mine ELSE now
Merged(s) ==
    LET mine == copy[s] read == seen[s] now == Target(op[s]) IN
    IF op[s].act \in Dossier
    THEN PartnerRow(Column(mine.status, read.status, now.status),
                    {x \in Papers : Column(x \in mine.papers, x \in read.papers, x \in now.papers)},
                    Column(mine.mode, read.mode, now.mode),
                    Column(mine.rate, read.rate, now.rate))
    ELSE VehicleRow(Column(mine.owner, read.owner, now.owner),
                    Column(mine.driver, read.driver, now.driver),
                    Column(mine.verified, read.verified, now.verified),
                    Column(mine.active, read.active, now.active))

CommissionCheck(row) == RateFits(row.mode, row.rate)
\* Mutant: no index on the active affiliations.
AnyLink(d) == TRUE
\* ux_partner_driver_links_one_active_driver, ux_vehicle_assignments_one_active_vehicle
LinkIndex(d) == ~Affiliated(d)
AssignmentIndex(v) == ~Busy(v)

\* What the constraints of the database accept, and the updates that find
\* a row.
Possible(s) ==
    LET o == op[s] IN
    CASE o.act \in Dossier -> CommissionCheck(Merged(s))
      [] o.act = "join" -> member[<<o.partner, o.user>>] = "none"
      [] o.act = "leave" -> \E p \in Partners : member[<<p, o.user>>] # "none"
      [] o.act = "affiliate" -> LinkIndex(o.driver)
      [] o.act = "unaffiliate" -> <<o.partner, o.driver>> \in links
      [] o.act = "assign" -> AssignmentIndex(o.vehicle)
      [] o.act = "supply" -> vehicle[o.vehicle] = NoVehicle /\ (joins[s] => LinkIndex(o.driver))
      [] o.act = "unassign" -> Busy(o.vehicle)
      [] OTHER -> TRUE

Close(s) ==
    /\ pc' = [pc EXCEPT ![s] = "idle"] /\ op' = [op EXCEPT ![s] = NoOp]
    /\ copy' = [copy EXCEPT ![s] = NoVehicle] /\ seen' = [seen EXCEPT ![s] = NoVehicle]
    /\ joins' = [joins EXCEPT ![s] = FALSE]
    /\ UNCHANGED <<overlapped, requests>>

\* A membership is found by its own id, whatever the partner of the route.
MemberAfter(o) ==
    CASE o.act = "join" -> {[member EXCEPT ![<<o.partner, o.user>>] = "active"]}
      [] o.act = "leave" -> {[member EXCEPT ![<<p, o.user>>] = "ended"] :
                                p \in {q \in Partners : member[<<q, o.user>>] # "none"}}
      [] OTHER -> {member}

\* The flush and the commit.
Apply(s) ==
    LET o == op[s] IN
    /\ pc[s] = "write" /\ Possible(s)
    /\ partner' = IF o.act \in Dossier THEN [partner EXCEPT ![o.partner] = Merged(s)] ELSE partner
    /\ vehicle' = IF o.act \in {"assign", "supply", "edit", "verify"}
                  THEN [vehicle EXCEPT ![o.vehicle] = Merged(s)] ELSE vehicle
    /\ member' \in MemberAfter(o)
    /\ links' = CASE o.act = "affiliate" \/ joins[s] -> links \cup {<<o.partner, o.driver>>}
                  [] o.act = "unaffiliate" -> links \ {<<o.partner, o.driver>>}
                  [] OTHER -> links
    /\ assigned' = CASE o.act \in {"assign", "supply"} ->
                            assigned \cup {Assignment(o.partner, o.vehicle, o.driver)}
                     [] o.act = "unassign" -> {a \in assigned : a.vehicle # o.vehicle}
                     [] OTHER -> assigned
    /\ Close(s)

\* Refused by the database, or failed before the commit: nothing is kept.
Fail(s) ==
    /\ pc[s] # "idle"
    /\ Close(s)
    /\ UNCHANGED tables

Next == \E s \in Sessions :
    \/ \E o \in Ops : Begin(s, o)
    \/ Reread(s) \/ Apply(s) \/ Fail(s)

Spec == Init /\ [][Next]_vars
-----------------------------------------------------------------------------
(* Properties *)

\* Whatever the overlap of the requests, a driver is affiliated to at most one
\* partner and a vehicle is assigned to at most one driver.
OneActive ==
    /\ \A l, m \in links : l[2] = m[2] => l = m
    /\ \A a, b \in assigned : a.vehicle = b.vehicle => a = b

\* While requests do not overlap, the vehicle of an active assignment belongs
\* to the partner that assigned it and to the driver it was assigned to.
AssignmentOwnsVehicle ==
    ~overlapped => \A a \in assigned :
        vehicle[a.vehicle].owner = a.partner /\ vehicle[a.vehicle].driver = a.driver
=============================================================================
