---------------------------- MODULE PartnerFleetProofs ----------------------------
(***************************************************************************)
(* Proofs about PartnerFleet, for any partners, drivers, vehicles, users and *)
(* requests: the types; the two indexes leave a driver one affiliation and a *)
(* vehicle one assignment, also where a request creates the vehicle; and     *)
(* requests that do not overlap keep assignments and vehicles together.      *)
(***************************************************************************)
EXTENDS PartnerFleet, TLAPS

OnVehicles == {"assign", "supply", "edit", "verify"}

\* A row that exists has a driver, and a vehicle in use exists.
VehicleInv ==
    /\ vehicle = [v \in Vehicles |-> vehicle[v]]
    /\ \A v \in Vehicles : vehicle[v].driver = None => vehicle[v] = NoVehicle
    /\ \A a \in assigned : a.vehicle \in Vehicles /\ vehicle[a.vehicle].driver # None

\* Who saves a vehicle leaves it a driver.
CopyInv == \A s \in Sessions :
    /\ op[s].act \in OnVehicles => copy[s].driver # None
    /\ op[s].act \in {"assign", "edit", "verify"} => vehicle[op[s].vehicle].driver # None
    /\ op[s].act = "supply" => seen[s].driver = None
    /\ pc[s] = "read" => Saves(op[s])

LinkInv ==
    /\ links \subseteq Partners \X Drivers
    /\ \A s \in Sessions : joins[s] => op[s].act = "supply"

Sessioned ==
    /\ op \in [Sessions -> Ops \cup {NoOp}]
    /\ copy = [s \in Sessions |-> copy[s]] /\ seen = [s \in Sessions |-> seen[s]]
    /\ joins = [s \in Sessions |-> joins[s]] /\ pc = [s \in Sessions |-> pc[s]]

IInv == Sessioned /\ VehicleInv /\ CopyInv /\ LinkInv /\ OneActive

----------------------------------------------------------------------------
LEMMA OpTypes ==
  ASSUME NEW o \in Ops
  PROVE  /\ o.act \in {"affiliate", "unaffiliate", "assign", "supply"} =>
               o.partner \in Partners /\ o.driver \in Drivers
         /\ o.act \in OnVehicles => o.vehicle \in Vehicles
BY DEF Ops, Requested, OnVehicles

LEMMA NoOpTypes ==
  /\ NoOp.act = "none"
BY DEF NoOp, Requested

LEMMA NoVehicleParts ==
  NoVehicle.driver = None /\ NoVehicle.active = FALSE /\ NoPartner.status = "absent"
BY DEF NoVehicle, VehicleRow, NoPartner, PartnerRow

\* What the operation of a session names.
LEMMA Named ==
  ASSUME Sessioned, NEW s \in Sessions
  PROVE  /\ op[s].act \in {"affiliate", "unaffiliate", "assign", "supply"} =>
               op[s].partner \in Partners /\ op[s].driver \in Drivers
         /\ op[s].act \in OnVehicles => op[s].vehicle \in Vehicles
BY OpTypes, NoOpTypes DEF Sessioned, OnVehicles

LEMMA InitInv == Init => IInv
<1> SUFFICES ASSUME Init PROVE IInv
  OBVIOUS
<1>1. Sessioned
  BY DEF Init, Sessioned
<1>2. VehicleInv
  <2>1. vehicle = [v \in Vehicles |-> vehicle[v]] /\ assigned = {}
    BY DEF Init
  <2>2. \A v \in Vehicles : vehicle[v] = NoVehicle \/ vehicle[v].driver # None
    BY DEF Init, Registered
  <2> QED BY <2>1, <2>2 DEF VehicleInv
<1>3. CopyInv
  BY NoOpTypes DEF Init, CopyInv, OnVehicles
<1>4. LinkInv /\ OneActive
  BY DEF Init, LinkInv, OneActive
<1> QED BY <1>1, <1>2, <1>3, <1>4 DEF IInv

\* What a step of one session leaves alone for the others.
Aside(s) == \A u \in Sessions \ {s} :
    op'[u] = op[u] /\ copy'[u] = copy[u] /\ seen'[u] = seen[u] /\ joins'[u] = joins[u]
    /\ pc'[u] = pc[u]

\* The requests that save a vehicle are not disturbed while no vehicle loses
\* its driver.
LEMMA CopyKept ==
  ASSUME IInv, NEW s \in Sessions, Aside(s),
         \A v \in Vehicles : vehicle[v].driver # None => vehicle'[v].driver # None,
         /\ op'[s].act \in OnVehicles => copy'[s].driver # None
         /\ op'[s].act \in {"assign", "edit", "verify"} => vehicle'[op'[s].vehicle].driver # None
         /\ op'[s].act = "supply" => seen'[s].driver = None
         /\ pc'[s] = "read" => Saves(op'[s]),
         joins'[s] => op'[s].act = "supply",
         links' \subseteq Partners \X Drivers
  PROVE  CopyInv' /\ LinkInv'
<1>1. ASSUME NEW u \in Sessions \ {s}
      PROVE  /\ op'[u].act \in OnVehicles => copy'[u].driver # None
             /\ op'[u].act \in {"assign", "edit", "verify"} => vehicle'[op'[u].vehicle].driver # None
             /\ op'[u].act = "supply" => seen'[u].driver = None
             /\ pc'[u] = "read" => Saves(op'[u])
             /\ joins'[u] => op'[u].act = "supply"
  BY Named DEF IInv, Aside, CopyInv, LinkInv, OnVehicles, Saves
<1>2. \A u \in Sessions : pc'[u] = "read" => Saves(op'[u])
  BY <1>1
<1> QED BY <1>1 DEF CopyInv, LinkInv, Saves

\* What a request brings to the vehicle it names has a driver.
LEMMA EffectHasDriver ==
  ASSUME IInv, NEW o \in Ops, o.act \in OnVehicles,
         o.act = "edit" => vehicle[o.vehicle].active,
         o.act \in {"assign", "verify"} => vehicle[o.vehicle] # NoVehicle
  PROVE  /\ Effect(o).driver # None
         /\ o.act # "supply" => vehicle[o.vehicle].driver # None
<1>1. o.vehicle \in Vehicles /\ (o.act \in {"assign", "supply"} => o.driver \in Drivers)
  BY OpTypes
<1>2. o.act # "supply" => vehicle[o.vehicle] # NoVehicle
  BY NoVehicleParts DEF OnVehicles
<1>3. o.act # "supply" => vehicle[o.vehicle].driver # None
  BY <1>1, <1>2 DEF IInv, VehicleInv
<1>4. CASE o.act = "assign"
  <2>1. Effect(o) = Owned(vehicle[o.vehicle], o.partner, o.driver)
    BY <1>4 DEF Effect
  <2> QED BY <1>1, <1>3, <1>4, <2>1, FleetAssumption DEF Owned, VehicleRow
<1>5. CASE o.act = "supply"
  <2>1. Effect(o) = Supplied(o)
    BY <1>5 DEF Effect
  <2> QED BY <1>1, <1>5, <2>1, FleetAssumption DEF Supplied, VehicleRow
<1>6. CASE o.act = "verify"
  <2>1. Effect(o) = VehicleRow(vehicle[o.vehicle].owner, vehicle[o.vehicle].driver, TRUE, TRUE)
    BY <1>6 DEF Effect
  <2> QED BY <1>3, <1>6, <2>1 DEF VehicleRow
<1>7. CASE o.act = "edit"
  <2>1. Effect(o) = vehicle[o.vehicle]
    BY <1>7 DEF Effect
  <2> QED BY <1>3, <1>7, <2>1
<1> QED BY <1>4, <1>5, <1>6, <1>7 DEF OnVehicles

\* ... and so has what is saved.
LEMMA MergedHasDriver ==
  ASSUME IInv, NEW s \in Sessions, op[s].act \in OnVehicles
  PROVE  Merged(s).driver # None
<1> DEFINE mine == copy[s]
           read == seen[s]
           now == vehicle[op[s].vehicle]
<1>1. Merged(s) = VehicleRow(Column(mine.owner, read.owner, now.owner),
                             Column(mine.driver, read.driver, now.driver),
                             Column(mine.verified, read.verified, now.verified),
                             Column(mine.active, read.active, now.active))
  BY DEF Merged, Target, OnVehicles, Dossier
<1>2. mine.driver # None /\ (op[s].act = "supply" => read.driver = None)
      /\ (op[s].act # "supply" => now.driver # None)
  BY DEF IInv, CopyInv, OnVehicles
<1>3. Column(mine.driver, read.driver, now.driver) # None
  BY <1>2 DEF Column
<1> HIDE DEF mine, read, now
<1> QED BY <1>1, <1>3 DEF VehicleRow

----------------------------------------------------------------------------
(* The steps. *)

LEMMA BeginStep ==
  ASSUME IInv, NEW s \in Sessions, NEW o \in Ops, Begin(s, o)
  PROVE  IInv'
<1> DEFINE new == IF o.act = "create" THEN NoPartner ELSE NoVehicle
           j == o.act = "supply" /\ ~Affiliated(o.driver)
           step == IF Saves(o) THEN "read" ELSE "write"
<1>1. /\ op' = [op EXCEPT ![s] = o] /\ copy' = [copy EXCEPT ![s] = Effect(o)]
      /\ seen' = [seen EXCEPT ![s] = new] /\ joins' = [joins EXCEPT ![s] = j]
      /\ pc' = [pc EXCEPT ![s] = step] /\ Admitted(o) /\ UNCHANGED tables
  BY DEF Begin
<1>2. /\ o.act = "edit" => vehicle[o.vehicle].active
      /\ o.act \in {"assign", "verify"} => vehicle[o.vehicle] # NoVehicle
  BY <1>1 DEF Admitted
<1>3. /\ o.act = "supply" => new.driver = None
      /\ step = "read" => Saves(o)
      /\ j => o.act = "supply"
  BY NoVehicleParts
<1> HIDE DEF new, j, step
<1>4. Aside(s) /\ Sessioned' /\ op'[s] = o /\ copy'[s] = Effect(o) /\ seen'[s] = new
      /\ joins'[s] = j /\ pc'[s] = step
  BY <1>1 DEF Aside, IInv, Sessioned
<1>5. o.act \in OnVehicles => Effect(o).driver # None
                              /\ (o.act # "supply" => vehicle[o.vehicle].driver # None)
  BY <1>2, EffectHasDriver
<1>6. UNCHANGED <<links, assigned, vehicle>>
  BY <1>1 DEF tables
<1>7. CopyInv' /\ LinkInv'
  BY <1>3, <1>4, <1>5, <1>6, CopyKept DEF IInv, LinkInv, OnVehicles
<1>8. VehicleInv' /\ OneActive'
  BY <1>6 DEF IInv, VehicleInv, OneActive
<1> QED BY <1>4, <1>7, <1>8 DEF IInv

LEMMA RereadStep ==
  ASSUME IInv, NEW s \in Sessions, Reread(s)
  PROVE  IInv'
<1> DEFINE mine == IF op[s].act = "assign" THEN Effect(op[s]) ELSE copy[s]
<1>1. /\ UNCHANGED <<tables, op, joins>> /\ pc[s] = "read" /\ pc' = [pc EXCEPT ![s] = "write"]
      /\ seen' = [seen EXCEPT ![s] = Target(op[s])]
      /\ copy' = [copy EXCEPT ![s] = mine]
  <2>1. copy = [copy EXCEPT ![s] = copy[s]]
    BY DEF IInv, Sessioned
  <2> QED BY <2>1 DEF Reread
<1>2. op[s].act # "supply"
  BY <1>1 DEF IInv, CopyInv, Saves, Dossier
<1>3. op[s].act \in OnVehicles => mine.driver # None
  <2>1. CASE op[s].act = "assign"
    <3>1. op[s] \in Ops /\ op[s].vehicle \in Vehicles
      BY <2>1, Named, NoOpTypes DEF IInv, Sessioned, OnVehicles
    <3>2. vehicle[op[s].vehicle] # NoVehicle
      BY <2>1, NoVehicleParts DEF IInv, CopyInv
    <3> QED BY <2>1, <3>1, <3>2, EffectHasDriver DEF OnVehicles
  <2>2. CASE op[s].act # "assign"
    BY <2>2 DEF IInv, CopyInv
  <2> QED BY <2>1, <2>2
<1> HIDE DEF mine
<1>4. Aside(s) /\ Sessioned' /\ copy'[s] = mine /\ pc'[s] = "write"
  BY <1>1 DEF Aside, IInv, Sessioned
<1>5. UNCHANGED <<links, assigned, vehicle>>
  BY <1>1 DEF tables
<1>6. CopyInv' /\ LinkInv'
  BY <1>1, <1>2, <1>3, <1>4, <1>5, CopyKept DEF IInv, LinkInv, CopyInv
<1>7. VehicleInv' /\ OneActive'
  BY <1>5 DEF IInv, VehicleInv, OneActive
<1> QED BY <1>4, <1>6, <1>7 DEF IInv

\* The end of a request.
LEMMA CloseStep ==
  ASSUME IInv, NEW s \in Sessions, Close(s),
         \A v \in Vehicles : vehicle[v].driver # None => vehicle'[v].driver # None,
         links' \subseteq Partners \X Drivers
  PROVE  Sessioned' /\ CopyInv' /\ LinkInv'
<1>1. Aside(s) /\ Sessioned' /\ op'[s] = NoOp /\ joins'[s] = FALSE /\ pc'[s] = "idle"
  BY DEF Close, Aside, IInv, Sessioned
<1> QED BY <1>1, NoOpTypes, CopyKept DEF OnVehicles

\* The vehicles and the assignments of a request that is saved.
LEMMA ApplyVehicles ==
  ASSUME IInv, NEW s \in Sessions, Apply(s)
  PROVE  /\ VehicleInv'
         /\ \A v \in Vehicles : vehicle[v].driver # None => vehicle'[v].driver # None
         /\ \A a, b \in assigned' : a.vehicle = b.vehicle => a = b
<1> DEFINE o == op[s]
           v == o.vehicle
           new == Assignment(o.partner, v, o.driver)
<1>1. o.act \in OnVehicles => v \in Vehicles /\ Merged(s).driver # None
  BY Named, MergedHasDriver DEF IInv
<1>2. vehicle' = IF o.act \in OnVehicles THEN [vehicle EXCEPT ![v] = Merged(s)] ELSE vehicle
  BY DEF Apply, OnVehicles
<1>3. \/ o.act \in {"assign", "supply"} /\ assigned' = assigned \cup {new}
      \/ o.act \notin {"assign", "supply"} /\ assigned' \subseteq assigned
  BY DEF Apply
<1>4. o.act \in {"assign", "supply"} => v \in Vehicles /\ \A a \in assigned : a.vehicle # v
  <2>1. o.act = "assign" => ~Busy(v)
    BY DEF Apply, Possible, AssignmentIndex, Dossier
  <2>2. o.act = "supply" => vehicle[v] = NoVehicle
    BY DEF Apply, Possible, Dossier
  <2> QED BY <1>1, <2>1, <2>2, NoVehicleParts DEF Busy, IInv, VehicleInv, OnVehicles
<1>5. new.vehicle = v
  BY DEF Assignment
<1> HIDE DEF o, v, new
<1>6. /\ vehicle' = [u \in Vehicles |-> vehicle'[u]]
      /\ \A u \in Vehicles : vehicle'[u] = vehicle[u] \/ vehicle'[u].driver # None
  <2>1. vehicle = [u \in Vehicles |-> vehicle[u]]
    BY DEF IInv, VehicleInv
  <2> QED BY <1>1, <1>2, <2>1
<1>7. o.act \in {"assign", "supply"} => vehicle'[v].driver # None
  <2>1. vehicle = [u \in Vehicles |-> vehicle[u]]
    BY DEF IInv, VehicleInv
  <2> QED BY <1>1, <1>2, <2>1 DEF OnVehicles
<1>8. VehicleInv'
  BY <1>3, <1>4, <1>5, <1>6, <1>7 DEF IInv, VehicleInv
<1>9. \A a, b \in assigned' : a.vehicle = b.vehicle => a = b
  BY <1>3, <1>4, <1>5 DEF IInv, OneActive
<1> QED BY <1>6, <1>8, <1>9

\* The affiliations of a request that is saved.
LEMMA ApplyLinks ==
  ASSUME IInv, NEW s \in Sessions, Apply(s)
  PROVE  links' \subseteq Partners \X Drivers /\ \A l, m \in links' : l[2] = m[2] => l = m
<1> DEFINE o == op[s]
           new == <<o.partner, o.driver>>
<1>1. CASE o.act = "affiliate" \/ joins[s]
  <2>1. o.partner \in Partners /\ o.driver \in Drivers /\ ~Affiliated(o.driver)
    BY <1>1, Named DEF IInv, LinkInv, Apply, Possible, LinkIndex, Dossier
  <2>2. links' = links \cup {new}
    BY <1>1 DEF Apply, IInv, LinkInv
  <2>3. \A l \in links : l[2] # o.driver
    <3>1. TAKE l \in links
    <3>2. l = <<l[1], l[2]>> /\ l[1] \in Partners
      BY DEF IInv, LinkInv
    <3> QED BY <2>1, <3>2 DEF Affiliated
  <2>4. new \in Partners \X Drivers /\ new[2] = o.driver
    BY <2>1
  <2> HIDE DEF new, o
  <2> QED BY <2>2, <2>3, <2>4 DEF IInv, LinkInv, OneActive
<1>2. CASE ~(o.act = "affiliate" \/ joins[s])
  <2>1. links' \subseteq links
    BY <1>2 DEF Apply
  <2> QED BY <2>1 DEF IInv, LinkInv, OneActive
<1> QED BY <1>1, <1>2

LEMMA InvStep == IInv /\ [Next]_vars => IInv'
<1> SUFFICES ASSUME IInv, [Next]_vars PROVE IInv'
  OBVIOUS
<1>1. ASSUME NEW s \in Sessions, Apply(s) PROVE IInv'
  <2>1. Close(s)
    BY <1>1 DEF Apply
  <2> QED BY <1>1, <2>1, ApplyVehicles, ApplyLinks, CloseStep DEF IInv, OneActive
<1>2. ASSUME NEW s \in Sessions, Fail(s) PROVE IInv'
  <2>1. Close(s) /\ UNCHANGED <<links, assigned, vehicle>>
    BY <1>2 DEF Fail, tables
  <2>2. Sessioned' /\ CopyInv' /\ LinkInv'
    BY <2>1, CloseStep DEF IInv, LinkInv
  <2> QED BY <2>1, <2>2 DEF IInv, VehicleInv, OneActive
<1>3. CASE UNCHANGED vars
  <2>1. UNCHANGED <<links, assigned, vehicle, op, copy, seen, joins, pc>>
    BY <1>3 DEF vars, tables, local
  <2> QED BY <2>1 DEF IInv, Sessioned, VehicleInv, CopyInv, LinkInv, OneActive, Saves
<1> QED BY <1>1, <1>2, <1>3, BeginStep, RereadStep DEF Next

LEMMA Inv == Spec => []IInv
BY InitInv, InvStep, PTL DEF Spec

----------------------------------------------------------------------------
(* Requests that do not overlap. *)

\* What a session saves of the owner and the driver, when it is the only one
\* at work.
Prepared(s) ==
    LET o == op[s] mine == copy[s] IN
    /\ pc[s] # "idle" /\ o.act \in {"edit", "verify"} =>
          mine.owner = vehicle[o.vehicle].owner /\ mine.driver = vehicle[o.vehicle].driver
    /\ pc[s] = "write" /\ o.act \in {"assign", "edit", "verify"} => seen[s] = vehicle[o.vehicle]
    /\ pc[s] # "idle" /\ o.act \in {"assign", "supply"} =>
          mine.owner = o.partner /\ mine.driver = o.driver
    /\ pc[s] # "idle" /\ o.act = "supply" => seen[s] = NoVehicle

Alone == ~overlapped =>
    /\ \A s, t \in Sessions : pc[s] # "idle" /\ pc[t] # "idle" => s = t
    /\ \A s \in Sessions : Prepared(s)
    /\ AssignmentOwnsVehicle

\* What a request makes of the owner and the driver of its vehicle.
LEMMA EffectParts ==
  ASSUME NEW o
  PROVE  /\ o.act \in {"edit", "verify"} =>
               Effect(o).owner = vehicle[o.vehicle].owner /\ Effect(o).driver = vehicle[o.vehicle].driver
         /\ o.act \in {"assign", "supply"} =>
               Effect(o).owner = o.partner /\ Effect(o).driver = o.driver
<1>1. o.act = "edit" => Effect(o) = vehicle[o.vehicle]
  BY DEF Effect
<1>2. ASSUME o.act = "verify"
      PROVE  Effect(o).owner = vehicle[o.vehicle].owner /\ Effect(o).driver = vehicle[o.vehicle].driver
  BY <1>2 DEF Effect, VehicleRow
<1>3. ASSUME o.act = "assign" PROVE Effect(o).owner = o.partner /\ Effect(o).driver = o.driver
  BY <1>3 DEF Effect, Owned, VehicleRow
<1>4. ASSUME o.act = "supply" PROVE Effect(o).owner = o.partner /\ Effect(o).driver = o.driver
  BY <1>4 DEF Effect, Supplied, VehicleRow
<1> QED BY <1>1, <1>2, <1>3, <1>4

LEMMA AloneBegin ==
  ASSUME IInv, Alone, NEW s \in Sessions, NEW o \in Ops, Begin(s, o), ~overlapped'
  PROVE  Alone'
<1> DEFINE new == IF o.act = "create" THEN NoPartner ELSE NoVehicle
           step == IF Saves(o) THEN "read" ELSE "write"
<1>1. /\ op' = [op EXCEPT ![s] = o] /\ copy' = [copy EXCEPT ![s] = Effect(o)]
      /\ seen' = [seen EXCEPT ![s] = new] /\ pc' = [pc EXCEPT ![s] = step] /\ UNCHANGED tables
      /\ ~overlapped /\ \A t \in Sessions \ {s} : pc[t] = "idle"
  BY DEF Begin
<1>2. o.act = "supply" => new = NoVehicle
  OBVIOUS
<1>3. step = "write" => o.act \notin {"assign", "edit", "verify"}
  BY DEF Saves
<1>4. step # "idle"
  OBVIOUS
<1> HIDE DEF new, step
<1>5. op'[s] = o /\ copy'[s] = Effect(o) /\ seen'[s] = new /\ pc'[s] = step
      /\ \A t \in Sessions \ {s} : pc'[t] = "idle"
  BY <1>1 DEF IInv, Sessioned
<1>6. UNCHANGED <<vehicle, assigned>>
  BY <1>1 DEF tables
<1>7. Prepared(s)'
  BY <1>2, <1>3, <1>5, <1>6, EffectParts DEF Prepared
<1>8. \A t \in Sessions \ {s} : Prepared(t)'
  BY <1>5 DEF Prepared
<1>9. AssignmentOwnsVehicle'
  BY <1>1, <1>6 DEF Alone, AssignmentOwnsVehicle
<1> QED BY <1>5, <1>7, <1>8, <1>9 DEF Alone

LEMMA AloneReread ==
  ASSUME IInv, Alone, NEW s \in Sessions, Reread(s), ~overlapped'
  PROVE  Alone'
<1> DEFINE o == op[s]
           mine == IF o.act = "assign" THEN Effect(o) ELSE copy[s]
<1>1. /\ UNCHANGED <<tables, op, overlapped>> /\ pc[s] = "read" /\ pc' = [pc EXCEPT ![s] = "write"]
      /\ seen' = [seen EXCEPT ![s] = Target(o)] /\ copy' = [copy EXCEPT ![s] = mine]
  <2>1. copy = [copy EXCEPT ![s] = copy[s]]
    BY DEF IInv, Sessioned
  <2> QED BY <2>1 DEF Reread
<1>2. o.act # "supply" /\ ~overlapped /\ \A t \in Sessions \ {s} : pc[t] = "idle"
  BY <1>1 DEF IInv, CopyInv, Saves, Dossier, Alone
<1>3. o.act \in {"assign", "edit", "verify"} => Target(o) = vehicle[o.vehicle]
  BY DEF Target, Dossier
<1>4. /\ o.act = "assign" => mine.owner = o.partner /\ mine.driver = o.driver
      /\ o.act \in {"edit", "verify"} => mine = copy[s]
  BY EffectParts
<1>5. Prepared(s)
  BY <1>2 DEF Alone
<1> HIDE DEF mine
<1>6. copy'[s] = mine /\ seen'[s] = Target(o) /\ pc'[s] = "write" /\ op'[s] = o
      /\ \A t \in Sessions \ {s} : pc'[t] = "idle"
  BY <1>1, <1>2 DEF IInv, Sessioned
<1>7. UNCHANGED <<vehicle, assigned>>
  BY <1>1 DEF tables
<1> HIDE DEF o
<1>8. Prepared(s)'
  BY <1>1, <1>2, <1>3, <1>4, <1>5, <1>6, <1>7 DEF Prepared, o
<1>9. \A t \in Sessions \ {s} : Prepared(t)'
  BY <1>6 DEF Prepared
<1>10. AssignmentOwnsVehicle'
  BY <1>2, <1>7 DEF Alone, AssignmentOwnsVehicle
<1> QED BY <1>6, <1>8, <1>9, <1>10 DEF Alone

\* The row is saved as it was prepared.
LEMMA MergedParts ==
  ASSUME NEW s \in Sessions, Prepared(s), Apply(s)
  PROVE  /\ op[s].act \in {"edit", "verify"} =>
               /\ Merged(s).owner = vehicle[op[s].vehicle].owner
               /\ Merged(s).driver = vehicle[op[s].vehicle].driver
         /\ op[s].act \in {"assign", "supply"} =>
               Merged(s).owner = op[s].partner /\ Merged(s).driver = op[s].driver
<1> DEFINE mine == copy[s]
           read == seen[s]
           now == vehicle[op[s].vehicle]
<1>1. op[s].act \in OnVehicles =>
        Merged(s) = VehicleRow(Column(mine.owner, read.owner, now.owner),
                               Column(mine.driver, read.driver, now.driver),
                               Column(mine.verified, read.verified, now.verified),
                               Column(mine.active, read.active, now.active))
  BY DEF Merged, Target, OnVehicles, Dossier
<1>2. op[s].act \in OnVehicles => read = now
  <2>1. op[s].act = "supply" => now = NoVehicle
    BY DEF Apply, Possible, Dossier
  <2> QED BY <2>1 DEF Prepared, Apply, OnVehicles
<1>3. /\ op[s].act \in {"edit", "verify"} => mine.owner = now.owner /\ mine.driver = now.driver
      /\ op[s].act \in {"assign", "supply"} =>
            mine.owner = op[s].partner /\ mine.driver = op[s].driver
  BY DEF Prepared, Apply
<1> HIDE DEF mine, read, now
<1>4. op[s].act \in OnVehicles => Merged(s).owner = mine.owner /\ Merged(s).driver = mine.driver
  BY <1>1, <1>2 DEF Column, VehicleRow
<1> QED BY <1>3, <1>4 DEF OnVehicles, now

LEMMA AloneApply ==
  ASSUME IInv, Alone, NEW s \in Sessions, Apply(s), ~overlapped'
  PROVE  Alone'
<1> DEFINE o == op[s]
           v == o.vehicle
           new == Assignment(o.partner, v, o.driver)
<1>1. Close(s) /\ UNCHANGED overlapped /\ pc[s] = "write"
  BY DEF Apply, Close
<1>2. \A t \in Sessions : pc'[t] = "idle"
  BY <1>1 DEF Close, Alone, IInv, Sessioned
<1>3. Prepared(s) /\ AssignmentOwnsVehicle /\ ~overlapped
  BY <1>1 DEF Alone
<1>4. /\ o.act \in {"edit", "verify"} =>
            Merged(s).owner = vehicle[v].owner /\ Merged(s).driver = vehicle[v].driver
      /\ o.act \in {"assign", "supply"} =>
            Merged(s).owner = o.partner /\ Merged(s).driver = o.driver
  BY <1>3, MergedParts
<1>5. vehicle' = IF o.act \in OnVehicles THEN [vehicle EXCEPT ![v] = Merged(s)] ELSE vehicle
  BY DEF Apply, OnVehicles
<1>6. o.act \in OnVehicles => v \in Vehicles
  BY Named DEF IInv
<1>7. \/ o.act \in {"assign", "supply"} /\ assigned' = assigned \cup {new}
      \/ o.act \notin {"assign", "supply"} /\ assigned' \subseteq assigned
  BY DEF Apply
<1>8. o.act \in {"assign", "supply"} => \A a \in assigned : a.vehicle # v
  <2>1. o.act = "assign" => ~Busy(v)
    BY DEF Apply, Possible, AssignmentIndex, Dossier
  <2>2. o.act = "supply" => vehicle[v] = NoVehicle
    BY DEF Apply, Possible, Dossier
  <2> QED BY <2>1, <2>2, NoVehicleParts DEF Busy, IInv, VehicleInv
<1>9. new.vehicle = v /\ new.partner = o.partner /\ new.driver = o.driver
  BY DEF Assignment
<1>10. \A a \in assigned : a.vehicle \in Vehicles
  BY DEF IInv, VehicleInv
<1> HIDE DEF o, v, new
<1>11. /\ \A u \in Vehicles : u # v \/ o.act \notin OnVehicles => vehicle'[u] = vehicle[u]
       /\ o.act \in OnVehicles => vehicle'[v] = Merged(s)
  <2>1. vehicle = [u \in Vehicles |-> vehicle[u]]
    BY DEF IInv, VehicleInv
  <2> QED BY <1>5, <1>6, <2>1
<1>12. \A a \in assigned : vehicle[a.vehicle].owner = a.partner /\ vehicle[a.vehicle].driver = a.driver
  BY <1>3 DEF AssignmentOwnsVehicle
<1>13. ASSUME NEW a \in assigned'
       PROVE  vehicle'[a.vehicle].owner = a.partner /\ vehicle'[a.vehicle].driver = a.driver
  <2>1. CASE a = new /\ o.act \in {"assign", "supply"}
    BY <1>4, <1>9, <1>11, <2>1 DEF OnVehicles
  <2>2. CASE a \in assigned /\ (a.vehicle # v \/ o.act \notin OnVehicles)
    BY <1>10, <1>11, <1>12, <2>2
  <2>3. CASE a \in assigned /\ a.vehicle = v /\ o.act \in {"edit", "verify"}
    BY <1>4, <1>11, <1>12, <2>3 DEF OnVehicles
  <2> QED BY <1>7, <1>8, <1>13, <2>1, <2>2, <2>3 DEF OnVehicles
<1>14. AssignmentOwnsVehicle'
  BY <1>13 DEF AssignmentOwnsVehicle
<1>15. \A t \in Sessions : Prepared(t)'
  BY <1>2 DEF Prepared
<1> QED BY <1>2, <1>14, <1>15 DEF Alone

LEMMA AloneStep == IInv /\ Alone /\ [Next]_vars => Alone'
<1> SUFFICES ASSUME IInv, Alone, [Next]_vars, ~overlapped' PROVE Alone'
  BY DEF Alone
<1>1. ASSUME NEW s \in Sessions, Fail(s) PROVE Alone'
  <2>1. /\ UNCHANGED <<tables, overlapped>> /\ pc[s] # "idle" /\ pc' = [pc EXCEPT ![s] = "idle"]
    BY <1>1 DEF Fail, Close
  <2>2. ~overlapped /\ \A t \in Sessions : pc'[t] = "idle"
    BY <2>1 DEF Alone, IInv, Sessioned
  <2>3. AssignmentOwnsVehicle'
    BY <2>1, <2>2 DEF Alone, AssignmentOwnsVehicle, tables
  <2> QED BY <2>2, <2>3 DEF Alone, Prepared
<1>2. CASE UNCHANGED vars
  <2>1. UNCHANGED <<assigned, vehicle, op, copy, seen, pc, overlapped>>
    BY <1>2 DEF vars, tables, local
  <2> QED BY <2>1 DEF Alone, Prepared, AssignmentOwnsVehicle
<1> QED BY <1>1, <1>2, AloneBegin, AloneReread, AloneApply DEF Next

----------------------------------------------------------------------------
(* Theorems. *)

\* Whatever requests of whatever partners overlap, fail or are refused, a
\* driver has one active affiliation and a vehicle one active assignment
\* (ux_partner_driver_links_one_active_driver,
\* ux_vehicle_assignments_one_active_vehicle): the creation of a vehicle, which
\* may affiliate its driver on the way, is no exception.
THEOREM OneActiveEach == Spec => []OneActive
<1>1. IInv => OneActive
  BY DEF IInv
<1> QED BY <1>1, Inv, PTL

\* As long as requests come one after the other, the vehicle of an assignment
\* keeps the owner and the driver of the assignment, whatever is edited or
\* verified (set_vehicle_partner_owner, update_vehicle, verify_vehicle).
THEOREM AssignmentKeepsVehicle == Spec => []AssignmentOwnsVehicle
<1>1. Init => Alone
  BY DEF Init, Alone, Prepared, AssignmentOwnsVehicle
<1>2. Alone => AssignmentOwnsVehicle
  BY DEF Alone, AssignmentOwnsVehicle
<1> QED BY <1>1, <1>2, Inv, AloneStep, PTL DEF Spec


----------------------------------------------------------------------------
(* Types. *)

\* The rows a request on a partner, or on a vehicle or an affiliation, works on.
RowsOf(o) == IF o.act \in Dossier THEN PartnerRows ELSE VehicleRows

LEMMA RowTypes ==
  /\ \A st \in {"absent", "pending", "active", "suspended", "rejected"}, ps \in SUBSET Papers,
        m \in Modes, r \in Rates : PartnerRow(st, ps, m, r) \in PartnerRows
  /\ \A w \in Partners \cup {None}, d \in Drivers \cup {None}, b \in BOOLEAN, c \in BOOLEAN :
        VehicleRow(w, d, b, c) \in VehicleRows
  /\ NoPartner \in PartnerRows /\ NoVehicle \in VehicleRows
BY DEF PartnerRow, PartnerRows, VehicleRow, VehicleRows, NoPartner, NoVehicle, Modes, Rates

\* What a request names, and the changes it carries.
LEMMA OpParts ==
  ASSUME NEW o \in Ops
  PROVE  /\ o.act \in Dossier \cup {"join", "leave", "affiliate", "unaffiliate",
                                    "assign", "supply", "unassign"} => o.partner \in Partners
         /\ o.act \in {"join", "leave"} => o.user \in Users
         /\ o.act \in OnVehicles \cup {"unassign"} => o.vehicle \in Vehicles
         /\ o.act \in {"affiliate", "unaffiliate", "assign", "supply"} => o.driver \in Drivers
         /\ o.edit \in Edits /\ o.act # "none"
         /\ o.act \in Dossier \cup OnVehicles
               \cup {"join", "leave", "affiliate", "unaffiliate", "unassign"}
<1>1. NoEdit \in Edits
  BY DEF NoEdit, Edits
<1>2. Commissions \subseteq Edits /\ Creations \subseteq Edits /\ Submissions \subseteq Edits
  BY DEF Commissions, Creations, Submissions
<1> QED BY <1>1, <1>2 DEF Ops, Requested, Dossier, OnVehicles

LEMMA EffectTypes ==
  ASSUME TypeOK, NEW o \in Ops
  PROVE  Effect(o) \in RowsOf(o)
<1> DEFINE p == partner[o.partner]
           v == vehicle[o.vehicle]
<1>1. CASE o.act \in Dossier
  <2>1. p \in PartnerRows /\ o.edit \in Edits
    BY <1>1, OpParts DEF TypeOK
  <2>2. \A st \in {"absent", "pending", "active", "suspended", "rejected"} :
           Edited(p, o.edit, st) \in PartnerRows /\ Decided(p, st) \in PartnerRows
    BY <2>1 DEF Edited, Decided, Given, PartnerRow, PartnerRows, Edits, Modes, Rates
  <2>3. p.status \in {"absent", "pending", "active", "suspended", "rejected"}
    BY <2>1 DEF PartnerRows
  <2> QED BY <1>1, <2>2, <2>3 DEF Effect, RowsOf, Dossier
<1>2. CASE o.act \in OnVehicles
  <2>1. v \in VehicleRows
    BY <1>2, OpParts DEF TypeOK
  <2>2. o.act \in {"assign", "supply"} => o.partner \in Partners /\ o.driver \in Drivers
    BY OpParts
  <2>3. o.act = "assign" => Owned(v, o.partner, o.driver) \in VehicleRows
    BY <2>1, <2>2 DEF Owned, VehicleRow, VehicleRows
  <2>4. o.act = "supply" => Supplied(o) \in VehicleRows
    BY <2>2 DEF Supplied, VehicleRow, VehicleRows
  <2>5. VehicleRow(v.owner, v.driver, TRUE, TRUE) \in VehicleRows
    BY <2>1 DEF VehicleRow, VehicleRows
  <2> QED BY <1>2, <2>1, <2>3, <2>4, <2>5 DEF Effect, RowsOf, Dossier, OnVehicles
<1>3. CASE o.act \notin Dossier \cup OnVehicles
  BY <1>3, RowTypes DEF Effect, RowsOf, Dossier, OnVehicles
<1> QED BY <1>1, <1>2, <1>3

LEMMA MergedTypes ==
  ASSUME TypeOK, NEW s \in Sessions, pc[s] = "write",
         op[s].act \in Dossier \cup OnVehicles
  PROVE  Merged(s) \in RowsOf(op[s])
<1> DEFINE mine == copy[s]
           read == seen[s]
           now == Target(op[s])
<1>1. op[s] \in Ops /\ mine \in RowsOf(op[s]) /\ read \in RowsOf(op[s])
  BY NoOpTypes DEF TypeOK, RowsOf, Dossier, OnVehicles
<1>2. now \in RowsOf(op[s])
  BY <1>1, OpParts DEF TypeOK, RowsOf, Target
<1> HIDE DEF mine, read, now
<1>3. CASE op[s].act \in Dossier
  <2>1. Merged(s) = PartnerRow(Column(mine.status, read.status, now.status),
           {x \in Papers : Column(x \in mine.papers, x \in read.papers, x \in now.papers)},
           Column(mine.mode, read.mode, now.mode), Column(mine.rate, read.rate, now.rate))
    BY <1>3 DEF Merged, mine, read, now
  <2> QED BY <1>1, <1>2, <1>3, <2>1 DEF RowsOf, Column, PartnerRow, PartnerRows
<1>4. CASE op[s].act \notin Dossier
  <2>1. Merged(s) = VehicleRow(Column(mine.owner, read.owner, now.owner),
           Column(mine.driver, read.driver, now.driver),
           Column(mine.verified, read.verified, now.verified),
           Column(mine.active, read.active, now.active))
    BY <1>4 DEF Merged, mine, read, now
  <2> QED BY <1>1, <1>2, <1>4, <2>1 DEF RowsOf, Column, VehicleRow, VehicleRows
<1> QED BY <1>3, <1>4

LEMMA TypeInit == Init => TypeOK
<1> SUFFICES ASSUME Init PROVE TypeOK
  OBVIOUS
<1>1. partner \in [Partners -> PartnerRows]
  <2>1. PartnerRow("active", Papers, "fixed", "amount") \in PartnerRows
    BY DEF PartnerRow, PartnerRows, Modes, Rates
  <2> QED BY <2>1, RowTypes DEF Init
<1>2. vehicle \in [Vehicles -> VehicleRows]
  BY RowTypes DEF Init, Registered
<1>3. NoOp.act \notin Dossier
  BY NoOpTypes DEF Dossier
<1>4. \A s \in Sessions :
        /\ op[s] \in Ops \cup {NoOp} /\ (op[s] = NoOp <=> pc[s] = "idle")
        /\ copy[s] \in (IF op[s].act \in Dossier THEN PartnerRows ELSE VehicleRows)
        /\ pc[s] = "write" =>
              seen[s] \in (IF op[s].act \in Dossier THEN PartnerRows ELSE VehicleRows)
  <2>1. \A s \in Sessions : op[s] = NoOp /\ copy[s] = NoVehicle /\ pc[s] = "idle"
    BY DEF Init
  <2> QED BY <1>3, <2>1, RowTypes
<1>5. /\ member \in [Partners \X Users -> {"none", "active", "ended"}]
      /\ pc \in [Sessions -> {"idle", "read", "write"}]
      /\ joins \in [Sessions -> BOOLEAN] /\ overlapped \in BOOLEAN
  BY DEF Init
<1>6. /\ links \subseteq Partners \X Drivers
      /\ assigned \subseteq [partner : Partners, vehicle : Vehicles, driver : Drivers]
  BY DEF Init
<1>7. requests \in 0 .. MaxRequests
  BY FleetAssumption DEF Init
<1> QED BY <1>1, <1>2, <1>4, <1>5, <1>6, <1>7 DEF TypeOK

\* A session that has taken a step, when the others have not.
LEMMA TypeLocal ==
  ASSUME IInv, TypeOK, NEW s \in Sessions, Aside(s),
         op'[s] \in Ops \cup {NoOp}, op'[s] = NoOp <=> pc'[s] = "idle",
         copy'[s] \in RowsOf(op'[s]), pc'[s] = "write" => seen'[s] \in RowsOf(op'[s])
  PROVE  \A u \in Sessions :
            /\ op'[u] \in Ops \cup {NoOp}
            /\ op'[u] = NoOp <=> pc'[u] = "idle"
            /\ copy'[u] \in (IF op'[u].act \in Dossier THEN PartnerRows ELSE VehicleRows)
            /\ pc'[u] = "write" =>
                  seen'[u] \in (IF op'[u].act \in Dossier THEN PartnerRows ELSE VehicleRows)
BY DEF TypeOK, RowsOf, Aside

LEMMA TypeBegin ==
  ASSUME IInv, TypeOK, NEW s \in Sessions, NEW o \in Ops, Begin(s, o)
  PROVE  TypeOK'
<1> DEFINE new == IF o.act = "create" THEN NoPartner ELSE NoVehicle
           j == o.act = "supply" /\ ~Affiliated(o.driver)
           step == IF Saves(o) THEN "read" ELSE "write"
<1>1. /\ op' = [op EXCEPT ![s] = o] /\ copy' = [copy EXCEPT ![s] = Effect(o)]
      /\ seen' = [seen EXCEPT ![s] = new] /\ joins' = [joins EXCEPT ![s] = j]
      /\ pc' = [pc EXCEPT ![s] = step] /\ UNCHANGED <<partner, member, links, assigned, vehicle>>
  BY DEF Begin, tables
<1>2. overlapped' \in BOOLEAN /\ requests' \in 0 .. MaxRequests
  BY FleetAssumption DEF Begin, TypeOK
<1>3. step \in {"read", "write"} /\ j \in BOOLEAN /\ (step = "write" => new \in RowsOf(o))
  BY RowTypes DEF RowsOf, Saves, Dossier
<1>4. o # NoOp /\ Effect(o) \in RowsOf(o)
  BY OpParts, NoOpTypes, EffectTypes
<1> HIDE DEF new, j, step
<1>5. Aside(s) /\ op'[s] = o /\ copy'[s] = Effect(o) /\ seen'[s] = new /\ pc'[s] = step
  BY <1>1 DEF Aside, IInv, Sessioned
<1>6. pc' \in [Sessions -> {"idle", "read", "write"}] /\ joins' \in [Sessions -> BOOLEAN]
  BY <1>1, <1>3 DEF TypeOK
<1> QED BY <1>1, <1>2, <1>3, <1>4, <1>5, <1>6, TypeLocal DEF TypeOK

LEMMA TypeReread ==
  ASSUME IInv, TypeOK, NEW s \in Sessions, Reread(s)
  PROVE  TypeOK'
<1> DEFINE mine == IF op[s].act = "assign" THEN Effect(op[s]) ELSE copy[s]
<1>1. /\ pc[s] = "read" /\ pc' = [pc EXCEPT ![s] = "write"]
      /\ UNCHANGED <<partner, member, links, assigned, vehicle, op, joins, overlapped, requests>>
      /\ seen' = [seen EXCEPT ![s] = Target(op[s])] /\ copy' = [copy EXCEPT ![s] = mine]
  <2>1. copy = [copy EXCEPT ![s] = copy[s]]
    BY DEF IInv, Sessioned
  <2> QED BY <2>1 DEF Reread, tables
<1>2. op[s] \in Ops /\ Saves(op[s]) /\ op[s] # NoOp
  BY <1>1 DEF TypeOK, IInv, CopyInv
<1>3. Target(op[s]) \in RowsOf(op[s])
  BY <1>2, OpParts DEF Target, RowsOf, Saves, OnVehicles, Dossier, TypeOK
<1>4. mine \in RowsOf(op[s])
  BY <1>2, EffectTypes DEF TypeOK, RowsOf
<1> HIDE DEF mine
<1>5. Aside(s) /\ op'[s] = op[s] /\ copy'[s] = mine /\ seen'[s] = Target(op[s]) /\ pc'[s] = "write"
  BY <1>1 DEF Aside, IInv, Sessioned
<1>6. pc' \in [Sessions -> {"idle", "read", "write"}]
  BY <1>1 DEF TypeOK
<1> QED BY <1>1, <1>2, <1>3, <1>4, <1>5, <1>6, TypeLocal DEF TypeOK

LEMMA TypeClose ==
  ASSUME IInv, TypeOK, NEW s \in Sessions, Close(s),
         partner' \in [Partners -> PartnerRows],
         member' \in [Partners \X Users -> {"none", "active", "ended"}],
         links' \subseteq Partners \X Drivers,
         assigned' \subseteq [partner : Partners, vehicle : Vehicles, driver : Drivers],
         vehicle' \in [Vehicles -> VehicleRows]
  PROVE  TypeOK'
<1>1. /\ Aside(s) /\ op'[s] = NoOp /\ copy'[s] = NoVehicle /\ pc'[s] = "idle"
      /\ UNCHANGED <<overlapped, requests>>
  BY DEF Close, Aside, IInv, Sessioned
<1>2. pc' \in [Sessions -> {"idle", "read", "write"}] /\ joins' \in [Sessions -> BOOLEAN]
  BY DEF Close, TypeOK
<1>3. copy'[s] \in RowsOf(op'[s])
  BY <1>1, RowTypes, NoOpTypes DEF RowsOf, Dossier
<1> QED BY <1>1, <1>2, <1>3, TypeLocal DEF TypeOK

LEMMA TypeApply ==
  ASSUME IInv, TypeOK, NEW s \in Sessions, Apply(s)
  PROVE  TypeOK'
<1> DEFINE o == op[s]
<1>1. o \in Ops \cup {NoOp} /\ pc[s] = "write" /\ o \in Ops
  BY DEF TypeOK, Apply
<1>2. o.act \in Dossier \cup OnVehicles => Merged(s) \in RowsOf(o)
  BY <1>1, MergedTypes
<1>3. partner' \in [Partners -> PartnerRows]
  BY <1>1, <1>2, OpParts DEF Apply, TypeOK, RowsOf
<1>4. vehicle' \in [Vehicles -> VehicleRows]
  <2>1. vehicle' = IF o.act \in OnVehicles THEN [vehicle EXCEPT ![o.vehicle] = Merged(s)]
                   ELSE vehicle
    BY DEF Apply, OnVehicles
  <2>2. o.act \in OnVehicles => Merged(s) \in VehicleRows
    BY <1>2 DEF RowsOf, OnVehicles, Dossier
  <2> QED BY <1>1, <2>1, <2>2, OpParts DEF TypeOK
<1>5. member' \in [Partners \X Users -> {"none", "active", "ended"}]
  <2>1. member \in [Partners \X Users -> {"none", "active", "ended"}] /\ member' \in MemberAfter(o)
    BY DEF Apply, TypeOK
  <2>2. ASSUME NEW m \in Partners \X Users, NEW st \in {"active", "ended"}
        PROVE  [member EXCEPT ![m] = st] \in [Partners \X Users -> {"none", "active", "ended"}]
    BY <2>1
  <2>3. CASE o.act = "join"
    BY <1>1, <2>1, <2>2, <2>3, OpParts DEF MemberAfter
  <2>4. CASE o.act = "leave"
    <3>1. o.user \in Users
      BY <1>1, <2>4, OpParts
    <3>2. PICK p \in Partners : member' = [member EXCEPT ![<<p, o.user>>] = "ended"]
      BY <2>1, <2>4 DEF MemberAfter
    <3>3. <<p, o.user>> \in Partners \X Users
      BY <3>1
    <3> QED BY <2>2, <3>2, <3>3
  <2>5. CASE o.act \notin {"join", "leave"}
    BY <2>1, <2>5 DEF MemberAfter
  <2> QED BY <2>3, <2>4, <2>5
<1>6. assigned' \subseteq [partner : Partners, vehicle : Vehicles, driver : Drivers]
  <2>1. o.act \in {"assign", "supply"} =>
           Assignment(o.partner, o.vehicle, o.driver)
              \in [partner : Partners, vehicle : Vehicles, driver : Drivers]
    BY <1>1, OpParts DEF Assignment, OnVehicles
  <2>2. \/ o.act \in {"assign", "supply"}
             /\ assigned' = assigned \cup {Assignment(o.partner, o.vehicle, o.driver)}
        \/ assigned' \subseteq assigned
    BY DEF Apply
  <2> QED BY <2>1, <2>2 DEF TypeOK
<1>7. links' \subseteq Partners \X Drivers /\ Close(s)
  BY ApplyLinks DEF Apply
<1> QED BY <1>3, <1>4, <1>5, <1>6, <1>7, TypeClose

LEMMA TypeStep == IInv /\ TypeOK /\ [Next]_vars => TypeOK'
<1> SUFFICES ASSUME IInv, TypeOK, [Next]_vars PROVE TypeOK'
  OBVIOUS
<1>1. ASSUME NEW s \in Sessions, Fail(s) PROVE TypeOK'
  BY <1>1, TypeClose DEF Fail, tables, TypeOK
<1>2. CASE UNCHANGED vars
  BY <1>2 DEF vars, tables, local, TypeOK
<1> QED BY <1>1, <1>2, TypeBegin, TypeReread, TypeApply DEF Next

\* Partners, members, affiliations, assignments, vehicles and requests keep their
\* types, whatever requests overlap and fail.
THEOREM Typing == Spec => []TypeOK
BY Inv, TypeInit, TypeStep, PTL DEF Spec
=============================================================================
