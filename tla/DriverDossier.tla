------------------------------ MODULE DriverDossier ------------------------------
(***************************************************************************)
(* The dossiers of a driver - the profile (KYC) and his vehicles (KYV) -    *)
(* and their review, from modules/ride/application/driver_service.py, the   *)
(* repositories it saves them with, and the idempotent commands by which    *)
(* the backoffice calls it (core/s2s_command_store.py).                     *)
(*                                                                          *)
(* A request reads the row of a dossier, works on its copy, and saves it:   *)
(* save reads the row a second time, and the UPDATE writes the columns      *)
(* where the copy differs from that second reading.  Nothing locks the row  *)
(* before the UPDATE.                                                       *)
(***************************************************************************)
EXTENDS Integers, FiniteSets

CONSTANTS
    Sessions,     \* the requests that can be open at the same time
    Vehicles,     \* the vehicles of the driver
    Docs,         \* the document types
    Papers,       \* the types each dossier may hold
    Required,     \* those it must hold to be approved
    Keys,         \* idempotency keys
    MaxRequests,  \* bound: requests one after the other
    MaxTogether,  \* bound: requests, once two of them are open together
    MaxFaults,    \* bound: failures, crashes, expiries
    None

Profile == "profile"
Dossiers == {Profile} \cup Vehicles

ASSUME DossierAssumption ==
    /\ Profile \notin Vehicles
    /\ Papers \in [Dossiers -> SUBSET Docs] /\ Required \in [Dossiers -> SUBSET Docs]
    /\ \A x \in Dossiers : Required[x] \subseteq Papers[x]
    /\ None \notin Sessions /\ None \notin Keys
    /\ MaxRequests \in Nat /\ MaxTogether \in 0 .. MaxRequests /\ MaxFaults \in Nat

VARIABLES
    row,        \* ride.driver_profiles and ride.vehicles
    published,  \* the status DriverService last gave to the capability outbox
    holder,     \* the session that has locked each row
    audited,    \* the privileged operations recorded under each key
    cmd,        \* Redis: the command each key was reserved for
    pc,         \* the step of each session
    op,         \* the operation it performs
    key,        \* its idempotency key, if it is a command
    copy,       \* its copy of the dossier
    seen,       \* the second reading, by save
    profile,    \* the profile it has read
    told,       \* the status it will publish
    overlapped, \* history: two requests have been open at the same time
    executed,   \* history: the commits made under each key
    lost,       \* history: Redis has lost a finished command
    requests, faults

rows == <<row, published, audited>>
local == <<op, key, copy, seen, profile, told>>
history == <<overlapped, executed, lost>>
counts == <<requests, faults>>
vars == <<rows, holder, cmd, pc, local, history, counts>>

Row(st, kyc, act, files, rev) ==
    [status |-> st, kyc |-> kyc, active |-> act, files |-> files, reviews |-> rev]
NoReview == [d \in Docs |-> "none"]
Absent == Row("absent", "pending", FALSE, {}, NoReview)
Exists(r) == r.status # "absent"

Rows == [status : {"absent", "pending", "active", "rejected"},
         kyc : {"pending", "approved", "rejected"}, active : BOOLEAN,
         files : SUBSET Docs, reviews : [Docs -> {"none", "pending", "approved", "rejected"}]]
Statuses == {"none", "kyc_rejected", "pending_verification", "vehicle_missing",
             "vehicle_pending_verification", "vehicle_rejected", "offline"}

Acts == {"create", "register", "resubmit", "approve", "reject", "touch", "assign"}
\* What the back office asks for, under an idempotency key.
Reviews == {"approve", "reject"}
Commands == Reviews \cup {"create", "touch"}

\* plus: the documents submitted, or approved; minus: those cleared, or rejected.
Ops == [act : Acts, on : Dossiers, plus : SUBSET Docs, minus : SUBSET Docs]
NoOp == [act |-> "none", on |-> Profile, plus |-> {}, minus |-> {}]
Free == [state |-> "free", op |-> NoOp]

\* The requests their schemas accept.
Accepted == {o \in Ops :
    /\ o.plus \cup o.minus \subseteq Papers[o.on] /\ o.plus \cap o.minus = {}
    /\ o.act = "create" => o.on = Profile
    /\ o.act \in {"register", "assign"} => o.on \in Vehicles
    /\ o.act \in {"create", "register", "approve", "touch", "assign"} => o.minus = {}
    /\ o.act = "reject" => o.minus # {}
    /\ o.act \in {"touch", "assign"} => o.plus = {}}

TypeOK ==
    /\ row \in [Dossiers -> Rows] /\ published \in Statuses
    /\ audited \in [Keys -> SUBSET (Commands \X BOOLEAN)]
    /\ holder \in [Dossiers -> Sessions \cup {None}]
    /\ cmd \in [Keys -> [state : {"free", "pending", "done"}, op : Ops \cup {NoOp}]]
    /\ pc \in [Sessions -> {"idle", "save", "write", "commit", "complete"}]
    /\ op \in [Sessions -> Ops \cup {NoOp}] /\ key \in [Sessions -> Keys \cup {None}]
    /\ copy \in [Sessions -> Rows] /\ seen \in [Sessions -> Rows]
    /\ profile \in [Sessions -> Rows] /\ told \in [Sessions -> Statuses]
    /\ \A s \in Sessions :
          /\ pc[s] \in {"save", "write", "commit"} => op[s] \in Ops
          /\ pc[s] = "complete" => key[s] \in Keys
          /\ pc[s] = "idle" => key[s] = None
    /\ \A x \in Dossiers : holder[x] # None => pc[holder[x]] = "commit" /\ op[holder[x]].on = x
    /\ overlapped \in BOOLEAN /\ executed \in [Keys -> Nat] /\ lost \in BOOLEAN
    /\ requests \in 0 .. MaxRequests /\ faults \in 0 .. MaxFaults

Init ==
    /\ row = [x \in Dossiers |-> Absent] /\ published = "none"
    /\ audited = [k \in Keys |-> {}]
    /\ holder = [x \in Dossiers |-> None]
    /\ cmd = [k \in Keys |-> Free]
    /\ pc = [s \in Sessions |-> "idle"]
    /\ op = [s \in Sessions |-> NoOp] /\ key = [s \in Sessions |-> None]
    /\ copy = [s \in Sessions |-> Absent] /\ seen = [s \in Sessions |-> Absent]
    /\ profile = [s \in Sessions |-> Absent] /\ told = [s \in Sessions |-> "none"]
    /\ overlapped = FALSE /\ executed = [k \in Keys |-> 0] /\ lost = FALSE
    /\ requests = 0 /\ faults = 0
-----------------------------------------------------------------------------
(* What an operation makes of the dossier it has read *)

Created(o) == Row("pending", "pending", TRUE, o.plus, NoReview)
Registered(o) == Row("pending", "pending", TRUE, o.plus, NoReview)

\* A document is submitted even by an empty address, which clears it.
Submitted(o) == o.plus \cup o.minus
Resubmission(r, o) == [d \in Docs |-> IF d \in Submitted(o) THEN "pending" ELSE r.reviews[d]]
Replaced(r, o) == (r.files \ o.minus) \cup o.plus

\* Mutant: a refusal outlives the new submission.
KeepsRefusal(r, o) == Row("pending", r.kyc, r.active, Replaced(r, o), Resubmission(r, o))
ProfileResubmitted(r, o) ==
    Row("pending", "pending", r.active, Replaced(r, o), Resubmission(r, o))
VehicleResubmitted(r, o) ==
    Row("pending", r.kyc, r.active, Replaced(r, o), Resubmission(r, o))

\* Without decisions, an approval approves all that is required.
Granted(o) == IF o.plus = {} THEN Required[o.on] ELSE o.plus
Decisions(r, yes, no) ==
    [d \in Docs |-> IF d \in yes THEN "approved" ELSE IF d \in no THEN "rejected" ELSE r.reviews[d]]
Complete(r, x) == Required[x] \subseteq r.files
AllApproved(reviews, x) == \A d \in Required[x] : reviews[d] = "approved"

ProfileApproved(r, o) ==
    Row("active", "approved", r.active, r.files, Decisions(r, Granted(o), {}))
VehicleApproved(r, o) ==
    Row("active", r.kyc, TRUE, r.files, Decisions(r, Granted(o), {}))

ProfileRejected(r, o) ==
    Row("pending", "rejected", r.active, r.files, Decisions(r, o.plus, o.minus))
\* A refused optional document does not stop a vehicle.
VehicleRejected(r, o) ==
    LET reviews == Decisions(r, o.plus, o.minus) IN
    Row(IF \E d \in Required[o.on] : reviews[d] = "rejected" THEN "rejected"
        ELSE IF r.status = "active" THEN "active" ELSE "pending",
        r.kyc, TRUE, r.files, reviews)

\* set_vehicle_partner_owner: a vehicle that is not verified leaves the road.
Assigned(r) ==
    IF r.status = "active" THEN r ELSE Row("pending", r.kyc, FALSE, r.files, r.reviews)

Effect(o, r) ==
    CASE o.act = "create" -> Created(o)
      [] o.act = "register" -> Registered(o)
      [] o.act = "resubmit" ->
            IF o.on = Profile THEN ProfileResubmitted(r, o) ELSE VehicleResubmitted(r, o)
      [] o.act = "approve" ->
            IF o.on = Profile THEN ProfileApproved(r, o) ELSE VehicleApproved(r, o)
      [] o.act = "reject" ->
            IF o.on = Profile THEN ProfileRejected(r, o) ELSE VehicleRejected(r, o)
      [] o.act = "assign" -> Assigned(r)
      [] OTHER -> r  \* a photo, a rating, a description: other columns

\* Mutant: the decisions of an approval are not checked for completeness.
ApprovesSome(o, r) == Exists(r) /\ Complete(r, o.on)
MayApprove(o, r) ==
    Exists(r) /\ Complete(r, o.on) /\ AllApproved(Decisions(r, Granted(o), {}), o.on)

\* require_business_driver: what the routes of a driver at work ask for.
BusinessDriver == row[Profile].status = "active"

\* The checks an operation makes on what it has read.
Admitted(o) ==
    LET r == row[o.on] IN
    CASE o.act = "create" -> ~Exists(r)
      [] o.act = "register" -> Exists(row[Profile]) /\ ~Exists(r)
      [] o.act = "approve" -> MayApprove(o, r)
      [] o.act = "touch" -> Exists(r) /\ r.active
      [] o.act = "resubmit" -> Exists(r) /\ (o.on \in Vehicles => BusinessDriver)
      [] OTHER -> Exists(r)
-----------------------------------------------------------------------------
(* The status of a driver *)

\* Mutant: a rejected profile is reported as pending.
IgnoresRejection(p, v) ==
    IF p.status = "pending" THEN "pending_verification"
    ELSE IF ~Exists(v) THEN "vehicle_missing"
    ELSE IF v.status = "pending" THEN "vehicle_pending_verification"
    ELSE IF v.status = "rejected" THEN "vehicle_rejected"
    ELSE "offline"
OperationalStatus(p, v) ==
    IF p.kyc = "rejected" THEN "kyc_rejected"
    ELSE IF p.status = "pending" THEN "pending_verification"
    ELSE IF ~Exists(v) THEN "vehicle_missing"
    ELSE IF v.status = "pending" THEN "vehicle_pending_verification"
    ELSE IF v.status = "rejected" THEN "vehicle_rejected"
    ELSE "offline"

\* The reconciliation has its own rules, and prefers an active vehicle.
CandidateStatus(p, v) ==
    IF p.kyc = "rejected" THEN "kyc_rejected"
    ELSE IF p.status = "pending" THEN "pending_verification"
    ELSE IF ~Exists(v) THEN "vehicle_missing"
    ELSE IF v.status = "pending" THEN "vehicle_pending_verification"
    ELSE IF v.status = "rejected" THEN "vehicle_rejected"
    ELSE "offline"

\* find_active_for_driver gives any active vehicle, or none.
Active(r) == {r[v] : v \in {w \in Vehicles : Exists(r[w]) /\ r[w].active}}
Found(r) == IF Active(r) = {} THEN {Absent} ELSE Active(r)
\* resolve_driver lets the driver through with this vehicle.
Cleared(v) == row[Profile].status = "active" /\ row[v].active /\ row[v].status = "active"

\* list_candidates.
Candidates ==
    IF Active(row) # {} THEN Active(row)
    ELSE IF \E v \in Vehicles : Exists(row[v]) THEN {row[v] : v \in {w \in Vehicles : Exists(row[w])}}
    ELSE {Absent}

\* Mutant: every status is computed from the profile read at the start.
LoadedBefore(s, mine) == profile[s]
\* The profile a status is computed from: the session's own copy, the one a
\* driver's request on a vehicle read at its start, or a new reading.
Loaded(s, mine) ==
    IF op[s].on = Profile THEN mine
    ELSE IF op[s].act \in {"register", "resubmit"} THEN profile[s]
    ELSE row[Profile]
-----------------------------------------------------------------------------
(* A request *)

Goto(s, step) == pc' = [pc EXCEPT ![s] = step]
Fault == faults < MaxFaults /\ faults' = faults + 1

\* The session forgets what it worked on.
Close(s) ==
    /\ Goto(s, "idle")
    /\ op' = [op EXCEPT ![s] = NoOp] /\ key' = [key EXCEPT ![s] = None]
    /\ copy' = [copy EXCEPT ![s] = Absent] /\ seen' = [seen EXCEPT ![s] = Absent]
    /\ profile' = [profile EXCEPT ![s] = Absent] /\ told' = [told EXCEPT ![s] = "none"]
    /\ holder' = [x \in Dossiers |-> IF holder[x] = s THEN None ELSE holder[x]]

\* Mutant: a command that is still pending may start again.
Unfinished(k) == cmd[k].state # "done"
\* reserve: SET NX.
Unused(k) == cmd[k] = Free
Reserve(o, k) ==
    IF k = None THEN UNCHANGED cmd
    ELSE /\ o.act \in Commands /\ Unused(k)
         /\ cmd' = [cmd EXCEPT ![k] = [state |-> "pending", op |-> o]]
Release(k) == IF k = None THEN UNCHANGED cmd ELSE cmd' = [cmd EXCEPT ![k] = Free]

\* A new row has no second reading; set_vehicle_partner_owner reads once.
ReadsTwice(o) == o.act \notin {"create", "register", "assign"}

Begin(s, o, k) ==
    /\ pc[s] = "idle"
    /\ overlapped' = (overlapped \/ \E t \in Sessions \ {s} : pc[t] # "idle")
    /\ requests < IF overlapped' THEN MaxTogether ELSE MaxRequests
    /\ Admitted(o)
    /\ Reserve(o, k)
    /\ op' = [op EXCEPT ![s] = o] /\ key' = [key EXCEPT ![s] = k]
    /\ copy' = [copy EXCEPT ![s] = Effect(o, row[o.on])]
    /\ seen' = [seen EXCEPT ![s] = row[o.on]]
    /\ profile' = [profile EXCEPT ![s] = row[Profile]]
    /\ Goto(s, IF ReadsTwice(o) THEN "save" ELSE "write")
    /\ requests' = requests + 1
    /\ UNCHANGED <<rows, holder, told, executed, lost, faults>>

Save(s) ==
    /\ pc[s] = "save"
    /\ seen' = [seen EXCEPT ![s] = row[op[s].on]]
    /\ Goto(s, "write")
    /\ UNCHANGED <<rows, holder, cmd, op, key, copy, profile, told, history, counts>>

\* The UPDATE: a column is written when the copy differs from the second
\* reading.  Decisions carry their date, and always differ.
Column(mine, read, now) == IF mine # read THEN mine ELSE now
Merged(s) ==
    LET mine == copy[s] read == seen[s] now == row[op[s].on] IN
    Row(Column(mine.status, read.status, now.status),
        Column(mine.kyc, read.kyc, now.kyc),
        Column(mine.active, read.active, now.active),
        {d \in Docs : \/ op[s].act = "resubmit" /\ d \in op[s].plus  \* another file
                     \/ Column(d \in mine.files, d \in read.files, d \in now.files)},
        IF op[s].act \in Reviews THEN mine.reviews
        ELSE Column(mine.reviews, read.reviews, now.reviews))

Inserts(s) == op[s].act \in {"create", "register"}
Taken(s) == Inserts(s) /\ Exists(row[op[s].on])  \* the user, or the plate

\* The UPDATE or INSERT waits for the row; then the status is computed.
Write(s) ==
    /\ pc[s] = "write" /\ holder[op[s].on] = None /\ ~Taken(s)
    /\ LET x == op[s].on IN
       /\ holder' = [holder EXCEPT ![x] = s]
       /\ copy' = [copy EXCEPT ![s] = IF Inserts(s) THEN @ ELSE Merged(s)]
       /\ \E v \in Found([row EXCEPT ![x] = copy'[s]]) :
             told' = [told EXCEPT ![s] =
                         IF op[s].act \in {"touch", "assign"} THEN "none"
                         ELSE OperationalStatus(Loaded(s, copy[s]), v)]
    /\ Goto(s, "commit")
    /\ UNCHANGED <<rows, cmd, op, key, seen, profile, history, counts>>

\* An operation is recorded once for its client, its name and its key.
Audit(s) == audited' = [audited EXCEPT ![key[s]] = @ \cup {<<op[s].act, op[s].on = Profile>>}]

Commit(s) ==
    /\ pc[s] = "commit"
    /\ row' = [row EXCEPT ![op[s].on] = copy[s]]
    /\ published' = IF told[s] = "none" THEN published ELSE told[s]
    /\ IF key[s] = None
       THEN Close(s) /\ UNCHANGED <<executed, audited>>
       ELSE /\ Audit(s)
            /\ executed' = [executed EXCEPT ![key[s]] = @ + 1]
            /\ holder' = [holder EXCEPT ![op[s].on] = None]
            /\ Goto(s, "complete") /\ UNCHANGED local
    /\ UNCHANGED <<cmd, overlapped, lost, counts>>

\* complete, and the answer.
Finish(s) ==
    /\ pc[s] = "complete"
    /\ cmd' = [cmd EXCEPT ![key[s]] = [state |-> "done", op |-> op[s]]]
    /\ Close(s)
    /\ UNCHANGED <<rows, history, counts>>

\* A unique index refuses a second profile or plate; or the request fails.
\* Everything is rolled back, and a command may be sent again.
Fail(s) ==
    /\ \/ pc[s] = "write" /\ holder[op[s].on] = None /\ Taken(s) /\ UNCHANGED faults
       \/ pc[s] \in {"save", "write", "commit"} /\ Fault
    /\ Release(key[s])
    /\ Close(s)
    /\ UNCHANGED <<rows, history, requests>>

\* complete fails after the commit: the handler releases the key.
Forget(s) ==
    /\ pc[s] = "complete" /\ Fault
    /\ Release(key[s])
    /\ lost' = TRUE
    /\ Close(s)
    /\ UNCHANGED <<rows, overlapped, executed, requests>>

\* The process dies; a command it had reserved stays pending.
Crash(s) ==
    /\ pc[s] # "idle" /\ Fault
    /\ Close(s)
    /\ UNCHANGED <<rows, cmd, history, requests>>

\* The key lives for a day.
Expire(k) ==
    /\ cmd[k] # Free /\ Fault
    /\ cmd' = [cmd EXCEPT ![k] = Free]
    /\ lost' = TRUE
    /\ UNCHANGED <<rows, holder, pc, local, overlapped, executed, requests>>

Next ==
    \/ \E s \in Sessions :
          \/ \E o \in Accepted, k \in Keys \cup {None} : Begin(s, o, k)
          \/ Save(s) \/ Write(s) \/ Commit(s) \/ Finish(s)
          \/ Fail(s) \/ Forget(s) \/ Crash(s)
    \/ \E k \in Keys : Expire(k)

Spec == Init /\ [][Next]_vars
-----------------------------------------------------------------------------
(* Properties *)

\* While requests do not overlap, an active profile or vehicle has been
\* approved on all the documents it must hold, and still holds them as they
\* were approved: no order of resubmissions, partial decisions, photos and
\* assignments to a partner reaches another state.
Approved(x) ==
    /\ Complete(row[x], x) /\ AllApproved(row[x].reviews, x)
    /\ x = Profile => row[x].kyc = "approved"
ActiveIsReviewed ==
    ~overlapped => \A x \in Dossiers : row[x].status = "active" => Approved(x)

\* While requests do not overlap, a driver who is refused can see which
\* document to correct.
RejectionNamesDocument ==
    ~overlapped =>
        /\ row[Profile].kyc = "rejected" =>
              \E d \in Papers[Profile] : row[Profile].reviews[d] = "rejected"
        /\ \A v \in Vehicles : row[v].status = "rejected" =>
              \E d \in Required[v] : row[v].reviews[d] = "rejected"

\* While requests do not overlap, the status the service has published is the
\* one the reconciliation would compute from the committed rows, so that it
\* finds nothing to correct; except for a vehicle that a partner has taken off
\* the road, which the two sides see differently.
ReconcilerAgrees ==
    (~overlapped /\ Exists(row[Profile])
       /\ \A v \in Vehicles : Exists(row[v]) => row[v].active) =>
        \E v \in Candidates : published = CandidateStatus(row[Profile], v)

\* While requests do not overlap, DiddiFreeID is told that a driver only has to
\* go online when his dossiers let him through with one of his vehicles, and is
\* told so when they do with every one he has.  What going online asks besides,
\* an active partner and a balance (ensure_can_go_online), is not in this status.
ToldWhoIsCleared ==
    LET own == {v \in Vehicles : Exists(row[v])} IN
    ~overlapped =>
        /\ published = "offline" => \E v \in own : Cleared(v)
        /\ own # {} /\ (\A v \in own : Cleared(v)) => published = "offline"

\* A command takes effect at most once for its key, whatever the retries, the
\* failures and the crashes, as long as Redis keeps what it was told; and
\* whatever Redis loses, there is an effect under a key exactly when the audit
\* has recorded one.
OncePerKey ==
    \A k \in Keys :
        /\ ~lost => executed[k] <= 1
        /\ executed[k] = 0 <=> audited[k] = {}
=============================================================================
