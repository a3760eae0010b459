--------------------------------- MODULE Matching ---------------------------------
(***************************************************************************)
(* Ride matching, from modules/ride: the offer waves of a ride, the answers *)
(* of drivers, the expiry timers, and the drivers' availability.            *)
(*                                                                          *)
(* Two stores take part and no transaction spans them.  Redis holds offers, *)
(* tried drivers, claims and availability, and every write there is seen at *)
(* once.  PostgreSQL holds the rides: a session reads a ride without a      *)
(* lock, saves it as RideLifecycle describes, and publishes it when the     *)
(* request commits, after its writes to Redis.  Timers live in memory.      *)
(***************************************************************************)
EXTENDS Integers, FiniteSets

CONSTANTS
    Rides, Drivers,
    Sessions,   \* the database sessions of HTTP requests
    Clocks,     \* the database sessions of expired timers
    Requests,   \* the requests that are made, among AllRequests
    WaveSize,   \* offer_wave_size
    MaxOverlaps, \* bound: starts of a request beside one it is not kept together with
    MaxFaults,  \* bound: failed requests and restarts
    Nobody

\* PATCH /status to what is not completed: it saves the ride and no more.
Patching == {"set_matched", "set_cancelled", "set_no_driver_found"}

AllRequests ==
    {"create", "accept", "decline", "cancel", "complete", "retry", "online", "offline"}
    \cup Patching
Actors == Sessions \cup Clocks

\* Every request may run beside every other, and timers beside timers.  These
\* keep the properties below when they do.  Any other overlap can act on a ride
\* that another request has changed, and two timers of one ride would both open
\* its next wave; overlaps counts them.
KeptTogether ==
    {{"accept", "create"}, {"create", "cancel"}, {"create", "complete", "retry"},
     {"create", "expire"}, {"complete", "retry", "expire"}}
KeepsBeside(g, h) ==
    ~ (g = "expire" /\ h = "expire") /\ \E kept \in KeptTogether : {g, h} \subseteq kept

ASSUME MatchingAssumption ==
    /\ Nobody \notin Actors \cup Drivers /\ Rides # {}
    /\ IsFiniteSet(Drivers)
    /\ Requests \subseteq AllRequests
    /\ WaveSize \in Nat \ {0} /\ MaxOverlaps \in Nat /\ MaxFaults \in Nat

VARIABLES
    row,        \* the committed columns of each ride
    holder,     \* the session that has locked the row
    draft,      \* the row as the holder has updated it
    offered,    \* rides:offer, the drivers who hold the open wave
    tried,      \* rides:offer:tried
    claim,      \* rides:claim
    available,  \* the drivers marked available
    away,       \* history: the drivers who have gone offline since they were
                \* last made available
    timers,     \* how many expiry timers of the ride are pending
    pc, job,    \* the step of each session, and its <<operation, ride, driver>>
    snap, base, \* the ride it has loaded, and the row save has read again
    wave,       \* the candidates it is about to offer the ride to
    faults,
    patched,    \* history: the rides of which PATCH has set the status
    overlaps    \* history: starts of a request beside one it is not kept together with

redis == <<offered, tried, claim, available, away>>  \* with its history
database == <<row, holder, draft>>
local == <<job, snap, base, wave>>
past == <<faults, patched, overlaps>>
vars == <<database, redis, timers, pc, local, past>>

Statuses == {"none", "requested", "matched", "completed", "cancelled", "no_driver_found"}
Row(st, d) == [c \in {"status", "driver"} |-> IF c = "status" THEN st ELSE d]
NoRow == Row("none", Nobody)
NoJob(r) == <<"none", r, Nobody>>

Rows == {Row(st, d) : st \in Statuses, d \in Drivers \cup {Nobody}}
Jobs == (AllRequests \cup {"none", "expire", "giveup"}) \X Rides \X (Drivers \cup {Nobody})

\* The operations that save a ride.
Savers == {"accept", "cancel", "complete", "giveup"} \cup Patching

TypeOK ==
    /\ row \in [Rides -> Rows] /\ draft \in [Rides -> Rows]
    /\ holder \in [Rides -> Actors \cup {Nobody}]
    /\ offered \in [Rides -> SUBSET Drivers] /\ tried \in [Rides -> SUBSET Drivers]
    /\ claim \in [Rides -> Drivers \cup {Nobody}]
    /\ available \in SUBSET Drivers /\ away \in SUBSET Drivers
    /\ timers \in [Rides -> Nat] /\ faults \in 0 .. MaxFaults
    /\ patched \in SUBSET Rides /\ overlaps \in 0 .. MaxOverlaps
    /\ pc \in [Actors -> {"idle", "claim", "refuse", "count", "match", "open", "notify",
                          "read", "write", "close", "clear", "commit"}]
    /\ job \in [Actors -> Jobs]
    /\ snap \in [Actors -> Rows] /\ base \in [Actors -> Rows]
    /\ wave \in [Actors -> SUBSET Drivers]
    /\ \A s \in Actors :
          /\ pc[s] \in {"claim", "read", "write"} => job[s][1] \in Savers
          /\ job[s][1] \in {"accept", "decline"} => job[s][3] \in Drivers

Init ==
    /\ row = [r \in Rides |-> NoRow]
    /\ holder = [r \in Rides |-> Nobody]
    /\ draft = [r \in Rides |-> NoRow]
    /\ offered = [r \in Rides |-> {}] /\ tried = [r \in Rides |-> {}]
    /\ claim = [r \in Rides |-> Nobody]
    /\ available = Drivers /\ away = {}
    /\ timers = [r \in Rides |-> 0]
    /\ pc = [s \in Actors |-> "idle"]
    /\ job = [s \in Actors |-> NoJob(CHOOSE r \in Rides : TRUE)]
    /\ snap = [s \in Actors |-> NoRow] /\ base = [s \in Actors |-> NoRow]
    /\ wave = [s \in Actors |-> {}]
    /\ faults = 0 /\ patched = {} /\ overlaps = 0
----------------------------------------------------------------------------
Op(s) == job[s][1]
Ride(s) == job[s][2]
Driver(s) == job[s][3]

View(s) == IF holder[Ride(s)] = s THEN draft[Ride(s)] ELSE row[Ride(s)]
RowFree(s) == holder[Ride(s)] \in {s, Nobody}

Goto(s, step) == pc' = [pc EXCEPT ![s] = step]

\* The end of a request: what the session remembered is gone.
Done(s) ==
    /\ Goto(s, "idle")
    /\ job' = [job EXCEPT ![s] = NoJob(CHOOSE r \in Rides : TRUE)]
    /\ snap' = [snap EXCEPT ![s] = NoRow]
    /\ base' = [base EXCEPT ![s] = NoRow]
    /\ wave' = [wave EXCEPT ![s] = {}]

\* A request or a timer starts with a ride it has loaded.
Start(s, op, r, d, x, step) ==
    /\ pc[s] = "idle"
    /\ overlaps' = overlaps + IF \A u \in Actors \ {s} : pc[u] # "idle" => KeepsBeside(op, Op(u))
                              THEN 0 ELSE 1
    /\ overlaps' <= MaxOverlaps
    /\ Goto(s, step)
    /\ job' = [job EXCEPT ![s] = <<op, r, d>>]
    /\ snap' = [snap EXCEPT ![s] = x]
    /\ UNCHANGED <<base, wave, faults, patched>>

\* POST /rides: the row is inserted, and the ride matched before the commit.
Create(s, r) ==
    /\ "create" \in Requests
    /\ row[r] = NoRow /\ holder[r] = Nobody
    /\ Start(s, "create", r, Nobody, Row("requested", Nobody), "match")
    /\ holder' = [holder EXCEPT ![r] = s]
    /\ draft' = [draft EXCEPT ![r] = Row("requested", Nobody)]
    /\ UNCHANGED <<row, redis, timers>>

\* The driver holds an offer and the ride is still requested.
Accept(s, r, d) ==
    /\ "accept" \in Requests
    /\ row[r]["status"] = "requested" /\ d \in offered[r]
    /\ Start(s, "accept", r, d, row[r], "claim")
    /\ UNCHANGED <<database, redis, timers>>

\* A driver of the wave refuses; without a wave, any driver may.
Decline(s, r, d) ==
    /\ "decline" \in Requests
    /\ row[r]["status"] = "requested" /\ (offered[r] = {} \/ d \in offered[r])
    /\ Start(s, "decline", r, d, row[r], "refuse")
    /\ UNCHANGED <<database, redis, timers>>

\* The passenger or the driver cancels, the driver ends the ride.
End(s, r) ==
    \/ /\ "cancel" \in Requests /\ row[r]["status"] \in {"requested", "matched"}
       /\ Start(s, "cancel", r, Nobody, row[r], "read")
       /\ UNCHANGED <<database, redis, timers>>
    \/ /\ "complete" \in Requests /\ row[r]["status"] = "matched"
       /\ Start(s, "complete", r, Nobody, row[r], "read")
       /\ UNCHANGED <<database, redis, timers>>

\* What PATCH may make of a status; the other steps of the graph are between
\* statuses that are "matched" here.
Settable(op, st) ==
    \/ op = "set_matched" /\ st = "requested"
    \/ op = "set_cancelled" /\ st \in {"requested", "matched"}
    \/ op = "set_no_driver_found" /\ st = "requested"

\* PATCH: only a completion releases the driver and the matching state.
Patch(s, r) ==
    \E op \in Patching \cap Requests :
        /\ Settable(op, row[r]["status"])
        /\ Start(s, op, r, Nobody, row[r], "read")
        /\ UNCHANGED <<database, redis, timers>>

\* PATCH completed on a completed ride: nothing is saved, the driver is
\* released again.
Retry(s, r) ==
    /\ "retry" \in Requests /\ row[r]["status"] = "completed"
    /\ Start(s, "retry", r, Nobody, row[r], "clear")
    /\ UNCHANGED <<database, redis, timers>>

\* A timer sleeps longer than the offers of its wave live: it wakes after
\* them, and finds offers only when another wave has been opened.  Assumed:
\* the request that creates a ride commits within that time.
TimerDue(r) ==
    /\ offered[r] = {} \/ timers[r] > 1 \/ \E u \in Actors : pc[u] = "notify" /\ Ride(u) = r
    /\ \A u \in Actors : job[u][1] = "create" => Ride(u) # r

Fire(s, r) ==
    /\ timers[r] > 0 /\ TimerDue(r) /\ pc[s] = "idle"
    /\ timers' = [timers EXCEPT ![r] = @ - 1]
    /\ IF offered[r] = {} /\ row[r]["status"] = "requested"
       THEN Start(s, "expire", r, Nobody, row[r], "match")
       ELSE UNCHANGED <<pc, local, past>>
    /\ UNCHANGED <<database, redis>>
----------------------------------------------------------------------------
(* The acceptance. *)

\* SET NX: one driver of the wave wins.
Claim(s) ==
    /\ pc[s] = "claim"
    /\ IF claim[Ride(s)] = Nobody
       THEN claim' = [claim EXCEPT ![Ride(s)] = Driver(s)] /\ Goto(s, "read") /\ UNCHANGED local
       ELSE Done(s) /\ UNCHANGED claim
    /\ UNCHANGED <<database, offered, tried, available, away, timers, past>>

\* The offers are withdrawn and the driver is no longer available, before the
\* commit.
Close(s) ==
    /\ pc[s] = "close"
    /\ offered' = [offered EXCEPT ![Ride(s)] = {}]
    /\ available' = available \ {Driver(s)}
    /\ Goto(s, "commit")
    /\ UNCHANGED <<database, tried, claim, away, timers, local, past>>

----------------------------------------------------------------------------
(* The refusal and the next wave. *)

Refuse(s) ==
    /\ pc[s] = "refuse"
    /\ offered' = [offered EXCEPT ![Ride(s)] = @ \ {Driver(s)}]
    /\ Goto(s, "count")
    /\ UNCHANGED <<database, tried, claim, available, away, timers, local, past>>

Count(s) ==
    /\ pc[s] = "count"
    /\ Goto(s, IF offered[Ride(s)] = {} THEN "match" ELSE "commit")
    /\ UNCHANGED <<database, redis, timers, local, past>>

\* Mutant: the drivers asked before are candidates again.
AnyWave(r) == {w \in SUBSET available : w # {} /\ Cardinality(w) <= WaveSize}

\* What a search near the pickup may find: distance and presence choose.
Nearby == SUBSET available

\* Any of them that have not been asked yet: ETA, vehicle, partner and balance
\* choose.
Waves(r) ==
    {w \in Nearby : w # {} /\ w \cap tried[r] = {} /\ Cardinality(w) <= WaveSize}

\* try_match: give up when nobody suits, or when the search has lasted too
\* long; otherwise leave an open wave alone, or prepare the next one.
Match(s) ==
    /\ pc[s] = "match"
    /\ \/ /\ job' = [job EXCEPT ![s] = <<"giveup", Ride(s), Driver(s)>>]
          /\ Goto(s, "read") /\ UNCHANGED wave
       \/ /\ offered[Ride(s)] # {}
          /\ Goto(s, "commit") /\ UNCHANGED <<job, wave>>
       \/ /\ offered[Ride(s)] = {}
          /\ \E w \in Waves(Ride(s)) : wave' = [wave EXCEPT ![s] = w]
          /\ Goto(s, "open") /\ UNCHANGED job
    /\ UNCHANGED <<database, redis, timers, snap, base, past>>

Open(s) ==
    /\ pc[s] = "open"
    /\ offered' = [offered EXCEPT ![Ride(s)] = wave[s]]
    /\ tried' = [tried EXCEPT ![Ride(s)] = @ \cup wave[s]]
    /\ Goto(s, "notify")
    /\ UNCHANGED <<database, claim, available, away, timers, local, past>>

\* Mutant: the wave a timer opens gets no timer of its own.
TimerOnce(s) == Op(s) # "expire"

\* Every new wave gets a timer.
WithTimer(s) == TRUE

Notify(s) ==
    /\ pc[s] = "notify"
    /\ timers' = IF WithTimer(s) THEN [timers EXCEPT ![Ride(s)] = @ + 1] ELSE timers
    /\ Goto(s, "commit")
    /\ UNCHANGED <<database, redis, local, past>>

----------------------------------------------------------------------------
(* The save of the ride. *)

Read(s) ==
    /\ pc[s] = "read"
    /\ base' = [base EXCEPT ![s] = View(s)]
    /\ Goto(s, "write")
    /\ UNCHANGED <<database, redis, timers, job, snap, wave, past>>

\* The columns that differ from the second reading are written.
Saved(s) ==
    LET st == CASE Op(s) \in {"accept", "set_matched"}         -> "matched"
                [] Op(s) \in {"giveup", "set_no_driver_found"} -> "no_driver_found"
                [] Op(s) \in {"cancel", "set_cancelled"}       -> "cancelled"
                [] Op(s) = "complete"                          -> "completed"
        new == Row(st, IF Op(s) = "accept" THEN Driver(s) ELSE snap[s]["driver"])
    IN  [c \in DOMAIN new |-> IF new[c] # base[s][c] THEN new[c] ELSE View(s)[c]]

Active(x) == x["status"] = "matched" /\ x["driver"] # Nobody

\* Mutant: a look at the committed rides instead of the index.
WaitsForNobody(s, x) == FALSE

\* uq_rides_one_active_per_driver: while another session has touched an
\* active row of this driver the update waits for its end ...
Waits(s, x) ==
    Active(x) /\ \E r \in Rides : holder[r] \notin {s, Nobody} /\ x \in {draft[r], row[r]}

\* ... and when such a row is committed, the update fails.
Taken(s, x) ==
    Active(x) /\ \E r \in Rides \ {Ride(s)} : row[r] = x

Write(s) ==
    LET x == Saved(s)
    IN  /\ pc[s] = "write" /\ RowFree(s) /\ ~Waits(s, x) /\ ~Taken(s, x)
        /\ holder' = [holder EXCEPT ![Ride(s)] = s]
        /\ draft' = [draft EXCEPT ![Ride(s)] = x]
        /\ Goto(s, CASE Op(s) = "accept" -> "close"
                     [] Op(s) \in Patching -> "commit"
                     [] OTHER -> "clear")
        /\ UNCHANGED <<row, redis, timers, local, past>>

\* release_claim.
Released(s) == claim' = [claim EXCEPT ![Ride(s)] = Nobody]

\* IntegrityError: the claim is released and the request rolled back.
Conflict(s) ==
    /\ pc[s] = "write" /\ RowFree(s) /\ ~Waits(s, Saved(s)) /\ Taken(s, Saved(s))
    /\ IF Op(s) = "accept" THEN Released(s) ELSE UNCHANGED claim
    /\ Done(s)
    /\ UNCHANGED <<database, offered, tried, available, away, timers, past>>

\* Mutant: the driver of the ride is not looked for.
FreesNobody(s) == {}

\* release_driver sets the driver of the ride available; giving up does not.
Freed(s) == IF Op(s) = "giveup" THEN {} ELSE {View(s)["driver"]} \ {Nobody}

\* The matching state of an ended ride is dropped, before the commit.
Clear(s) ==
    /\ pc[s] = "clear"
    /\ offered' = [offered EXCEPT ![Ride(s)] = {}]
    /\ tried' = [tried EXCEPT ![Ride(s)] = {}]
    /\ claim' = [claim EXCEPT ![Ride(s)] = Nobody]
    /\ available' = available \cup Freed(s) /\ away' = away \ Freed(s)
    /\ Goto(s, "commit")
    /\ UNCHANGED <<database, timers, local, past>>

Unlock(s) ==
    /\ holder' = [r \in Rides |-> IF holder[r] = s THEN Nobody ELSE holder[r]]
    /\ draft' = [r \in Rides |-> IF holder[r] = s THEN NoRow ELSE draft[r]]

Commit(s) ==
    /\ pc[s] = "commit"
    /\ row' = [r \in Rides |-> IF holder[r] = s THEN draft[r] ELSE row[r]]
    /\ patched' = patched \cup {r \in Rides : Op(s) \in Patching /\ r = Ride(s)}
    /\ Unlock(s) /\ Done(s)
    /\ UNCHANGED <<redis, timers, faults, overlaps>>
----------------------------------------------------------------------------
(* Around the requests. *)

\* POST /drivers/online and /offline.
SwitchOn(d) ==
    /\ "online" \in Requests /\ d \notin available
    /\ available' = available \cup {d} /\ away' = away \ {d}
    /\ UNCHANGED <<database, offered, tried, claim, timers, pc, local, past>>

SwitchOff(d) ==
    /\ "offline" \in Requests /\ d \in available
    /\ available' = available \ {d} /\ away' = away \cup {d}
    /\ UNCHANGED <<database, offered, tried, claim, timers, pc, local, past>>

\* The offers of a wave reach their TTL.
Lapse(r) ==
    /\ offered[r] # {}
    /\ offered' = [offered EXCEPT ![r] = {}]
    /\ UNCHANGED <<database, tried, claim, available, away, timers, pc, local, past>>

\* A request fails and is rolled back: what it wrote to Redis stays, but for
\* the claim of an acceptance that fails in the save.
Fail(s) ==
    /\ pc[s] # "idle" /\ faults < MaxFaults
    /\ faults' = faults + 1
    /\ IF Op(s) = "accept" /\ pc[s] \in {"read", "write"} THEN Released(s) ELSE UNCHANGED claim
    /\ Unlock(s) /\ Done(s)
    /\ UNCHANGED <<row, offered, tried, available, away, timers, patched, overlaps>>

\* The process stops and starts again: sessions and timers are lost.
Restart ==
    /\ faults < MaxFaults /\ faults' = faults + 1
    /\ holder' = [r \in Rides |-> Nobody] /\ draft' = [r \in Rides |-> NoRow]
    /\ timers' = [r \in Rides |-> 0]
    /\ pc' = [s \in Actors |-> "idle"]
    /\ job' = [s \in Actors |-> NoJob(CHOOSE r \in Rides : TRUE)]
    /\ snap' = [s \in Actors |-> NoRow] /\ base' = [s \in Actors |-> NoRow]
    /\ wave' = [s \in Actors |-> {}]
    /\ UNCHANGED <<row, redis, patched, overlaps>>

Continue(s) ==
    \/ Claim(s) \/ Close(s) \/ Refuse(s) \/ Count(s) \/ Match(s) \/ Open(s) \/ Notify(s)
    \/ Read(s) \/ Write(s) \/ Conflict(s) \/ Clear(s) \/ Commit(s)

Next ==
    \/ \E s \in Sessions, r \in Rides :
          \/ Create(s, r) \/ End(s, r) \/ Patch(s, r) \/ Retry(s, r)
          \/ \E d \in Drivers : Accept(s, r, d) \/ Decline(s, r, d)
    \/ \E s \in Clocks, r \in Rides : Fire(s, r)
    \/ \E s \in Actors : Continue(s) \/ Fail(s)
    \/ \E d \in Drivers : SwitchOn(d) \/ SwitchOff(d)
    \/ \E r \in Rides : Lapse(r)
    \/ Restart

\* The event loop runs what has started and wakes the timers, and Redis
\* expires keys; nobody has to answer an offer.
Fairness ==
    /\ \A s \in Actors : WF_vars(Continue(s))
    /\ \A s \in Clocks, r \in Rides : WF_vars(Fire(s, r))
    /\ \A r \in Rides : WF_vars(Lapse(r))

Spec == Init /\ [][Next]_vars
FairSpec == Spec /\ Fairness
----------------------------------------------------------------------------
(* Properties. *)

OnRide(d) == \E r \in Rides : row[r] = Row("matched", d)

\* A driver has one active ride at most, whatever requests run at once
\* (uq_rides_one_active_per_driver).
OneActiveRidePerDriver ==
    \A q, r \in Rides :
        Active(row[q]) /\ row[q] = row[r] => q = r

\* "A later wave never loops back to them" (open_offers): a driver who has
\* been asked for a ride is not asked again, until requests overlap that are
\* not kept together.
NotAskedAgain ==
    [][overlaps' = 0
          => \A r \in Rides : (offered'[r] \ offered[r]) \cap tried[r] = {}]_vars

\* Between requests, as long as none has failed and none overlapped that are
\* not kept together, offers belong to requested rides, claims to accepted
\* ones, and a driver is out of the pool only for a ride or because the driver
\* went offline (cancel_ride, release_claim).  What PATCH /status leaves of the
\* rides it sets is excepted: their offers, their claims and their drivers.
NothingLeftBehind ==
    (faults = 0 /\ overlaps = 0 /\ \A s \in Actors : pc[s] = "idle") =>
        /\ \A r \in Rides \ patched : offered[r] # {} => row[r]["status"] = "requested"
        /\ \A r \in Rides \ patched : claim[r] # Nobody => row[r] = Row("matched", claim[r])
        /\ \A d \in Drivers :
              d \in available \cup away \/ OnRide(d) \/ \E r \in patched : row[r]["driver"] = d

\* A requested ride finds a driver or is told that there is none, whatever
\* the drivers do, unless a failure or a restart lost its timer
\* (_search_budget_exceeded, advance_expired_offer).
RequestedIsAnswered ==
    \A r \in Rides :
        row[r]["status"] = "requested" ~> row[r]["status"] # "requested" \/ faults > 0
=============================================================================
