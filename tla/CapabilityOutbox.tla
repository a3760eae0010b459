----------------------------- MODULE CapabilityOutbox -----------------------------
(***************************************************************************)
(* The outbox by which DiddiGo tells DiddiFreeID the operational status of  *)
(* each driver, from modules/ride: capability_projection*.py.               *)
(*                                                                          *)
(* A request that changes a driver's standing writes an event in its own    *)
(* transaction.  Workers (one loop in each process) send the events that    *)
(* are due, and mark them in one transaction for the whole batch; from time *)
(* to time they compare profiles and Redis with what was published, publish *)
(* what is missing, and send again what was sent long ago.                  *)
(***************************************************************************)
EXTENDS Integers, Sequences, FiniteSets

CONSTANTS
    Users,
    Requests,    \* the database sessions of HTTP requests
    Workers,     \* the capability_projection_loop of each process
    Standings,   \* the statuses a profile and its vehicle can give
    MaxChanges,  \* bound: changes of standing and of the Redis markers
    MaxFaults,   \* bound: failed requests and calls, crashed workers
    None

Sessions == Requests \cup Workers

ASSUME OutboxAssumption ==
    /\ Requests \cap Workers = {}
    /\ None \notin Sessions
    /\ "offline" \in Standings /\ "online" \notin Standings /\ "none" \notin Standings
    /\ MaxChanges \in Nat /\ MaxFaults \in Nat

VARIABLES
    standing,  \* _operational_status of each driver's committed rows
    online,    \* the presence and availability markers in Redis
    state,     \* driver_capability_projection_states
    event,     \* driver_capability_projection_events, by number
    holder,    \* the worker that has locked the state row
    pc,        \* the step of each session
    job,       \* the status a request is about to publish; the event a worker marks
    batch,     \* the events a worker has locked and not sent yet
    marks,     \* the events it has sent, with the outcome it will commit
    snap,      \* the statuses a reconciliation has computed
    shown,     \* DiddiFreeID: the status of each driver, with its version
    known,     \* DiddiFreeID: whether the user exists there
    changes, faults

rows == <<state, event, holder>>
local == <<job, batch, marks, snap>>
facts == <<standing, online>>
remote == <<shown, known>>
counts == <<changes, faults>>
vars == <<facts, rows, pc, local, remote, counts>>

Statuses == Standings \cup {"online"}
Outcomes == {"succeeded", "retry", "conflict", "dead_letter"}

State(d, v, l, y) == [desired |-> d, version |-> v, last |-> l, sync |-> y]
Event(d, v, st) == [desired |-> d, version |-> v, status |-> st]
NoJob == <<"none">>
NoSnap == [u \in Users |-> "none"]

\* What a session works on at each of its steps; a worker between two
\* iterations holds nothing.
JobOK(s) ==
    CASE pc[s] = "publish" -> s \in Requests /\ job[s] \in Users \X Statuses
      [] pc[s] = "mark"    -> s \in Workers /\ job[s] \in Users \X Nat \X Outcomes
      [] OTHER             -> job[s] = NoJob
RestOK(w) ==
    /\ pc[w] \notin {"deliver", "mark"} =>
          batch[w] = {} /\ marks[w] = {} /\ \A u \in Users : holder[u] # w
    /\ pc[w] \notin {"look", "reconcile"} => snap[w] = NoSnap

TypeOK ==
    /\ standing \in [Users -> Standings] /\ online \in [Users -> BOOLEAN]
    /\ state \in [Users -> [desired : Statuses \cup {"none"}, version : Nat, last : Nat,
                            sync : {"pending"} \cup Outcomes]]
    /\ event \in [Users -> Seq([desired : Statuses, version : Nat,
                                status : {"pending"} \cup Outcomes])]
    /\ holder \in [Users -> Workers \cup {None}]
    /\ pc \in [Sessions -> {"idle", "publish", "deliver", "mark", "look", "reconcile"}]
    /\ DOMAIN job = Sessions /\ \A s \in Sessions : JobOK(s)
    /\ batch \in [Workers -> SUBSET (Users \X Nat)]
    /\ marks \in [Workers -> SUBSET (Users \X Nat \X Outcomes)]
    /\ snap \in [Workers -> [Users -> Statuses \cup {"none"}]]
    /\ shown \in [Users -> [version : Nat, status : Statuses \cup {"none"}]]
    /\ known \in [Users -> BOOLEAN]
    /\ \A w \in Workers : RestOK(w)
    /\ changes \in 0 .. MaxChanges /\ faults \in 0 .. MaxFaults

\* Nobody has a projection yet; some users do not exist at DiddiFreeID yet.
Init ==
    /\ standing \in [Users -> Standings]
    /\ online = [u \in Users |-> FALSE]
    /\ state = [u \in Users |-> State("none", 0, 0, "pending")]
    /\ event = [u \in Users |-> <<>>]
    /\ holder = [u \in Users |-> None]
    /\ pc = [s \in Sessions |-> "idle"]
    /\ job = [s \in Sessions |-> NoJob]
    /\ batch = [w \in Workers |-> {}] /\ marks = [w \in Workers |-> {}]
    /\ snap = [w \in Workers |-> NoSnap]
    /\ shown = [u \in Users |-> [version |-> 0, status |-> "none"]]
    /\ known \in [Users -> BOOLEAN]
    /\ changes = 0 /\ faults = 0
-----------------------------------------------------------------------------
(* The outbox *)

Goto(s, step) == pc' = [pc EXCEPT ![s] = step]
Change == changes < MaxChanges /\ changes' = changes + 1
Fault == faults < MaxFaults /\ faults' = faults + 1

\* enqueue returns None for a status that is already the desired one.
News(wanted) ==
    {u \in DOMAIN wanted : state[u].last = 0 \/ state[u].desired # wanted[u]}

\* The rows after enqueue of the statuses in wanted.
EnqueuedState(wanted) ==
    [u \in Users |-> IF u \in News(wanted)
                     THEN State(wanted[u], state[u].version + 1, Len(event[u]) + 1, "pending")
                     ELSE state[u]]
\* Mutant: an event that is still unsent is overwritten.
OverwritesUnsent(wanted) ==
    [u \in Users |->
        IF u \notin News(wanted) THEN event[u]
        ELSE IF event[u] # <<>> /\ event[u][Len(event[u])].status = "pending"
             THEN [event[u] EXCEPT ![Len(event[u])] = Event(wanted[u], @.version, "pending")]
             ELSE Append(event[u], Event(wanted[u], state[u].version + 1, "pending"))]
EnqueuedEvent(wanted) ==
    [u \in Users |-> IF u \in News(wanted)
                     THEN Append(event[u], Event(wanted[u], state[u].version + 1, "pending"))
                     ELSE event[u]]

\* A request publishes one status.  Its lock on the state row is not seen by
\* anybody before it commits, so it is not represented.
Enqueue(u, d) ==
    /\ holder[u] = None
    /\ state' = EnqueuedState([x \in {u} |-> d])
    /\ event' = EnqueuedEvent([x \in {u} |-> d])
    /\ UNCHANGED holder
-----------------------------------------------------------------------------
(* Requests *)

\* POST /drivers/online: eligibility is read, then Redis is written, and the
\* status published at the end.
GoOnline(s, u) ==
    /\ pc[s] = "idle" /\ Change
    /\ standing[u] = "offline"
    /\ online' = [online EXCEPT ![u] = TRUE]
    /\ Goto(s, "publish") /\ job' = [job EXCEPT ![s] = <<u, "online">>]
    /\ UNCHANGED <<standing, rows, batch, marks, snap, remote, faults>>

\* POST /drivers/offline.
GoOffline(s, u) ==
    /\ pc[s] = "idle" /\ Change
    /\ online' = [online EXCEPT ![u] = FALSE]
    /\ Goto(s, "publish") /\ job' = [job EXCEPT ![s] = <<u, "offline">>]
    /\ UNCHANGED <<standing, rows, batch, marks, snap, remote, faults>>

Publish(s) ==
    /\ pc[s] = "publish"
    /\ Enqueue(job[s][1], job[s][2])
    /\ Goto(s, "idle") /\ job' = [job EXCEPT ![s] = NoJob]
    /\ UNCHANGED <<facts, batch, marks, snap, remote, counts>>

\* The request fails after its call to Redis: nothing is published.
Fail(s) ==
    /\ pc[s] = "publish" /\ Fault
    /\ Goto(s, "idle") /\ job' = [job EXCEPT ![s] = NoJob]
    /\ UNCHANGED <<facts, rows, batch, marks, snap, remote, changes>>

\* A review of the profile or of the vehicle: the new standing and its event
\* are committed together.
Review(s, u, st) ==
    /\ pc[s] = "idle" /\ Change
    /\ standing' = [standing EXCEPT ![u] = st]
    /\ Enqueue(u, st)
    /\ UNCHANGED <<online, pc, local, remote, faults>>

\* Nothing is published when the markers expire, when a ride takes the driver
\* out of the pool, and when its end brings the driver back (release_driver).
MoveMarkers(u) ==
    /\ Change
    /\ online' = [online EXCEPT ![u] = ~@]
    /\ UNCHANGED <<standing, rows, pc, local, remote, faults>>
-----------------------------------------------------------------------------
(* Workers: delivery *)

Recorded == UNION {{u} \X (1 .. Len(event[u])) : u \in Users}
\* Mutant: an event is tried once.
NeverTried == {e \in Recorded : event[e[1]][e[2]].status = "pending"}
Unsent == {e \in Recorded : event[e[1]][e[2]].status \in {"pending", "retry"}}
Taken == UNION {batch[w] \cup {<<m[1], m[2]>> : m \in marks[w]} : w \in Workers}
           \cup {<<job[w][1], job[w][2]>> : w \in {x \in Workers : pc[x] = "mark"}}

\* list_due: the unsent events that no other worker has locked (SKIP LOCKED),
\* without those whose backoff has not passed.
Poll(w, due) ==
    /\ pc[w] = "idle"
    /\ due # {} /\ due \subseteq Unsent \ Taken
    /\ \A e \in Unsent \ Taken : event[e[1]][e[2]].status = "pending" => e \in due
    /\ Goto(w, "deliver") /\ batch' = [batch EXCEPT ![w] = due]
    /\ UNCHANGED <<facts, rows, job, marks, snap, remote, counts>>

\* The order of a batch is that of next_attempt_at: new events as they were
\* published, those tried before anywhere.
InTurn(w, u, i) ==
    \A e \in batch[w] :
        (e[1] = u /\ e[2] < i) => "retry" \in {event[u][i].status, event[u][e[2]].status}

\* External: DiddiFreeID takes a version that is not older than the one it shows.
Accepts(u, e) == known[u] /\ e.version >= shown[u].version
Shows(u, e) == shown' = [shown EXCEPT ![u] = [version |-> e.version, status |-> e.desired]]

\* send_driver_status, and the outcome deliver_due makes of the answer.
Send(w, u, i, outcome) ==
    /\ pc[w] = "deliver" /\ <<u, i>> \in batch[w] /\ InTurn(w, u, i)
    /\ LET e == event[u][i] IN
       \/ /\ outcome = "succeeded" /\ Accepts(u, e)
          /\ Shows(u, e) /\ UNCHANGED faults
       \/ /\ outcome = "conflict" /\ known[u] /\ ~Accepts(u, e)
          /\ UNCHANGED <<shown, faults>>
       \/ /\ outcome = "dead_letter" /\ ~known[u]
          /\ UNCHANGED <<shown, faults>>
       \/ /\ outcome = "retry" /\ Fault
          /\ (UNCHANGED shown \/ (Accepts(u, e) /\ Shows(u, e)))  \* the answer is lost
    /\ Goto(w, "mark")
    /\ job' = [job EXCEPT ![w] = <<u, i, outcome>>]
    /\ batch' = [batch EXCEPT ![w] = @ \ {<<u, i>>}]
    /\ UNCHANGED <<facts, rows, marks, snap, known, changes>>

\* mark_succeeded, mark_retry, mark_conflict, mark_dead_letter: the event is
\* locked already, the state row is locked now.
Mark(w) ==
    /\ pc[w] = "mark"
    /\ holder[job[w][1]] \in {w, None}
    /\ holder' = [holder EXCEPT ![job[w][1]] = w]
    /\ marks' = [marks EXCEPT ![w] = @ \cup {job[w]}]
    /\ Goto(w, "deliver") /\ job' = [job EXCEPT ![w] = NoJob]
    /\ UNCHANGED <<facts, state, event, batch, snap, remote, counts>>

\* What the batch makes of an event, and of a state whose last event it is.
Outcome(w, u, i, before) ==
    IF \E o \in Outcomes : <<u, i, o>> \in marks[w]
    THEN CHOOSE o \in Outcomes : <<u, i, o>> \in marks[w]
    ELSE before
MarkedEvent(w) ==
    [u \in Users |-> [i \in 1 .. Len(event[u]) |->
        Event(event[u][i].desired, event[u][i].version, Outcome(w, u, i, event[u][i].status))]]
\* Mutant: the state takes the outcome of any event of the batch.
TakesAnyOutcome(w) ==
    [u \in Users |-> State(state[u].desired, state[u].version, state[u].last,
        IF \E m \in marks[w] : m[1] = u
        THEN (CHOOSE m \in marks[w] : m[1] = u)[3]
        ELSE state[u].sync)]
MarkedState(w) ==
    [u \in Users |-> State(state[u].desired, state[u].version, state[u].last,
                           Outcome(w, u, state[u].last, state[u].sync))]

Released(w) == [u \in Users |-> IF holder[u] = w THEN None ELSE holder[u]]

CommitBatch(w) ==
    /\ pc[w] = "deliver" /\ batch[w] = {}
    /\ event' = MarkedEvent(w) /\ state' = MarkedState(w)
    /\ holder' = Released(w)
    /\ marks' = [marks EXCEPT ![w] = {}]
    /\ Goto(w, "idle")
    /\ UNCHANGED <<facts, job, batch, snap, remote, counts>>

\* The process dies, or PostgreSQL aborts the session (two workers that lock the
\* states of two drivers in opposite orders): what was sent is not marked, and
\* will be sent again.
Crash(w) ==
    /\ pc[w] # "idle" /\ Fault
    /\ Goto(w, "idle") /\ job' = [job EXCEPT ![w] = NoJob]
    /\ holder' = Released(w)
    /\ batch' = [batch EXCEPT ![w] = {}] /\ marks' = [marks EXCEPT ![w] = {}]
    /\ snap' = [snap EXCEPT ![w] = NoSnap]
    /\ UNCHANGED <<facts, state, event, remote, changes>>
-----------------------------------------------------------------------------
(* Workers: reconciliation *)

\* list_candidates and _candidate_status.
Scan(w) ==
    /\ pc[w] = "idle"
    /\ Goto(w, "look") /\ snap' = [snap EXCEPT ![w] = standing]
    /\ UNCHANGED <<facts, rows, job, batch, marks, remote, counts>>

\* is_online_and_available of every candidate.
Look(w) ==
    /\ pc[w] = "look"
    /\ Goto(w, "reconcile")
    /\ snap' = [snap EXCEPT ![w] =
                   [u \in Users |-> IF @[u] = "offline" /\ online[u] THEN "online" ELSE @[u]]]
    /\ UNCHANGED <<facts, rows, job, batch, marks, remote, counts>>

\* reconcile: every candidate is enqueued, and the states of old, which have
\* succeeded long ago and are not locked, get their last event sent again.
Reconcile(w, old) ==
    /\ pc[w] = "reconcile"
    /\ \A u \in Users : holder[u] = None
    /\ old \subseteq {u \in Users \ News(snap[w]) : state[u].sync = "succeeded"}
    /\ state' = [u \in Users |-> IF u \in old
                                 THEN State(state[u].desired, state[u].version, state[u].last, "pending")
                                 ELSE EnqueuedState(snap[w])[u]]
    /\ event' = [u \in Users |-> IF u \in old
                                 THEN [event[u] EXCEPT ![state[u].last] = Event(@.desired, @.version, "pending")]
                                 ELSE EnqueuedEvent(snap[w])[u]]
    /\ Goto(w, "idle") /\ snap' = [snap EXCEPT ![w] = NoSnap]
    /\ UNCHANGED <<facts, holder, job, batch, marks, remote, counts>>

\* External: the user signs up at DiddiFreeID.
Register(u) ==
    /\ ~known[u]
    /\ known' = [known EXCEPT ![u] = TRUE]
    /\ UNCHANGED <<facts, rows, pc, local, shown, counts>>
-----------------------------------------------------------------------------
RequestStep(s) ==
    \/ \E u \in Users :
          GoOnline(s, u) \/ GoOffline(s, u) \/ \E st \in Standings : Review(s, u, st)
    \/ Publish(s) \/ Fail(s)

PollAny(w) == \E due \in SUBSET Unsent : Poll(w, due)
SendAny(w) == \E e \in batch[w], outcome \in Outcomes : Send(w, e[1], e[2], outcome)
ReconcileAny(w) == \E old \in SUBSET Users : Reconcile(w, old)

WorkerStep(w) ==
    \/ PollAny(w) \/ SendAny(w) \/ Mark(w) \/ CommitBatch(w) \/ Crash(w)
    \/ Scan(w) \/ Look(w) \/ ReconcileAny(w)

Next ==
    \/ \E s \in Requests : RequestStep(s)
    \/ \E w \in Workers : WorkerStep(w)
    \/ \E u \in Users : MoveMarkers(u) \/ Register(u)

Spec == Init /\ [][Next]_vars

\* The loop goes on; a retry comes due, and locks are handed over in turn.
PollLast(w, u) ==
    \E due \in SUBSET Unsent : <<u, state[u].last>> \in due /\ Poll(w, due)
Fairness ==
    /\ \A u \in Users : SF_vars(\E w \in Workers : PollLast(w, u))
    /\ \A w \in Workers :
          /\ WF_vars(SendAny(w)) /\ SF_vars(Mark(w)) /\ WF_vars(CommitBatch(w))
          /\ SF_vars(Scan(w)) /\ WF_vars(Look(w)) /\ SF_vars(ReconcileAny(w))

FairSpec == Spec /\ Fairness
-----------------------------------------------------------------------------
(* Properties *)

\* A projection recorded as synchronised is the one DiddiFreeID shows: no late
\* answer to an older event, no crash and no second worker makes the state row
\* claim a delivery of its last event that did not happen.
SyncedIsShown ==
    \A u \in Users : state[u].sync = "succeeded" =>
        shown[u] = [version |-> state[u].version, status |-> state[u].desired]

\* DiddiFreeID never refuses the last event of a driver as out of date (409):
\* a conflict, which nothing repairs, can only meet an event that has been
\* superseded.
LastIsNeverRefused ==
    \A u \in Users : state[u].sync # "conflict"

\* DiddiFreeID shows published statuses only, in the order of their
\* publication, whatever is sent late, twice or again.
View == INSTANCE CapabilityView WITH
    published <- [u \in Users |-> [i \in 1 .. Len(event[u]) |-> event[u][i].desired]],
    seen <- [u \in Users |-> shown[u].version]
NeverGoesBack == View!Spec

\* Once nothing changes any more, DiddiFreeID comes to show what the driver's
\* rows and markers say, even after a lost publication, a stale reconciliation,
\* a lost answer or a crash; except for a user whose last event was parked
\* because DiddiFreeID did not know him.
Current(u) == IF standing[u] = "offline" /\ online[u] THEN "online" ELSE standing[u]
ComesToShow ==
    \A u \in Users : <>[](state[u].sync = "dead_letter" \/ shown[u].status = Current(u))
=============================================================================
