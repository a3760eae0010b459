------------------------------ MODULE RideLifecycle ------------------------------
(***************************************************************************)
(* One ride, from modules/ride: the handlers that change its row, run by    *)
(* several database sessions at once.                                       *)
(*                                                                          *)
(* Every handler works the same way.  It loads the ride into a domain       *)
(* object and checks it (no lock); it changes the object; repositories.py   *)
(* save reads the row AGAIN, copies every attribute of the object onto it,  *)
(* and the UPDATE that follows, which waits for the row lock, sets the      *)
(* columns that differ from that second reading.  Nothing compares the      *)
(* first reading with the row.                                              *)
(***************************************************************************)
EXTENDS Integers, FiniteSets

CONSTANTS
    Sessions,
    Requests,     \* the requests the sessions make, among AllRequests
    Supplements,  \* the supplements the driver may propose, one unit each
    MaxAttempts,  \* ride_start_code_max_attempts
    MaxWaits,     \* bound: waits of a ride
    MaxFare,      \* bound: units added to the quoted fare
    MaxOverlaps,  \* bound: starts of a handler beside one it is not kept together with
    Nobody

VARIABLES
    ride,     \* the committed row
    holder,   \* the session that has locked the row
    draft,    \* the row as the holder has updated it
    decided,  \* the committed status of each supplement
    history,  \* the committed ride_status_history, as <<from, to>>
    pc, op,   \* the step each session is at, and the request it serves
    snap,     \* the ride it has loaded
    base,     \* the row that save has read again
    choice,   \* the supplement it writes, with its status
    notes,    \* the history it inserts
    overlaps  \* history: starts of a handler beside one it is not kept together with

vars == <<ride, holder, draft, decided, history, pc, op, snap, base, choice, notes, overlaps>>

States == INSTANCE RideStates WITH status <- ride["status"]
RideStatus == States!RideStatus
Cancelled == States!Cancelled
Allowed == States!Allowed
Running == {"in_progress", "waiting"}

\* A request is <<handler, what it leads to>>.
AllRequests ==
    {<<"accept", "matched">>, <<"giveup", "no_driver_found">>, <<"arrive", "arrived">>,
     <<"start", "in_progress">>, <<"wrong", "arrived">>, <<"noshow", "cancelled_by_driver">>,
     <<"wait", "waiting">>, <<"resume", "in_progress">>, <<"ask", "early">>,
     <<"confirm", "completed">>, <<"propose", "pending">>, <<"touch", "nothing">>}
    \cup ({"decide"} \X {"accepted", "disputed"})
    \cup ({"cancel"} \X Cancelled)
    \cup ({"patch"} \X RideStatus)

ASSUME RideAssumption ==
    /\ Nobody \notin Sessions \cup Supplements
    /\ IsFiniteSet(Supplements)
    /\ Requests \subseteq AllRequests
    /\ MaxAttempts \in Nat /\ MaxWaits \in Nat /\ MaxFare \in Nat /\ MaxOverlaps \in Nat

\* Every handler may run beside every other.  These keep all the properties
\* below when they do: a proposal, beside a decision or a change of a ride
\* under way, and some beside their like.  Any other overlap can lose an
\* update; overlaps counts them.
Touching == {"wait", "resume", "touch", "ask"}
KeptTogether ==
    {{"propose", "decide"}, {"propose"} \cup Touching, {"propose", "confirm"},
     {"arrive"}, {"start"}, {"noshow"}}

KeepsBeside(g, h) == \E kept \in KeptTogether : {g, h} \subseteq kept

Fields == {"status", "driver", "coded", "used", "attempts", "timed", "waits", "total",
           "early", "fare"}
NoFare == -1

\* driver: driver_id is set; coded, used, attempts: the start code; timed:
\* waiting_started_at is set; waits: waiting_fee; total: supplements_total;
\* early: early_stop_requested_at is set; fare: final_fare less the quote.
IsRow(r) ==
    /\ DOMAIN r = Fields
    /\ r["status"] \in RideStatus
    /\ \A f \in {"driver", "coded", "used", "timed", "early"} : r[f] \in BOOLEAN
    /\ \A f \in {"attempts", "waits", "total"} : r[f] \in Nat
    /\ r["fare"] \in Nat \cup {NoFare}

Opening ==
    [f \in Fields |->
        CASE f = "status"                         -> "requested"
          [] f \in {"driver", "coded", "used", "timed", "early"} -> FALSE
          [] f \in {"attempts", "waits", "total"} -> 0
          [] f = "fare"                           -> NoFare]

NoRequest == <<"none", "none">>
NoChoice == <<Nobody, "none">>

TypeOK ==
    /\ IsRow(ride) /\ IsRow(draft)
    /\ holder \in Sessions \cup {Nobody}
    /\ decided \in [Supplements -> {"absent", "pending", "accepted", "disputed"}]
    /\ history \subseteq RideStatus \X RideStatus
    /\ pc \in [Sessions -> {"idle", "save", "update", "decide", "commit"}]
    /\ op \in [Sessions -> Requests \cup {NoRequest}]
    /\ \A s \in Sessions :
          /\ IsRow(snap[s]) /\ IsRow(base[s])
          /\ choice[s][1] \in Supplements \cup {Nobody}
          /\ notes[s] \subseteq RideStatus \X RideStatus
    /\ overlaps \in Nat

Init ==
    /\ ride = Opening /\ holder = Nobody /\ draft = Opening
    /\ decided = [x \in Supplements |-> "absent"]
    /\ history = {}
    /\ pc = [s \in Sessions |-> "idle"]
    /\ op = [s \in Sessions |-> NoRequest]
    /\ snap = [s \in Sessions |-> Opening]
    /\ base = [s \in Sessions |-> Opening]
    /\ choice = [s \in Sessions |-> NoChoice]
    /\ notes = [s \in Sessions |-> {}]
    /\ overlaps = 0

----------------------------------------------------------------------------
(* What a handler checks of the ride it has loaded, and makes of it. *)

\* Mutant: the status is assigned without a look at the graph.
FollowsAnything(r, st) == TRUE

\* transition(): no-op to the same status, an error outside the graph.
Follows(r, st) == st = r["status"] \/ st \in Allowed[r["status"]]

\* Mutant: PATCH may start a ride.
PatchStarts(r, st) ==
    /\ Follows(r, st)
    /\ ~(st = "completed" /\ r["status"] = "completed")
    /\ st = "completed" /\ r["status"] = "waiting" => r["timed"]

\* update_status, the PATCH route: it starts no ride, and completing a
\* waiting ride stops the wait first.
PatchAdmits(r, st) ==
    /\ st # "in_progress" /\ Follows(r, st)
    /\ ~(st = "completed" /\ r["status"] = "completed")
    /\ st = "completed" /\ r["status"] = "waiting" => r["timed"]

Admits(o, r) ==
    LET st == r["status"]
    IN  \/ o[1] \in {"accept", "giveup"} /\ st = "requested"
        \/ o[1] = "arrive" /\ st = "driver_en_route"
        \/ /\ o[1] \in {"start", "wrong"} /\ st = "arrived"
           /\ ~r["used"] /\ r["attempts"] < MaxAttempts
           /\ o[1] = "start" => r["coded"]
        \/ o[1] = "noshow" /\ st = "arrived" /\ r["coded"]
        \/ o[1] = "wait" /\ st = "in_progress"
        \/ o[1] = "resume" /\ st = "waiting" /\ r["timed"]
        \/ o[1] \in {"ask", "propose", "decide"} /\ st \in Running
        \/ o[1] = "confirm" /\ st \in Running /\ r["early"] /\ (st = "waiting" => r["timed"])
        \/ o[1] = "cancel" /\ Allowed[st] # {} /\ (st = "waiting" => r["timed"])
        \/ o[1] = "patch" /\ PatchAdmits(r, o[2])
        \/ o[1] = "touch"

\* _stop_waiting: the wait is billed, the ride goes on.
Stopped(r) ==
    [r EXCEPT !["status"] = "in_progress", !["timed"] = FALSE, !["waits"] = @ + 1]

\* Mutant: the supplements are left out of the final fare.
BilledWaits(o, r) == [r EXCEPT !["status"] = "completed", !["fare"] = r["waits"]]

\* The final fare of a completed ride: the extras come on top of what
\* final_fare holds already, or of the real price of an early stop.
Billed(o, r) ==
    [r EXCEPT !["status"] = "completed",
              !["fare"] = r["waits"] + r["total"]
                          + IF @ = NoFare \/ o[1] = "confirm" THEN 0 ELSE @]

Led(o, r) == [r EXCEPT !["status"] = o[2]]
After(o, r) ==
    CASE o[1] = "accept" -> [r EXCEPT !["status"] = o[2], !["driver"] = TRUE]
      [] o[1] = "arrive" -> [r EXCEPT !["status"] = o[2], !["coded"] = TRUE]
      [] o[1] = "start"  -> [r EXCEPT !["status"] = o[2], !["used"] = TRUE]
      [] o[1] = "wrong"  -> [r EXCEPT !["attempts"] = @ + 1]
      [] o[1] = "wait"   -> [r EXCEPT !["status"] = o[2], !["timed"] = TRUE]
      [] o[1] = "resume" -> Stopped(r)
      [] o[1] = "ask"    -> [r EXCEPT !["early"] = TRUE]
      [] o[1] = "cancel" -> Led(o, IF r["status"] = "waiting" THEN Stopped(r) ELSE r)
      [] o[2] = "completed" -> Billed(o, r)
      [] o[1] \in {"giveup", "noshow", "patch"} /\ o[2] # "completed" -> Led(o, r)
      [] OTHER -> r

\* The handlers that write ride_status_history; cancel and the waits do not.
Recorded == {"accept", "giveup", "arrive", "start", "noshow", "confirm", "patch"}

\* Mutant: the end of an early stop is not written.
NoteNoStop(o, from) ==
    IF o[1] \in Recorded \ {"confirm"} /\ o[2] # from THEN {<<from, o[2]>>} ELSE {}

Note(o, from) ==
    IF o[1] \in Recorded /\ o[2] # from THEN {<<from, o[2]>>} ELSE {}

\* save: the columns that differ from the second reading are written.
Merge(new, old, row) == [f \in Fields |-> IF new[f] # old[f] THEN new[f] ELSE row[f]]

----------------------------------------------------------------------------
View(s) == IF holder = s THEN draft ELSE ride

\* Mutant: SELECT without FOR UPDATE.
RowUnlocked(s) == TRUE
RowFree(s) == holder \in {s, Nobody}
Goto(s, step) == pc' = [pc EXCEPT ![s] = step]
Bounded(r) == r["waits"] <= MaxWaits /\ r["fare"] <= MaxFare

Reset(s) ==
    /\ Goto(s, "idle")
    /\ op' = [op EXCEPT ![s] = NoRequest]
    /\ snap' = [snap EXCEPT ![s] = Opening]
    /\ base' = [base EXCEPT ![s] = Opening]
    /\ choice' = [choice EXCEPT ![s] = NoChoice]
    /\ notes' = [notes EXCEPT ![s] = {}]

\* The handler loads the ride and finds that it may go on.
Load(s, o) ==
    /\ pc[s] = "idle" /\ Admits(o, ride)
    /\ overlaps' = overlaps + IF \A u \in Sessions : pc[u] # "idle" => KeepsBeside(o[1], op[u][1])
                              THEN 0 ELSE 1
    /\ overlaps' <= MaxOverlaps
    /\ op' = [op EXCEPT ![s] = o]
    /\ snap' = [snap EXCEPT ![s] = ride]
    /\ \/ o[1] \notin {"propose", "decide"} /\ Goto(s, "save") /\ UNCHANGED choice
       \/ \E x \in Supplements :
             /\ \/ /\ o[1] = "propose" /\ decided[x] = "absent" /\ Goto(s, "commit")
                   /\ \A u \in Sessions : choice[u][1] # x
                \/ o[1] = "decide" /\ decided[x] # "absent" /\ Goto(s, "decide")
             /\ choice' = [choice EXCEPT ![s] = <<x, o[2]>>]
    /\ UNCHANGED <<ride, holder, draft, decided, history, base, notes>>

\* save reads the row again ...
Save(s) ==
    /\ pc[s] = "save"
    /\ base' = [base EXCEPT ![s] = View(s)]
    /\ Goto(s, "update")
    /\ UNCHANGED <<ride, holder, draft, decided, history, op, snap, choice, notes, overlaps>>

\* ... and updates it.
Update(s) ==
    LET o == op[s]
        waited == snap[s]["status"] = "waiting"
        two == waited /\ o[2] = "completed"
        first == Merge(IF two THEN Stopped(snap[s]) ELSE After(o, snap[s]), base[s], View(s))
        row == \* a wait stopped first is a save of its own: completion then
               \* loads the ride again, a cancellation saves its object again
               IF two THEN Billed(o, first)
               ELSE IF waited /\ o[1] = "cancel" THEN After(o, snap[s]) ELSE first
    IN  /\ pc[s] = "update" /\ RowFree(s)
        /\ two => Follows(first, "completed")
        /\ Bounded(row)
        /\ holder' = s /\ draft' = row
        /\ notes' = [notes EXCEPT ![s] =
                        Note(o, IF two THEN first["status"] ELSE snap[s]["status"])]
        /\ Goto(s, "commit")
        /\ UNCHANGED <<ride, decided, history, op, snap, base, choice, overlaps>>

\* Mutant: the supplement is decided from what was read before the lock.
PendingOnce(s) == TRUE

\* The supplement is read under the lock: it must still be pending.
StillPending(s) == decided[choice[s][1]] = "pending"

\* decide_supplement: the row is locked, the supplement read and marked, the
\* total computed, and the loaded ride saved over the row.
Decide(s) ==
    LET x == choice[s][1]
        accepted == {y \in Supplements \ {x} : decided[y] = "accepted"}
                    \cup {y \in {x} : choice[s][2] = "accepted"}
    IN  /\ pc[s] = "decide" /\ RowFree(s)
        /\ StillPending(s)
        /\ holder' = s
        /\ draft' = [snap[s] EXCEPT !["total"] = Cardinality(accepted)]
        /\ Goto(s, "commit")
        /\ UNCHANGED <<ride, decided, history, op, snap, base, choice, notes, overlaps>>

Commit(s) ==
    /\ pc[s] = "commit"
    /\ ride' = View(s)
    /\ holder' = IF holder = s THEN Nobody ELSE holder
    /\ draft' = IF holder = s THEN Opening ELSE draft
    /\ decided' = [x \in Supplements |-> IF x = choice[s][1] THEN choice[s][2] ELSE decided[x]]
    /\ history' = history \cup notes[s]
    /\ Reset(s)
    /\ UNCHANGED overlaps

\* An error after the checks, a crash, a connection lost: the rollback.
Abort(s) ==
    /\ pc[s] # "idle"
    /\ holder' = IF holder = s THEN Nobody ELSE holder
    /\ draft' = IF holder = s THEN Opening ELSE draft
    /\ Reset(s)
    /\ UNCHANGED <<ride, decided, history, overlaps>>

Next ==
    \E s \in Sessions :
        \/ \E o \in Requests : Load(s, o)
        \/ Save(s) \/ Update(s) \/ Decide(s) \/ Commit(s) \/ Abort(s)

Spec == Init /\ [][Next]_vars
----------------------------------------------------------------------------
(* Properties.  Those about the columns of the row hold until two handlers   *)
(* run beside one another that are not kept together.                        *)

Accepted == {x \in Supplements : decided[x] = "accepted"}

\* The status follows the graph of RideStates, whatever handlers are called
\* in whatever order.
StateMachine == States!Init /\ [][overlaps' = 0 => States!Next]_(ride["status"])

\* A completed ride is billed its waits and its accepted supplements, all of
\* them, once ("devis fige + attentes + supplements acceptes").
FareCoversExtras ==
    overlaps = 0 /\ ride["status"] = "completed"
        => ride["fare"] = ride["waits"] + Cardinality(Accepted)

\* Two decisions at once do not lose one another's amount: "serialize
\* decisions for one ride so two accepted proposals cannot overwrite the
\* aggregate fare total" (find_supplement_for_update).  Only the commit of a
\* decision is judged: another handler may save an older total afterwards.
TotalCountsDecisions ==
    [][Accepted' # Accepted => ride'["total"] = Cardinality(Accepted')]_vars

\* A supplement the passenger has accepted or disputed stays so.
DecisionIsFinal ==
    [][\A x \in Supplements :
          decided[x] \in {"accepted", "disputed"} => decided'[x] = decided[x]]_vars

\* A ride that runs, waits or is completed was started with the passenger's
\* code, made when the driver arrived and given within the attempts allowed,
\* whatever else PATCH /status, the waits and the saves of older rows did.
StartedWithCode ==
    overlaps = 0 /\ ride["status"] \in Running \cup {"completed"}
        => ride["coded"] /\ ride["used"] /\ ride["attempts"] < MaxAttempts

\* The audit of a ride (ride_status_history) has the step that led to every
\* status its handlers record.  Cancellations and waits are not recorded,
\* and a wait stopped by a completion must not hide the completion.
StepIsRecorded ==
    overlaps = 0 /\ ride["status"] \notin Running \cup Cancelled \cup {"requested"}
        => \E h \in history : h[2] = ride["status"] /\ h[1] # h[2]
=============================================================================
