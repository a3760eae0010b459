------------------------------ MODULE MatchingProofs ------------------------------
(***************************************************************************)
(* Proofs about Matching, for any rides, drivers, sessions, timers and       *)
(* requests, whatever runs beside what and whatever fails: the index leaves  *)
(* a driver one active ride; until requests have overlapped that are not     *)
(* kept together a wave asks new drivers only, and a ride that is over       *)
(* leaves nothing behind, but where PATCH has set its status.                *)
(***************************************************************************)
EXTENDS Matching, TLAPS

\* A session that holds the row of a ride works on that ride; until it writes,
\* it has created the ride and nothing more.
Holds(r, s) ==
    /\ Ride(s) = r
    /\ pc[s] \in {"match", "open", "notify", "read", "write", "close", "clear", "commit"}
    /\ pc[s] \in {"match", "open", "notify"} => Op(s) = "create"
    /\ pc[s] \in {"read", "write"} => Op(s) = "giveup"
    /\ pc[s] \in {"match", "open", "notify", "read", "write"} => draft[r] = Row("requested", Nobody)
    /\ pc[s] = "write" => base[s] = Row("requested", Nobody)
Locking == \A r \in Rides, s \in Actors : holder[r] = s => Holds(r, s)

\* No two rides, committed or about to be, are active with the same driver.
Apart ==
    \A q, r \in Rides : q # r =>
        /\ Active(row[q]) => row[q] # row[r]
        /\ holder[q] # Nobody /\ Active(draft[q]) =>
              draft[q] # row[r] /\ (holder[r] # Nobody => draft[q] # draft[r])

IInv == TypeOK /\ Locking /\ Apart

----------------------------------------------------------------------------
(* Rows and jobs. *)

\* A row is made of a status and a driver.
LEMMA RowType ==
  ASSUME NEW st \in Statuses, NEW d \in Drivers \cup {Nobody}
  PROVE  Row(st, d) \in Rows /\ Row(st, d)["status"] = st /\ Row(st, d)["driver"] = d
BY DEF Row, Rows

LEMMA RowParts ==
  ASSUME NEW x \in Rows
  PROVE  /\ x["status"] \in Statuses /\ x["driver"] \in Drivers \cup {Nobody}
         /\ x = Row(x["status"], x["driver"])
BY DEF Row, Rows

LEMMA NoRowType == NoRow \in Rows
BY RowType DEF NoRow, Statuses

LEMMA JobType ==
  ASSUME NEW op \in AllRequests \cup {"none", "expire", "giveup"}, NEW r \in Rides,
         NEW d \in Drivers \cup {Nobody}
  PROVE  /\ <<op, r, d>> \in Jobs /\ <<op, r, d>>[1] = op
         /\ <<op, r, d>>[2] = r /\ <<op, r, d>>[3] = d
BY DEF Jobs

LEMMA NoJobType ==
  /\ NoJob(CHOOSE r \in Rides : TRUE) \in Jobs
  /\ NoJob(CHOOSE r \in Rides : TRUE)[1] = "none"
<1> DEFINE q == CHOOSE r \in Rides : TRUE
<1>1. q \in Rides
  BY MatchingAssumption
<1> HIDE DEF q
<1>2. <<"none", q, Nobody>> \in Jobs /\ <<"none", q, Nobody>>[1] = "none"
  BY <1>1 DEF Jobs
<1> QED BY <1>2 DEF NoJob, q

\* What an update writes is a row.
LEMMA SavedType ==
  ASSUME TypeOK, NEW s \in Actors, Op(s) \in Savers
  PROVE  Saved(s) \in Rows
<1> DEFINE st == CASE Op(s) \in {"accept", "set_matched"}         -> "matched"
                   [] Op(s) \in {"giveup", "set_no_driver_found"} -> "no_driver_found"
                   [] Op(s) \in {"cancel", "set_cancelled"}       -> "cancelled"
                   [] Op(s) = "complete"                          -> "completed"
           dr == IF Op(s) = "accept" THEN Driver(s) ELSE snap[s]["driver"]
           new == Row(st, dr)
           a == IF new["status"] # base[s]["status"] THEN new["status"] ELSE View(s)["status"]
           b == IF new["driver"] # base[s]["driver"] THEN new["driver"] ELSE View(s)["driver"]
<1>1. View(s) \in Rows /\ snap[s] \in Rows /\ job[s] \in Jobs
  BY DEF TypeOK, View, Jobs, Ride
<1>2. st \in Statuses
  BY DEF Savers, Patching, Statuses
<1>3. dr \in Drivers \cup {Nobody}
  BY <1>1, RowParts DEF Jobs, Driver
<1> HIDE DEF st, dr
<1>4. new["status"] = st /\ new["driver"] = dr /\ DOMAIN new = {"status", "driver"}
  BY DEF Row
<1> HIDE DEF new
<1>5. a \in Statuses /\ b \in Drivers \cup {Nobody}
  BY <1>1, <1>2, <1>3, <1>4, RowParts
<1>6. Row(a, b) = [c \in DOMAIN new |-> IF new[c] # base[s][c] THEN new[c] ELSE View(s)[c]]
  BY <1>4 DEF Row
<1>7. Saved(s) = [c \in DOMAIN new |-> IF new[c] # base[s][c] THEN new[c] ELSE View(s)[c]]
  BY DEF Saved, new, st, dr
<1> HIDE DEF a, b
<1> QED BY <1>5, <1>6, <1>7, RowType

----------------------------------------------------------------------------
(* The initial states. *)

LEMMA InitInv == Init => IInv
<1> SUFFICES ASSUME Init PROVE IInv
  OBVIOUS
<1> DEFINE none == NoJob(CHOOSE r \in Rides : TRUE)
<1>1. none \in Jobs /\ none[1] = "none"
  BY NoJobType
<1> HIDE DEF none
<1>2. /\ row \in [Rides -> Rows] /\ draft \in [Rides -> Rows]
      /\ snap \in [Actors -> Rows] /\ base \in [Actors -> Rows]
  BY NoRowType DEF Init
<1>3. job = [s \in Actors |-> none]
  BY DEF Init, none
<1>4. \A s \in Actors : job[s] = none /\ pc[s] = "idle"
  BY <1>3 DEF Init
<1>5. TypeOK
  BY <1>1, <1>2, <1>3, <1>4, MatchingAssumption DEF Init, TypeOK
<1>6. Locking
  BY MatchingAssumption DEF Init, Locking
<1>7. \A r \in Rides : ~Active(row[r]) /\ holder[r] = Nobody
  <2>1. ~Active(NoRow)
    BY RowType DEF NoRow, Active, Statuses
  <2> QED BY <2>1 DEF Init
<1>8. Apart
  BY <1>7 DEF Apart
<1> QED BY <1>5, <1>6, <1>8 DEF IInv

----------------------------------------------------------------------------
(* Types. *)

\* The end of a request and the release of its locks keep the types.
LEMMA DoneType ==
  ASSUME TypeOK, NEW s \in Actors, Done(s)
  PROVE  /\ pc' \in [Actors -> {"idle", "claim", "refuse", "count", "match", "open", "notify",
                                "read", "write", "close", "clear", "commit"}]
         /\ job' \in [Actors -> Jobs]
         /\ snap' \in [Actors -> Rows] /\ base' \in [Actors -> Rows]
         /\ wave' \in [Actors -> SUBSET Drivers]
         /\ \A u \in Actors :
               /\ pc'[u] \in {"claim", "read", "write"} => job'[u][1] \in Savers
               /\ job'[u][1] \in {"accept", "decline"} => job'[u][3] \in Drivers
<1> DEFINE none == NoJob(CHOOSE r \in Rides : TRUE)
<1>1. none \in Jobs /\ none[1] = "none"
  BY NoJobType
<1>2. job' = [job EXCEPT ![s] = none]
  BY DEF Done
<1> HIDE DEF none
<1>3. pc' = [pc EXCEPT ![s] = "idle"] /\ snap' = [snap EXCEPT ![s] = NoRow]
      /\ base' = [base EXCEPT ![s] = NoRow] /\ wave' = [wave EXCEPT ![s] = {}]
  BY DEF Done, Goto
<1> QED BY <1>1, <1>2, <1>3, NoRowType DEF TypeOK

LEMMA UnlockType ==
  ASSUME TypeOK, NEW s \in Actors, Unlock(s)
  PROVE  holder' \in [Rides -> Actors \cup {Nobody}] /\ draft' \in [Rides -> Rows]
BY NoRowType DEF TypeOK, Unlock

\* A request starts with a row and a job.
LEMMA StartType ==
  ASSUME TypeOK, NEW s \in Actors, NEW op \in AllRequests \cup {"expire"}, NEW r \in Rides,
         NEW d \in Drivers \cup {Nobody}, NEW x \in Rows,
         NEW step \in {"claim", "refuse", "match", "read", "clear"},
         op \in {"accept", "decline"} => d \in Drivers,
         step \in {"claim", "read"} => op \in Savers,
         Start(s, op, r, d, x, step)
  PROVE  /\ pc' \in [Actors -> {"idle", "claim", "refuse", "count", "match", "open", "notify",
                                "read", "write", "close", "clear", "commit"}]
         /\ job' \in [Actors -> Jobs]
         /\ snap' \in [Actors -> Rows] /\ base' \in [Actors -> Rows]
         /\ wave' \in [Actors -> SUBSET Drivers] /\ faults' \in 0 .. MaxFaults
         /\ patched' \in SUBSET Rides /\ overlaps' \in 0 .. MaxOverlaps
         /\ \A u \in Actors :
               /\ pc'[u] \in {"claim", "read", "write"} => job'[u][1] \in Savers
               /\ job'[u][1] \in {"accept", "decline"} => job'[u][3] \in Drivers
<1> DEFINE new == <<op, r, d>>
<1>1. new \in Jobs /\ new[1] = op /\ new[3] = d
  BY JobType
<1>2. job' = [job EXCEPT ![s] = new] /\ pc' = [pc EXCEPT ![s] = step]
      /\ snap' = [snap EXCEPT ![s] = x] /\ UNCHANGED <<base, wave, faults, patched>>
  BY DEF Start, Goto
<1>3. overlaps' \in 0 .. MaxOverlaps
  <2>1. overlaps \in Nat /\ overlaps' \in {overlaps, overlaps + 1} /\ overlaps' <= MaxOverlaps
    BY DEF Start, TypeOK
  <2> QED BY <2>1, MatchingAssumption
<1> HIDE DEF new
<1> QED BY <1>1, <1>2, <1>3 DEF TypeOK

LEMMA TypeStep == IInv /\ [Next]_vars => TypeOK'
<1> SUFFICES ASSUME IInv, [Next]_vars PROVE TypeOK'
  OBVIOUS
<1> USE DEF IInv
<1>1. ASSUME NEW s \in Sessions, NEW r \in Rides, Create(s, r) PROVE TypeOK'
  <2>1. Row("requested", Nobody) \in Rows /\ s \in Actors
    BY RowType DEF Statuses, Actors
  <2>2. Start(s, "create", r, Nobody, Row("requested", Nobody), "match")
    BY <1>1 DEF Create
  <2> QED BY <1>1, <2>1, <2>2, StartType DEF TypeOK, Create, AllRequests, redis
<1>2. ASSUME NEW s \in Sessions, NEW r \in Rides, End(s, r) PROVE TypeOK'
  <2>1. s \in Actors /\ row[r] \in Rows
    BY DEF TypeOK, Actors
  <2>2. UNCHANGED <<database, redis, timers>>
    BY <1>2 DEF End
  <2>3. CASE Start(s, "cancel", r, Nobody, row[r], "read")
    BY <2>1, <2>2, <2>3, StartType DEF TypeOK, AllRequests, redis, database, Savers
  <2>4. CASE Start(s, "complete", r, Nobody, row[r], "read")
    BY <2>1, <2>2, <2>4, StartType DEF TypeOK, AllRequests, redis, database, Savers
  <2> QED BY <1>2, <2>3, <2>4 DEF End
<1>3. ASSUME NEW s \in Sessions, NEW r \in Rides, Retry(s, r) PROVE TypeOK'
  <2>1. s \in Actors /\ row[r] \in Rows
    BY DEF TypeOK, Actors
  <2> QED BY <1>3, <2>1, StartType DEF TypeOK, Retry, AllRequests, redis, database
<1>4. ASSUME NEW s \in Sessions, NEW r \in Rides, NEW d \in Drivers, Accept(s, r, d)
      PROVE  TypeOK'
  <2>1. s \in Actors /\ row[r] \in Rows
    BY DEF TypeOK, Actors
  <2> QED BY <1>4, <2>1, StartType DEF TypeOK, Accept, AllRequests, redis, database, Savers
<1>5. ASSUME NEW s \in Sessions, NEW r \in Rides, NEW d \in Drivers, Decline(s, r, d)
      PROVE  TypeOK'
  <2>1. s \in Actors /\ row[r] \in Rows
    BY DEF TypeOK, Actors
  <2> QED BY <1>5, <2>1, StartType DEF TypeOK, Decline, AllRequests, redis, database
<1>6. ASSUME NEW s \in Clocks, NEW r \in Rides, Fire(s, r) PROVE TypeOK'
  <2>1. s \in Actors /\ row[r] \in Rows
    BY DEF TypeOK, Actors
  <2>2. timers' \in [Rides -> Nat]
    BY <1>6 DEF TypeOK, Fire
  <2>3. CASE Start(s, "expire", r, Nobody, row[r], "match")
    BY <1>6, <2>1, <2>2, <2>3, StartType DEF TypeOK, Fire, AllRequests, redis, database
  <2>4. CASE UNCHANGED <<pc, local, past>>
    BY <1>6, <2>2, <2>4 DEF TypeOK, Fire, redis, database, local, past
  <2> QED BY <1>6, <2>3, <2>4 DEF Fire
<1>7. ASSUME NEW s \in Actors, Claim(s) PROVE TypeOK'
  <2>1. Ride(s) \in Rides /\ Driver(s) \in Drivers \cup {Nobody}
    BY DEF TypeOK, Jobs, Ride, Driver
  <2>2. CASE claim[Ride(s)] = Nobody
    BY <1>7, <2>1, <2>2 DEF TypeOK, Claim, Goto, local, database, past
  <2>3. CASE claim[Ride(s)] # Nobody
    BY <1>7, <2>1, <2>3, DoneType DEF TypeOK, Claim, local, database, past
  <2> QED BY <2>2, <2>3
<1>8. ASSUME NEW s \in Actors, Close(s) PROVE TypeOK'
  BY <1>8 DEF TypeOK, Close, Goto, local, database, past
<1>9. ASSUME NEW s \in Actors, Refuse(s) PROVE TypeOK'
  BY <1>9 DEF TypeOK, Refuse, Goto, local, database, past
<1>10. ASSUME NEW s \in Actors, Count(s) PROVE TypeOK'
  BY <1>10 DEF TypeOK, Count, Goto, local, database, redis, past
<1>11. ASSUME NEW s \in Actors, Match(s) PROVE TypeOK'
  <2>1. UNCHANGED <<database, redis, timers, snap, base, past>>
    BY <1>11 DEF Match
  <2>2. CASE /\ job' = [job EXCEPT ![s] = <<"giveup", Ride(s), Driver(s)>>]
             /\ Goto(s, "read") /\ UNCHANGED wave
    <3> DEFINE new == <<"giveup", Ride(s), Driver(s)>>
    <3>1. Ride(s) \in Rides /\ Driver(s) \in Drivers \cup {Nobody}
      BY DEF TypeOK, Jobs, Ride, Driver
    <3>2. new \in Jobs /\ new[1] = "giveup"
      BY <3>1, JobType
    <3>3. job' = [job EXCEPT ![s] = new]
      BY <2>2
    <3> HIDE DEF new
    <3> QED BY <2>1, <2>2, <3>2, <3>3 DEF TypeOK, Goto, database, redis, past, Savers
  <2>3. CASE Goto(s, "commit") /\ UNCHANGED <<job, wave>>
    BY <2>1, <2>3 DEF TypeOK, Goto, database, redis, past
  <2>4. CASE /\ \E w \in Waves(Ride(s)) : wave' = [wave EXCEPT ![s] = w]
             /\ Goto(s, "open") /\ UNCHANGED job
    <3>1. PICK w \in Waves(Ride(s)) : wave' = [wave EXCEPT ![s] = w]
      BY <2>4
    <3>2. w \in SUBSET Drivers
      BY DEF Waves, Nearby, TypeOK
    <3> QED BY <2>1, <2>4, <3>1, <3>2 DEF TypeOK, Goto, database, redis, past
  <2> QED BY <1>11, <2>2, <2>3, <2>4 DEF Match
<1>12. ASSUME NEW s \in Actors, Open(s) PROVE TypeOK'
  BY <1>12 DEF TypeOK, Open, Goto, local, database, past
<1>13. ASSUME NEW s \in Actors, Notify(s) PROVE TypeOK'
  <2>1. Ride(s) \in Rides
    BY DEF TypeOK, Jobs, Ride
  <2>2. timers' \in [Rides -> Nat]
    BY <1>13, <2>1 DEF TypeOK, Notify
  <2> QED BY <1>13, <2>2 DEF TypeOK, Notify, Goto, local, database, redis, past
<1>14. ASSUME NEW s \in Actors, Read(s) PROVE TypeOK'
  <2>1. View(s) \in Rows
    BY DEF TypeOK, View, Jobs, Ride
  <2> QED BY <1>14, <2>1 DEF TypeOK, Read, Goto, database, redis, past
<1>15. ASSUME NEW s \in Actors, Write(s) PROVE TypeOK'
  <2>1. Saved(s) \in Rows
    BY <1>15, SavedType DEF TypeOK, Write, Op
  <2> QED BY <1>15, <2>1 DEF TypeOK, Write, Goto, local, redis, past
<1>16. ASSUME NEW s \in Actors, Conflict(s) PROVE TypeOK'
  <2>1. Done(s) /\ claim' \in [Rides -> Drivers \cup {Nobody}]
    BY <1>16 DEF TypeOK, Conflict, Released
  <2> QED BY <1>16, <2>1, DoneType DEF TypeOK, Conflict, database, past
<1>17. ASSUME NEW s \in Actors, Clear(s) PROVE TypeOK'
  <2>1. View(s)["driver"] \in Drivers \cup {Nobody}
    BY RowParts DEF TypeOK, View, Jobs, Ride
  <2>2. Freed(s) \subseteq Drivers
    BY <2>1 DEF Freed
  <2> QED BY <1>17, <2>2 DEF TypeOK, Clear, Goto, local, database, past
<1>18. ASSUME NEW s \in Actors, Commit(s) PROVE TypeOK'
  <2>1. row' \in [Rides -> Rows]
    BY <1>18 DEF TypeOK, Commit
  <2>2. Done(s) /\ Unlock(s) /\ patched' \in SUBSET Rides
        /\ UNCHANGED <<redis, timers, faults, overlaps>>
    BY <1>18 DEF TypeOK, Commit
  <2> QED BY <2>1, <2>2, DoneType, UnlockType DEF TypeOK, redis
<1>19. ASSUME NEW s \in Actors, Fail(s) PROVE TypeOK'
  <2>1. claim' \in [Rides -> Drivers \cup {Nobody}]
    BY <1>19 DEF TypeOK, Fail, Released
  <2>2. faults' \in 0 .. MaxFaults
    BY <1>19, MatchingAssumption DEF TypeOK, Fail
  <2> QED BY <1>19, <2>1, <2>2, DoneType, UnlockType DEF TypeOK, Fail
<1>20. ASSUME NEW d \in Drivers, SwitchOn(d) \/ SwitchOff(d) PROVE TypeOK'
  BY <1>20 DEF TypeOK, SwitchOn, SwitchOff, local, database, past
<1>21. ASSUME NEW r \in Rides, Lapse(r) PROVE TypeOK'
  BY <1>21 DEF TypeOK, Lapse, local, database, past
<1>22. ASSUME Restart PROVE TypeOK'
  <2> DEFINE none == NoJob(CHOOSE r \in Rides : TRUE)
  <2>1. none \in Jobs /\ none[1] = "none"
    BY NoJobType
  <2>2. job' = [s \in Actors |-> none]
    BY <1>22 DEF Restart
  <2> HIDE DEF none
  <2>3. faults' \in 0 .. MaxFaults
    BY <1>22, MatchingAssumption DEF TypeOK, Restart
  <2> QED BY <1>22, <2>1, <2>2, <2>3, NoRowType DEF TypeOK, Restart, redis
<1>24. ASSUME NEW s \in Sessions, NEW r \in Rides, Patch(s, r) PROVE TypeOK'
  <2>1. s \in Actors /\ row[r] \in Rows
    BY DEF TypeOK, Actors
  <2>2. PICK op \in Patching : Start(s, op, r, Nobody, row[r], "read")
    BY <1>24 DEF Patch
  <2>3. /\ op \in AllRequests /\ op \in Savers /\ op \notin {"accept", "decline"}
        /\ UNCHANGED <<database, redis, timers>>
    BY <1>24 DEF AllRequests, Savers, Patching, Patch
  <2> QED BY <2>1, <2>2, <2>3, StartType DEF TypeOK, redis, database
<1>23. CASE UNCHANGED vars
  BY <1>23 DEF TypeOK, vars, local, database, redis, past
<1> QED BY <1>1, <1>2, <1>3, <1>4, <1>5, <1>6, <1>7, <1>8, <1>9, <1>10, <1>11, <1>12, <1>13,
           <1>14, <1>15, <1>16, <1>17, <1>18, <1>19, <1>20, <1>21, <1>22, <1>23, <1>24
        DEF Next, Continue

----------------------------------------------------------------------------
(* Locks. *)

\* What a step of one session leaves alone for the others.
Aside(s) ==
    \A u \in Actors \ {s} : pc'[u] = pc[u] /\ job'[u] = job[u] /\ base'[u] = base[u]

\* Between its steps a session goes on holding what it holds; the others are
\* not disturbed.
LEMMA KeptLocks ==
  ASSUME Locking, NEW s \in Actors, Aside(s), UNCHANGED <<holder, draft>>,
         \A r \in Rides : holder[r] = s => Holds(r, s)'
  PROVE  Locking'
BY DEF Locking, Holds, Aside, Op, Ride

\* An idle session, and one that answers an offer, holds no row.
LEMMA HoldsNothing ==
  ASSUME Locking, NEW s \in Actors, pc[s] \in {"idle", "claim", "refuse", "count"}
  PROVE  \A r \in Rides : holder[r] # s
BY DEF Locking, Holds

LEMMA StartLocks ==
  ASSUME IInv, NEW s \in Actors, NEW op, NEW r, NEW d, NEW x, NEW step,
         Start(s, op, r, d, x, step)
  PROVE  pc[s] = "idle" /\ Aside(s) /\ (UNCHANGED <<holder, draft>> => Locking')
<1>1. pc[s] = "idle" /\ Aside(s)
  BY DEF Start, Goto, Aside, IInv, TypeOK
<1> QED BY <1>1, HoldsNothing, KeptLocks DEF IInv

\* The end of a request that holds nothing, or that gives up what it holds.
LEMMA DoneLocks ==
  ASSUME IInv, NEW s \in Actors, Done(s),
         \/ UNCHANGED <<holder, draft>> /\ \A r \in Rides : holder[r] # s
         \/ Unlock(s)
  PROVE  Locking'
<1>1. Aside(s)
  BY DEF Done, Goto, Aside, IInv, TypeOK
<1>2. CASE UNCHANGED <<holder, draft>> /\ \A r \in Rides : holder[r] # s
  BY <1>1, <1>2, KeptLocks DEF IInv
<1>3. CASE Unlock(s)
  <2>1. \A r \in Rides : holder'[r] # s
    BY <1>3, MatchingAssumption DEF Unlock
  <2>2. \A r \in Rides, u \in Actors : holder'[r] = u => holder[r] = u /\ draft'[r] = draft[r]
    BY <1>3, MatchingAssumption DEF Unlock
  <2> QED BY <1>1, <2>1, <2>2 DEF Locking, Holds, Aside, Op, Ride, IInv
<1> QED BY <1>2, <1>3

\* Giving up is never refused by the index.
LEMMA HolderWrites ==
  ASSUME IInv, NEW s \in Actors, NEW r \in Rides, holder[r] = s, pc[s] = "write"
  PROVE  ~Active(Saved(s))
<1>1. Op(s) = "giveup" /\ base[s] = Row("requested", Nobody)
  BY DEF IInv, Locking, Holds
<1>2. base[s]["status"] = "requested"
  BY <1>1, RowType DEF Statuses
<1> DEFINE new == Row("no_driver_found", snap[s]["driver"])
<1>3. DOMAIN new = {"status", "driver"} /\ new["status"] = "no_driver_found"
  BY DEF Row
<1> HIDE DEF new
<1>4. Saved(s) = [c \in DOMAIN new |-> IF new[c] # base[s][c] THEN new[c] ELSE View(s)[c]]
  BY <1>1 DEF Saved, new
<1>5. Saved(s)["status"] = "no_driver_found"
  BY <1>2, <1>3, <1>4
<1> QED BY <1>5 DEF Active

LEMMA LockStep == IInv /\ [Next]_vars => Locking'
<1> SUFFICES ASSUME IInv, [Next]_vars PROVE Locking'
  OBVIOUS
<1>1. ASSUME NEW s \in Sessions, NEW r \in Rides, Create(s, r) PROVE Locking'
  <2>1. s \in Actors
    BY DEF Actors
  <2> DEFINE new == <<"create", r, Nobody>>
  <2>2. Start(s, "create", r, Nobody, Row("requested", Nobody), "match")
    BY <1>1 DEF Create
  <2>3. pc[s] = "idle" /\ Aside(s)
    BY <2>1, <2>2, StartLocks
  <2>4. \A q \in Rides : holder[q] # s
    BY <2>1, <2>3, HoldsNothing DEF IInv
  <2>5. job'[s] = new /\ pc'[s] = "match"
    BY <2>1, <2>2 DEF Start, Goto, IInv, TypeOK
  <2>6. new[1] = "create" /\ new[2] = r
    BY JobType DEF AllRequests
  <2> HIDE DEF new
  <2>7. /\ holder'[r] = s /\ draft'[r] = Row("requested", Nobody)
        /\ \A q \in Rides \ {r} : holder'[q] = holder[q] /\ draft'[q] = draft[q]
    BY <1>1 DEF Create, IInv, TypeOK
  <2>8. Holds(r, s)'
    BY <2>5, <2>6, <2>7 DEF Holds, Op, Ride
  <2>9. ASSUME NEW q \in Rides, NEW u \in Actors, holder'[q] = u PROVE Holds(q, u)'
    <3>1. CASE q = r
      BY <2>7, <2>8, <2>9, <3>1
    <3>2. CASE q # r
      <4>1. holder[q] = u /\ u # s /\ draft'[q] = draft[q]
        BY <2>4, <2>7, <2>9, <3>2
      <4> QED BY <2>3, <4>1 DEF IInv, Locking, Holds, Aside, Op, Ride
    <3> QED BY <3>1, <3>2
  <2> QED BY <2>9 DEF Locking
<1>2. ASSUME NEW s \in Sessions, NEW r \in Rides, End(s, r) PROVE Locking'
  BY <1>2, StartLocks DEF End, database, Actors
<1>18. ASSUME NEW s \in Sessions, NEW r \in Rides, Patch(s, r) PROVE Locking'
  BY <1>18, StartLocks DEF Patch, database, Actors
<1>3. ASSUME NEW s \in Sessions, NEW r \in Rides, Retry(s, r) PROVE Locking'
  BY <1>3, StartLocks DEF Retry, database, Actors
<1>4. ASSUME NEW s \in Sessions, NEW r \in Rides, NEW d \in Drivers, Accept(s, r, d)
      PROVE  Locking'
  BY <1>4, StartLocks DEF Accept, database, Actors
<1>5. ASSUME NEW s \in Sessions, NEW r \in Rides, NEW d \in Drivers, Decline(s, r, d)
      PROVE  Locking'
  BY <1>5, StartLocks DEF Decline, database, Actors
<1>6. ASSUME NEW s \in Clocks, NEW r \in Rides, Fire(s, r) PROVE Locking'
  <2>1. CASE Start(s, "expire", r, Nobody, row[r], "match")
    BY <1>6, <2>1, StartLocks DEF Fire, database, Actors
  <2>2. CASE UNCHANGED <<pc, local, past>>
    BY <1>6, <2>2 DEF Fire, database, local, IInv, Locking, Holds, Op, Ride
  <2> QED BY <1>6, <2>1, <2>2 DEF Fire
<1>7. ASSUME NEW s \in Actors, Claim(s) \/ Refuse(s) \/ Count(s) PROVE Locking'
  <2>1. \A r \in Rides : holder[r] # s
    BY <1>7, HoldsNothing DEF IInv, Claim, Refuse, Count
  <2>2. Aside(s) /\ UNCHANGED <<holder, draft>>
    BY <1>7 DEF Claim, Refuse, Count, Done, Goto, Aside, IInv, TypeOK, local, database
  <2> QED BY <2>1, <2>2, KeptLocks DEF IInv
<1>8. ASSUME NEW s \in Actors, Close(s) \/ Open(s) \/ Notify(s) \/ Clear(s) PROVE Locking'
  <2>1. Aside(s) /\ UNCHANGED <<holder, draft, job, base>>
    BY <1>8 DEF Close, Open, Notify, Clear, Goto, Aside, IInv, TypeOK, local, database
  <2>2. \/ pc[s] = "open" /\ pc'[s] = "notify"
        \/ pc'[s] = "commit"
    BY <1>8 DEF Close, Open, Notify, Clear, Goto, IInv, TypeOK
  <2>3. \A r \in Rides : holder[r] = s => Holds(r, s)'
    BY <2>1, <2>2 DEF IInv, Locking, Holds, Op, Ride
  <2> QED BY <2>1, <2>3, KeptLocks DEF IInv
<1>9. ASSUME NEW s \in Actors, Match(s) PROVE Locking'
  <2> DEFINE new == <<"giveup", Ride(s), Driver(s)>>
  <2>1. Aside(s) /\ UNCHANGED <<holder, draft, base>>
    BY <1>9 DEF Match, Goto, Aside, IInv, TypeOK, local, database
  <2>2. Ride(s) \in Rides /\ Driver(s) \in Drivers \cup {Nobody}
    BY DEF IInv, TypeOK, Jobs, Ride, Driver
  <2>3. new[1] = "giveup" /\ new[2] = Ride(s)
    BY <2>2, JobType
  <2>4. pc[s] = "match" /\ \/ job'[s] = new /\ pc'[s] = "read"
                           \/ job'[s] = job[s] /\ pc'[s] \in {"commit", "open"}
    BY <1>9 DEF Match, Goto, IInv, TypeOK
  <2> HIDE DEF new
  <2>5. \A r \in Rides : holder[r] = s => Holds(r, s)'
    BY <2>1, <2>3, <2>4 DEF IInv, Locking, Holds, Op, Ride
  <2> QED BY <2>1, <2>5, KeptLocks DEF IInv
<1>10. ASSUME NEW s \in Actors, Read(s) PROVE Locking'
  <2>1. Aside(s) /\ UNCHANGED <<holder, draft, job>>
    BY <1>10 DEF Read, Goto, Aside, IInv, TypeOK, database
  <2>2. pc[s] = "read" /\ pc'[s] = "write" /\ base'[s] = View(s)
    BY <1>10 DEF Read, Goto, IInv, TypeOK
  <2>3. \A r \in Rides : holder[r] = s => Holds(r, s)'
    BY <2>1, <2>2 DEF IInv, Locking, Holds, Op, Ride, View
  <2> QED BY <2>1, <2>3, KeptLocks DEF IInv
<1>11. ASSUME NEW s \in Actors, Write(s) PROVE Locking'
  <2>1. Aside(s) /\ UNCHANGED <<job, base>> /\ pc'[s] \in {"close", "clear", "commit"}
    BY <1>11 DEF Write, Goto, Aside, IInv, TypeOK, local
  <2>2. Ride(s) \in Rides
    BY DEF IInv, TypeOK, Jobs, Ride
  <2>3. /\ holder'[Ride(s)] = s
        /\ \A q \in Rides \ {Ride(s)} : holder'[q] = holder[q] /\ draft'[q] = draft[q]
    BY <1>11, <2>2 DEF Write, IInv, TypeOK
  <2>4. ASSUME NEW q \in Rides, NEW u \in Actors, holder'[q] = u PROVE Holds(q, u)'
    <3>1. CASE q = Ride(s)
      BY <2>1, <2>3, <2>4, <3>1 DEF Holds, Ride, Op
    <3>2. CASE q # Ride(s)
      <4>1. holder[q] = u /\ draft'[q] = draft[q] /\ u # s
        BY <2>3, <2>4, <3>2 DEF IInv, Locking, Holds
      <4> QED BY <2>1, <4>1 DEF IInv, Locking, Holds, Aside, Op, Ride
    <3> QED BY <3>1, <3>2
  <2> QED BY <2>4 DEF Locking
<1>12. ASSUME NEW s \in Actors, Conflict(s) PROVE Locking'
  <2>1. Active(Saved(s)) /\ pc[s] = "write"
    BY <1>12 DEF Conflict, Taken
  <2>2. \A r \in Rides : holder[r] # s
    BY <2>1, HolderWrites
  <2> QED BY <1>12, <2>2, DoneLocks DEF Conflict, database
<1>13. ASSUME NEW s \in Actors, Commit(s) \/ Fail(s) PROVE Locking'
  BY <1>13, DoneLocks DEF Commit, Fail
<1>14. ASSUME NEW d \in Drivers, SwitchOn(d) \/ SwitchOff(d) PROVE Locking'
  BY <1>14 DEF SwitchOn, SwitchOff, database, local, IInv, Locking, Holds, Op, Ride
<1>15. ASSUME NEW r \in Rides, Lapse(r) PROVE Locking'
  BY <1>15 DEF Lapse, database, local, IInv, Locking, Holds, Op, Ride
<1>16. ASSUME Restart PROVE Locking'
  BY <1>16, MatchingAssumption DEF Restart, Locking
<1>17. CASE UNCHANGED vars
  BY <1>17 DEF vars, database, local, IInv, Locking, Holds, Op, Ride
<1> QED BY <1>1, <1>2, <1>3, <1>4, <1>5, <1>6, <1>7, <1>8, <1>9, <1>10, <1>11, <1>12, <1>13,
           <1>14, <1>15, <1>16, <1>17, <1>18
        DEF Next, Continue

----------------------------------------------------------------------------
(* The index. *)

LEMMA Alike ==
  ASSUME NEW x, NEW y, Active(x), x = y
  PROVE  Active(y)
OBVIOUS

LEMMA ApartStep == IInv /\ [Next]_vars => Apart'
<1> SUFFICES ASSUME IInv, [Next]_vars PROVE Apart'
  OBVIOUS
<1>1. CASE UNCHANGED <<row, holder, draft>>
  BY <1>1 DEF IInv, Apart
<1>2. ASSUME NEW s \in Sessions, NEW r \in Rides, Create(s, r) PROVE Apart'
  <2>1. /\ row' = row /\ ~Active(draft'[r])
        /\ \A q \in Rides \ {r} : holder'[q] = holder[q] /\ draft'[q] = draft[q]
    BY <1>2, RowType DEF Create, IInv, TypeOK, Active, database, Statuses
  <2> QED BY <2>1, Alike DEF IInv, Apart
<1>3. ASSUME NEW s \in Actors, Write(s) PROVE Apart'
  <2> DEFINE x == Saved(s)
             R == Ride(s)
  <2>1. R \in Rides /\ s # Nobody
    BY MatchingAssumption DEF IInv, TypeOK, Jobs, Ride
  <2>2. /\ row' = row /\ holder'[R] = s /\ draft'[R] = x
        /\ \A q \in Rides \ {R} : holder'[q] = holder[q] /\ draft'[q] = draft[q]
    BY <1>3, <2>1 DEF Write, IInv, TypeOK
  <2>3. Active(x) => \A q \in Rides \ {R} :
                        x # row[q] /\ (holder[q] # Nobody => x # draft[q])
    BY <1>3 DEF Write, Waits, Taken, IInv, TypeOK, Locking, Holds
  <2> HIDE DEF x, R
  <2> QED BY <2>1, <2>2, <2>3, Alike DEF IInv, Apart
<1>4. ASSUME NEW s \in Actors, Commit(s) PROVE Apart'
  <2>1. s # Nobody /\ \A q, r \in Rides : holder[q] = s /\ holder[r] = s => q = r
    BY MatchingAssumption DEF IInv, Locking, Holds
  <2>2. \A q \in Rides :
           /\ row'[q] = IF holder[q] = s THEN draft[q] ELSE row[q]
           /\ holder'[q] # Nobody => holder[q] # s /\ holder[q] # Nobody /\ draft'[q] = draft[q]
    BY <1>4 DEF Commit, Unlock
  <2> QED BY <2>1, <2>2, Alike DEF IInv, Apart
<1>5. ASSUME NEW s \in Actors, Fail(s) PROVE Apart'
  <2>1. row' = row /\ \A q \in Rides :
           holder'[q] # Nobody => holder[q] # Nobody /\ draft'[q] = draft[q]
    BY <1>5 DEF Fail, Unlock
  <2> QED BY <2>1 DEF IInv, Apart
<1>6. ASSUME Restart PROVE Apart'
  BY <1>6 DEF Restart, IInv, Apart
<1> QED BY <1>1, <1>2, <1>3, <1>4, <1>5, <1>6
        DEF Next, Continue, End, Patch, Retry, Accept, Decline, Fire, Claim, Close, Refuse,
            Count, Match, Open, Notify, Read, Conflict, Clear, SwitchOn, SwitchOff, Lapse, vars,
            database

----------------------------------------------------------------------------
(* Theorems. *)

LEMMA InvStep == IInv /\ [Next]_vars => IInv'
BY TypeStep, LockStep, ApartStep DEF IInv

\* Every reachable state has the types of Matching.
THEOREM Typing == Spec => []TypeOK
<1>1. IInv => TypeOK
  BY DEF IInv
<1> QED BY <1>1, InitInv, InvStep, PTL DEF Spec

\* Whatever requests and timers run at once, fail or are lost, a driver never
\* has two committed active rides (uq_rides_one_active_per_driver).
THEOREM DriverHasOneRide == Spec => []OneActiveRidePerDriver
<1>1. IInv => OneActiveRidePerDriver
  BY DEF IInv, Apart, OneActiveRidePerDriver
<1> QED BY <1>1, InitInv, InvStep, PTL DEF Spec


----------------------------------------------------------------------------
(* What a session may rely on while others run beside it. *)

Asked == Row("requested", Nobody)

\* Giving up is a part of the creation, the refusal or the timer that does it;
\* a refusal has nothing beside it, and counts as a timer from there.  All this
\* is for as long as overlaps = 0.
Kind(s) ==
    IF Op(s) # "giveup" THEN Op(s) ELSE IF row[Ride(s)] = NoRow THEN "create" ELSE "expire"
Busy(s) == pc[s] # "idle"

Beside ==
    \A s, u \in Actors : s # u /\ Busy(s) /\ Busy(u) => KeepsBeside(Kind(s), Kind(u))

\* The ride of a creation is nobody else's; a refusal and a timer find theirs
\* as they have loaded it, requested.
Creates(s) ==
    /\ pc[s] \in {"match", "open", "notify", "commit"}
    /\ holder[Ride(s)] = s /\ row[Ride(s)] = NoRow /\ draft[Ride(s)] = Asked /\ snap[s] = Asked
Declines(s) ==
    /\ pc[s] \in {"refuse", "count", "match", "open", "notify", "commit"}
    /\ holder[Ride(s)] # s /\ row[Ride(s)] = Asked /\ snap[s] = Asked
Expires(s) ==
    /\ pc[s] \in {"match", "open", "notify", "commit"} /\ s \in Clocks
    /\ holder[Ride(s)] # s /\ row[Ride(s)] = Asked /\ snap[s] = Asked
GivesUp(s) ==
    /\ pc[s] \in {"read", "write", "clear", "commit"} /\ snap[s] = Asked
    /\ row[Ride(s)] = Asked \/ (row[Ride(s)] = NoRow /\ holder[Ride(s)] = s)
    /\ pc[s] = "write" => base[s] = Asked
    /\ pc[s] \in {"clear", "commit"} =>
          draft[Ride(s)] = Row("no_driver_found", Nobody) /\ holder[Ride(s)] = s

\* An acceptance past its claim has the ride to itself, still requested.
Claimed(s) == Op(s) = "accept" /\ pc[s] \in {"read", "write", "close", "commit"}
Accepts(s) ==
    /\ pc[s] \in {"claim", "read", "write", "close", "commit"}
    /\ row[Ride(s)] # NoRow
    /\ pc[s] = "claim" => row[Ride(s)] = Asked \/ claim[Ride(s)] # Nobody
    /\ pc[s] # "claim" => row[Ride(s)] = Asked /\ claim[Ride(s)] = Driver(s)
    /\ pc[s] = "write" => base[s] = Asked
    /\ pc[s] \in {"close", "commit"} =>
          draft[Ride(s)] = Row("matched", Driver(s)) /\ holder[Ride(s)] = s

\* The ride of a cancellation, or of a completion, may be ended by another of
\* its like, and keeps its driver; at the commit that driver is released.
Ends(s, before, after) ==
    LET x == row[Ride(s)]
        d == snap[s]["driver"]
    IN  /\ pc[s] \in {"read", "write", "clear", "commit"}
        /\ x["driver"] = d /\ x["status"] \in before \cup {after}
        /\ pc[s] = "write" =>
              /\ base[s]["driver"] = d /\ base[s]["status"] \in before \cup {after}
              /\ base[s]["status"] = after => x = base[s]
        /\ pc[s] \in {"clear", "commit"} =>
              draft[Ride(s)] = Row(after, d) /\ holder[Ride(s)] = s
        /\ pc[s] = "commit" => d \in available \cup away \cup {Nobody}
Cancels(s) == Ends(s, {"requested", "matched"}, "cancelled")
Completes(s) == Ends(s, {"matched"}, "completed")
Retries(s) ==
    /\ pc[s] \in {"clear", "commit"}
    /\ holder[Ride(s)] # s /\ row[Ride(s)]["status"] = "completed"

\* PATCH runs alone, and writes the status it is for.
Target(op) ==
    IF op = "set_matched" THEN "matched"
    ELSE IF op = "set_cancelled" THEN "cancelled" ELSE "no_driver_found"
Patches(s) ==
    LET x == row[Ride(s)]
    IN  /\ pc[s] \in {"read", "write", "commit"}
        /\ snap[s] = x /\ Settable(Op(s), x["status"])
        /\ pc[s] = "write" => base[s] = x
        /\ pc[s] = "commit" =>
              draft[Ride(s)] = Row(Target(Op(s)), x["driver"]) /\ holder[Ride(s)] = s

\* The next wave holds nobody who has been asked, and a ride is saved without
\* an offer and, but for an acceptance, without a claim, PATCH apart.
Works(s) ==
    /\ \/ Op(s) = "create" /\ Creates(s)
       \/ Op(s) = "decline" /\ Declines(s)
       \/ Op(s) = "expire" /\ Expires(s)
       \/ Op(s) = "giveup" /\ GivesUp(s)
       \/ Op(s) = "accept" /\ Accepts(s)
       \/ Op(s) = "cancel" /\ Cancels(s)
       \/ Op(s) = "complete" /\ Completes(s)
       \/ Op(s) = "retry" /\ Retries(s)
       \/ Op(s) \in Patching /\ Patches(s)
    /\ pc[s] = "open" => wave[s] \cap tried[Ride(s)] = {}
    /\ pc[s] = "commit" /\ Op(s) \in Savers \ Patching =>
          offered[Ride(s)] = {} /\ (Op(s) # "accept" => claim[Ride(s)] = Nobody)

WInv ==
    /\ IInv /\ Beside
    /\ \A s \in Actors : IF Busy(s) THEN Works(s) ELSE Op(s) = "none"
    /\ \A s, u \in Actors : s # u /\ Claimed(s) /\ Claimed(u) => Ride(s) # Ride(u)
    /\ \A r \in Rides : row[r]["status"] = "requested" => row[r] = Asked
    /\ \A r \in patched : row[r]["status"] \notin {"none", "requested"}

\* What remains of the requests that are over, while none has failed.
Left ==
    /\ \A r \in Rides \ patched :
          offered[r] # {} => row[r] = Asked \/ (row[r] = NoRow /\ holder[r] # Nobody)
    /\ \A r \in Rides \ patched : claim[r] # Nobody =>
          \/ row[r] = Row("matched", claim[r])
          \/ \E s \in Actors : Claimed(s) /\ Ride(s) = r /\ Driver(s) = claim[r]
    /\ \A d \in Drivers :
          \/ d \in available \cup away \/ OnRide(d)
          \/ \E r \in patched : row[r]["driver"] = d
          \/ \E s \in Actors : Op(s) = "accept" /\ pc[s] = "commit" /\ Driver(s) = d

LEMMA AskedType ==
  /\ Asked \in Rows /\ Asked["status"] = "requested" /\ Asked["driver"] = Nobody
  /\ NoRow \in Rows /\ NoRow["status"] = "none" /\ NoRow["driver"] = Nobody /\ Asked # NoRow
<1>1. Asked \in Rows /\ Asked["status"] = "requested" /\ Asked["driver"] = Nobody
  BY RowType DEF Asked, Statuses
<1>2. NoRow \in Rows /\ NoRow["status"] = "none" /\ NoRow["driver"] = Nobody
  BY RowType DEF NoRow, Statuses
<1> QED BY <1>1, <1>2

LEMMA SessionType ==
  ASSUME TypeOK, NEW s \in Actors
  PROVE  /\ Ride(s) \in Rides /\ Driver(s) \in Drivers \cup {Nobody}
         /\ Op(s) \in {"accept", "decline"} => Driver(s) \in Drivers
         /\ row[Ride(s)] \in Rows /\ draft[Ride(s)] \in Rows
         /\ snap[s] \in Rows /\ base[s] \in Rows /\ s # Nobody
BY MatchingAssumption DEF TypeOK, Jobs, Ride, Driver, Op

\* Which operation is at which step.
LEMMA Where ==
  ASSUME NEW s \in Actors, Works(s)
  PROVE  /\ pc[s] \in {"claim", "close"} => Op(s) = "accept"
         /\ pc[s] \in {"refuse", "count"} => Op(s) = "decline"
         /\ pc[s] \in {"match", "open", "notify"} => Op(s) \in {"create", "decline", "expire"}
         /\ pc[s] \in {"read", "write"} => Op(s) \in Savers
         /\ pc[s] = "clear" => Op(s) \in {"giveup", "cancel", "complete", "retry"}
         /\ pc[s] # "idle" /\ Op(s) # "none"
BY DEF Works, Creates, Declines, Expires, GivesUp, Accepts, Cancels, Completes, Ends, Retries,
       Patches, Patching, Savers

\* The ride of a creation and of the others.
LEMMA KindRow ==
  ASSUME NEW s \in Actors, Works(s)
  PROVE  /\ Kind(s) \in {"create", "decline", "expire", "accept", "cancel", "complete", "retry"}
                        \cup Patching
         /\ Kind(s) = "create" => row[Ride(s)] = NoRow /\ holder[Ride(s)] = s
         /\ Kind(s) # "create" => row[Ride(s)] # NoRow
         /\ Kind(s) \in {"decline", "expire"} => row[Ride(s)] = Asked
         /\ Kind(s) \in {"complete", "retry"} =>
               row[Ride(s)]["status"] \in {"matched", "completed"}
         /\ Op(s) # "giveup" => Kind(s) = Op(s)
         /\ Op(s) = "giveup" => Kind(s) \in {"create", "expire"}
BY AskedType DEF Works, Kind, Creates, Declines, Expires, GivesUp, Accepts, Cancels, Completes,
                 Ends, Retries, Patches, Patching, Settable

\* Two sessions on one ride: two acceptances, two cancellations, or completions
\* and their retries.
LEMMA SameRide ==
  ASSUME WInv, NEW s \in Actors, NEW u \in Actors, s # u, Busy(s), Busy(u)
  PROVE  /\ Op(s) \notin {"decline"} \cup Patching /\ Op(u) \notin {"decline"} \cup Patching
         /\ Op(s) = "accept" => Op(u) \notin {"cancel", "complete"}
         /\ Ride(s) = Ride(u) =>
               \/ Op(s) = "accept" /\ Op(u) = "accept"
               \/ Op(s) = "cancel" /\ Op(u) = "cancel"
               \/ Op(s) \in {"complete", "retry"} /\ Op(u) \in {"complete", "retry"}
<1>1. Works(s) /\ Works(u)
  BY DEF WInv
<1>2. /\ ~(Kind(s) = "expire" /\ Kind(u) = "expire")
      /\ \E kept \in KeptTogether : Kind(s) \in kept /\ Kind(u) \in kept
  BY DEF WInv, Beside, KeepsBeside
<1>3. PICK kept \in KeptTogether : Kind(s) \in kept /\ Kind(u) \in kept
  BY <1>2
<1>4. /\ Kind(s) \notin {"decline"} \cup Patching /\ Kind(u) \notin {"decline"} \cup Patching
      /\ Kind(s) = "accept" => Kind(u) \in {"accept", "create"}
      /\ Kind(s) # "create" /\ Kind(u) # "create" =>
            \/ Kind(s) = "accept" /\ Kind(u) = "accept"
            \/ Kind(s) = "cancel" /\ Kind(u) = "cancel"
            \/ Kind(s) \in {"complete", "retry", "expire"}
               /\ Kind(u) \in {"complete", "retry", "expire"}
  BY <1>3 DEF KeptTogether, Patching
<1>5. Ride(s) = Ride(u) => Kind(s) # "create" /\ Kind(u) # "create"
  BY <1>1, KindRow
<1>6. Ride(s) = Ride(u) => (Kind(s) = "expire" <=> Kind(u) = "expire")
  BY <1>1, <1>4, <1>5, KindRow, AskedType
<1>7. "giveup" \notin Patching
  BY DEF Patching
<1> QED BY <1>1, <1>2, <1>4, <1>5, <1>6, <1>7, KindRow


\* What a step of another session leaves of the things this one relies on.
Steady(u) ==
    LET R == Ride(u)
    IN  /\ pc'[u] = pc[u] /\ job'[u] = job[u]
        /\ snap'[u] = snap[u] /\ base'[u] = base[u] /\ wave'[u] = wave[u]
        /\ row'[R] = row[R] /\ claim'[R] = claim[R]
        /\ (holder'[R] = u) = (holder[R] = u) /\ (holder[R] = u => draft'[R] = draft[R])
        /\ offered'[R] \subseteq offered[R] /\ tried'[R] \subseteq tried[R]
        /\ Op(u) \in {"cancel", "complete"} =>
              available \cup away \subseteq available' \cup away'

LEMMA Undisturbed ==
  ASSUME WInv, NEW u \in Actors, Busy(u), Steady(u)
  PROVE  Works(u)' /\ Kind(u)' = Kind(u) /\ Busy(u)'
<1>1. Works(u)
  BY DEF WInv
<1>2. /\ Op(u)' = Op(u) /\ Ride(u)' = Ride(u) /\ Driver(u)' = Driver(u) /\ pc'[u] = pc[u]
      /\ snap'[u] = snap[u] /\ base'[u] = base[u] /\ wave'[u] = wave[u]
      /\ row'[Ride(u)] = row[Ride(u)] /\ claim'[Ride(u)] = claim[Ride(u)]
      /\ (holder'[Ride(u)] = u) = (holder[Ride(u)] = u)
      /\ holder[Ride(u)] = u => draft'[Ride(u)] = draft[Ride(u)]
      /\ offered'[Ride(u)] \subseteq offered[Ride(u)] /\ tried'[Ride(u)] \subseteq tried[Ride(u)]
      /\ Op(u) \in {"cancel", "complete"} =>
            available \cup away \subseteq available' \cup away'
  BY DEF Steady, Op, Ride, Driver
<1>3. Kind(u)' = Kind(u) /\ Busy(u)'
  BY <1>2 DEF Kind, Busy
<1>4. /\ Op(u) = "create" => Creates(u)'
      /\ Op(u) = "decline" => Declines(u)'
      /\ Op(u) = "expire" => Expires(u)'
      /\ Op(u) = "retry" => Retries(u)'
  BY <1>1, <1>2 DEF Works, Creates, Declines, Expires, Retries, Asked, NoRow, Row, Patching
<1>5. Op(u) = "giveup" => GivesUp(u)'
  BY <1>1, <1>2 DEF Works, GivesUp, Asked, NoRow, Row, Patching
<1>6. Op(u) = "accept" => Accepts(u)'
  BY <1>1, <1>2 DEF Works, Accepts, Asked, NoRow, Row, Patching
<1>7. Op(u) = "cancel" => Cancels(u)'
  BY <1>1, <1>2 DEF Works, Cancels, Ends, Row, Patching
<1>8. Op(u) = "complete" => Completes(u)'
  BY <1>1, <1>2 DEF Works, Completes, Ends, Row, Patching
<1>9. pc[u] = "open" => wave'[u] \cap tried'[Ride(u)] = {}
  BY <1>1, <1>2 DEF Works
<1>13. Op(u) \in Patching => Patches(u)'
  BY <1>1, <1>2 DEF Works, Patches, Patching, Row
<1>10. pc[u] = "commit" /\ Op(u) \in Savers \ Patching =>
          offered'[Ride(u)] = {} /\ (Op(u) # "accept" => claim'[Ride(u)] = Nobody)
  BY <1>1, <1>2 DEF Works
<1>11. \/ Op(u) = "create" \/ Op(u) = "decline" \/ Op(u) = "expire" \/ Op(u) = "giveup"
       \/ Op(u) = "accept" \/ Op(u) = "cancel" \/ Op(u) = "complete" \/ Op(u) = "retry"
       \/ Op(u) \in Patching
  BY <1>1 DEF Works
<1>12. Works(u)'
  BY <1>2, <1>4, <1>5, <1>6, <1>7, <1>8, <1>9, <1>10, <1>11, <1>13 DEF Works
<1> QED BY <1>3, <1>12

\* The end of a request, and a lock that is released.
LEMMA DoneParts ==
  ASSUME TypeOK, NEW s \in Actors, Done(s)
  PROVE  /\ ~Busy(s)' /\ Op(s)' = "none"
         /\ \A u \in Actors \ {s} :
               /\ pc'[u] = pc[u] /\ job'[u] = job[u]
               /\ snap'[u] = snap[u] /\ base'[u] = base[u] /\ wave'[u] = wave[u]
<1> DEFINE none == NoJob(CHOOSE r \in Rides : TRUE)
<1>1. none[1] = "none"
  BY NoJobType
<1>2. /\ pc' = [pc EXCEPT ![s] = "idle"] /\ job' = [job EXCEPT ![s] = none]
      /\ snap' = [snap EXCEPT ![s] = NoRow] /\ base' = [base EXCEPT ![s] = NoRow]
      /\ wave' = [wave EXCEPT ![s] = {}]
  BY DEF Done, Goto
<1> HIDE DEF none
<1> QED BY <1>1, <1>2 DEF TypeOK, Busy, Op

\* The steps of a session but the claim and its release, a wave, the matching
\* state that is dropped and the commit leave the others as they were.
LEMMA OthersAlone ==
  ASSUME WInv, NEW s \in Actors, NEW u \in Actors \ {s}, Busy(u),
         \/ Close(s) \/ Refuse(s) \/ Count(s) \/ Match(s) \/ Notify(s) \/ Read(s) \/ Write(s)
  PROVE  Steady(u)
<1>1. Ride(u) \in Rides /\ Ride(s) \in Rides
  BY SessionType DEF WInv, IInv
<1> USE <1>1 DEF WInv, IInv
<1>2. CASE Close(s)
  <2>1. Busy(s) /\ Works(s)
    BY <1>2 DEF Close, Busy
  <2>2. Op(s) = "accept"
    BY <1>2, <2>1, Where DEF Close
  <2>3. Op(u) \notin {"cancel", "complete"}
    BY <2>1, <2>2, SameRide
  <2> QED BY <1>2, <2>3 DEF Close, Steady, Goto, TypeOK, database, local
<1>3. CASE Refuse(s)
  BY <1>3 DEF Refuse, Steady, Goto, TypeOK, database, local
<1>4. CASE Count(s) \/ Notify(s)
  BY <1>4 DEF Count, Notify, Steady, Goto, TypeOK, database, redis, local
<1>5. CASE Match(s)
  BY <1>5 DEF Match, Steady, Goto, TypeOK, database, redis
<1>6. CASE Read(s)
  BY <1>6 DEF Read, Steady, Goto, TypeOK, database, redis
<1>7. CASE Write(s)
  <2>1. s # Nobody /\ u # Nobody
    BY MatchingAssumption
  <2>2. \A r \in Rides :
           /\ (holder'[r] = u) = (holder[r] = u)
           /\ holder[r] = u => draft'[r] = draft[r]
    BY <1>7, <2>1 DEF Write, RowFree, TypeOK
  <2> QED BY <1>7, <2>2 DEF Write, Steady, Goto, TypeOK, redis, local
<1> QED BY <1>2, <1>3, <1>4, <1>5, <1>6, <1>7

LEMMA UnlockOther ==
  ASSUME TypeOK, NEW s \in Actors, NEW u \in Actors \ {s}, Unlock(s), NEW r \in Rides
  PROVE  (holder'[r] = u) = (holder[r] = u) /\ (holder[r] = u => draft'[r] = draft[r])
BY MatchingAssumption DEF Unlock, TypeOK


\* Nor do the steps that touch what the others of the same ride rely on undo
\* what they rely on.
LEMMA OthersClaim ==
  ASSUME WInv, NEW s \in Actors, NEW u \in Actors \ {s}, Busy(u), Claim(s)
  PROVE  Works(u)' /\ Kind(u)' = Kind(u)
<1> USE DEF WInv, IInv
<1>1. /\ Ride(u) \in Rides /\ Ride(s) \in Rides /\ Busy(s) /\ Works(s) /\ Works(u)
      /\ Op(s) = "accept" /\ Driver(s) \in Drivers
  BY SessionType, Where DEF Claim, Busy
<1>2. CASE claim[Ride(s)] = Nobody
  <2>1. /\ UNCHANGED <<row, holder, draft, offered, tried, available, away>> /\ UNCHANGED local
        /\ claim' = [claim EXCEPT ![Ride(s)] = Driver(s)] /\ pc'[u] = pc[u]
    BY <1>2 DEF Claim, database, Goto, TypeOK
  <2>2. CASE Ride(u) = Ride(s)
    <3>1. Op(u) = "accept" /\ pc[u] = "claim"
      <4>1. Op(u) = "accept"
        BY <1>1, <2>2, SameRide
      <4>2. Accepts(u) /\ Driver(u) # Nobody
        BY <1>1, <4>1, SessionType, MatchingAssumption DEF Works, Patching
      <4> QED BY <1>2, <2>2, <4>1, <4>2 DEF Accepts
    <3>2. /\ Op(u)' = Op(u) /\ Ride(u)' = Ride(u) /\ pc'[u] = pc[u] /\ row' = row
          /\ claim'[Ride(u)] # Nobody
      BY <1>1, <2>1, <2>2, MatchingAssumption DEF local, Op, Ride, TypeOK
    <3>3. Accepts(u)'
      BY <1>1, <3>1, <3>2 DEF Works, Accepts, NoRow, Row, Patching
    <3> QED BY <3>1, <3>2, <3>3 DEF Works, Kind
  <2>3. CASE Ride(u) # Ride(s)
    <3>1. Steady(u)
      BY <1>1, <2>1, <2>3 DEF Steady, local, TypeOK
    <3> QED BY <3>1, Undisturbed
  <2> QED BY <2>2, <2>3
<1>3. CASE claim[Ride(s)] # Nobody
  <2>1. Steady(u)
    BY <1>3, DoneParts DEF Claim, Steady, database
  <2> QED BY <2>1, Undisturbed
<1> QED BY <1>2, <1>3

\* A claim is released while the ride is still requested.
LEMMA OthersReleased ==
  ASSUME WInv, NEW s \in Actors, NEW u \in Actors \ {s}, Busy(u),
         Op(s) = "accept", pc[s] \in {"read", "write"}, Released(s), Done(s),
         row' = row, offered' = offered, tried' = tried, available' = available, away' = away,
         (holder'[Ride(u)] = u) = (holder[Ride(u)] = u),
         holder[Ride(u)] = u => draft'[Ride(u)] = draft[Ride(u)]
  PROVE  Works(u)' /\ Kind(u)' = Kind(u)
<1> USE DEF WInv, IInv
<1>1. /\ Ride(u) \in Rides /\ Ride(s) \in Rides /\ Busy(s) /\ Works(s) /\ Works(u)
  BY SessionType DEF Busy
<1>2. /\ pc'[u] = pc[u] /\ job'[u] = job[u]
      /\ snap'[u] = snap[u] /\ base'[u] = base[u] /\ wave'[u] = wave[u]
  BY DoneParts
<1>3. CASE Ride(u) = Ride(s)
  <2>1. Op(u) = "accept"
    BY <1>1, <1>3, SameRide
  <2>2. Accepts(u) /\ Accepts(s)
    BY <1>1, <2>1 DEF Works, Patching
  <2>3. pc[u] = "claim" /\ row[Ride(u)] = Asked
    BY <1>3, <2>1, <2>2 DEF Accepts, Claimed
  <2>4. Op(u)' = Op(u) /\ Ride(u)' = Ride(u)
    BY <1>2 DEF Op, Ride
  <2>5. Accepts(u)'
    BY <1>2, <2>2, <2>3, <2>4 DEF Accepts, NoRow, Asked, Row
  <2> QED BY <1>2, <2>1, <2>3, <2>4, <2>5 DEF Works, Kind
<1>4. CASE Ride(u) # Ride(s)
  <2>1. claim'[Ride(u)] = claim[Ride(u)]
    BY <1>1, <1>4 DEF Released, TypeOK
  <2>2. Steady(u)
    BY <1>2, <2>1 DEF Steady
  <2> QED BY <2>2, Undisturbed
<1> QED BY <1>3, <1>4

LEMMA OthersConflict ==
  ASSUME WInv, NEW s \in Actors, NEW u \in Actors \ {s}, Busy(u), Conflict(s)
  PROVE  Works(u)' /\ Kind(u)' = Kind(u)
<1>1. CASE Op(s) = "accept"
  BY <1>1, OthersReleased DEF Conflict, database
<1>2. CASE Op(s) # "accept"
  <2>1. Steady(u)
    BY <1>2, DoneParts DEF Conflict, Steady, database, WInv, IInv
  <2> QED BY <2>1, Undisturbed
<1> QED BY <1>1, <1>2

LEMMA OthersFail ==
  ASSUME WInv, NEW s \in Actors, NEW u \in Actors \ {s}, Busy(u), Fail(s)
  PROVE  Works(u)' /\ Kind(u)' = Kind(u)
<1>1. Ride(u) \in Rides /\ TypeOK
  BY SessionType DEF WInv, IInv
<1>2. /\ (holder'[Ride(u)] = u) = (holder[Ride(u)] = u)
      /\ holder[Ride(u)] = u => draft'[Ride(u)] = draft[Ride(u)]
  BY <1>1, UnlockOther DEF Fail
<1>3. CASE Op(s) = "accept" /\ pc[s] \in {"read", "write"}
  BY <1>2, <1>3, OthersReleased DEF Fail
<1>4. CASE ~(Op(s) = "accept" /\ pc[s] \in {"read", "write"})
  <2>1. Steady(u)
    BY <1>1, <1>2, <1>4, DoneParts DEF Fail, Steady
  <2> QED BY <2>1, Undisturbed
<1> QED BY <1>3, <1>4

LEMMA OthersOpen ==
  ASSUME WInv, NEW s \in Actors, NEW u \in Actors \ {s}, Busy(u), Open(s)
  PROVE  Steady(u)
<1> USE DEF WInv, IInv
<1>1. Ride(u) \in Rides /\ Ride(s) \in Rides /\ Busy(s) /\ Works(s)
  BY SessionType DEF Open, Busy
<1>2. Op(s) \in {"create", "decline", "expire"}
  BY <1>1, Where DEF Open
<1>3. Ride(u) # Ride(s)
  BY <1>1, <1>2, SameRide
<1> QED BY <1>1, <1>3 DEF Open, Steady, Goto, TypeOK, database, local

LEMMA OthersClear ==
  ASSUME WInv, NEW s \in Actors, NEW u \in Actors \ {s}, Busy(u), Clear(s)
  PROVE  Works(u)' /\ Kind(u)' = Kind(u)
<1> USE DEF WInv, IInv
<1>1. /\ Ride(u) \in Rides /\ Ride(s) \in Rides /\ Busy(s) /\ Works(s) /\ Works(u)
  BY SessionType DEF Clear, Busy
<1>2. /\ UNCHANGED <<row, holder, draft>> /\ UNCHANGED local /\ pc'[u] = pc[u]
      /\ available \cup away \subseteq available' \cup away'
      /\ \A r \in Rides \ {Ride(s)} : /\ offered'[r] = offered[r] /\ tried'[r] = tried[r]
                                      /\ claim'[r] = claim[r]
      /\ offered'[Ride(s)] = {} /\ tried'[Ride(s)] = {} /\ claim'[Ride(s)] = Nobody
  BY <1>1 DEF Clear, database, Goto, TypeOK
<1>3. CASE Ride(u) = Ride(s)
  <2>1. Op(u) \in {"cancel", "complete", "retry"}
    <3>1. Op(s) # "accept"
      BY <1>1, Where DEF Clear
    <3> QED BY <1>1, <1>3, <3>1, SameRide
  <2>2. /\ Op(u)' = Op(u) /\ Ride(u)' = Ride(u) /\ snap'[u] = snap[u] /\ base'[u] = base[u]
        /\ row' = row /\ holder' = holder /\ draft' = draft /\ pc'[u] = pc[u]
    BY <1>2 DEF local, Op, Ride
  <2>3. Op(u) = "cancel" => Cancels(u)'
    BY <1>1, <1>2, <2>2 DEF Works, Cancels, Ends, Row, Patching
  <2>4. Op(u) = "complete" => Completes(u)'
    BY <1>1, <1>2, <2>2 DEF Works, Completes, Ends, Row, Patching
  <2>5. Op(u) = "retry" => Retries(u)'
    BY <1>1, <1>2, <2>2 DEF Works, Retries, Patching
  <2>6. pc[u] # "open"
    BY <1>1, <2>1, Where
  <2>7. offered'[Ride(u)] = {} /\ claim'[Ride(u)] = Nobody
    BY <1>2, <1>3
  <2>8. Works(u)'
    BY <2>1, <2>2, <2>3, <2>4, <2>5, <2>6, <2>7 DEF Works
  <2> QED BY <2>2, <2>8 DEF Kind
<1>4. CASE Ride(u) # Ride(s)
  <2>1. Steady(u)
    BY <1>1, <1>2, <1>4 DEF Steady, local
  <2> QED BY <2>1, Undisturbed
<1> QED BY <1>3, <1>4


\* What a commit makes of the ride.
LEMMA CommitParts ==
  ASSUME WInv, NEW s \in Actors, Commit(s)
  PROVE  /\ Busy(s) /\ Works(s) /\ Ride(s) \in Rides
         /\ \A r \in Rides \ {Ride(s)} : row'[r] = row[r]
         /\ holder[Ride(s)] # s => row'[Ride(s)] = row[Ride(s)]
         /\ holder[Ride(s)] = s => row'[Ride(s)] = draft[Ride(s)]
         /\ Op(s) = "create" => row'[Ride(s)] = Asked /\ holder[Ride(s)] = s
         /\ Op(s) \in {"decline", "expire", "retry"} => holder[Ride(s)] # s
         /\ Op(s) = "accept" => row'[Ride(s)] = Row("matched", Driver(s)) /\ holder[Ride(s)] = s
         /\ Op(s) = "giveup" => row'[Ride(s)] = Row("no_driver_found", Nobody) /\ holder[Ride(s)] = s
         /\ Op(s) = "cancel" => /\ row'[Ride(s)] = Row("cancelled", snap[s]["driver"])
                                /\ holder[Ride(s)] = s
         /\ Op(s) = "complete" => /\ row'[Ride(s)] = Row("completed", snap[s]["driver"])
                                  /\ holder[Ride(s)] = s
         /\ Op(s) \in Patching =>
               row'[Ride(s)] = Row(Target(Op(s)), row[Ride(s)]["driver"]) /\ holder[Ride(s)] = s
         /\ patched' = patched \cup {r \in Rides : Op(s) \in Patching /\ r = Ride(s)}
<1> USE DEF WInv, IInv
<1>1. Busy(s) /\ Works(s) /\ Ride(s) \in Rides
  BY SessionType DEF Commit, Busy
<1>2. \A r \in Rides : row'[r] = IF holder[r] = s THEN draft[r] ELSE row[r]
  BY DEF Commit
<1>3. \A r \in Rides \ {Ride(s)} : holder[r] # s
  BY DEF Locking, Holds
<1>4. pc[s] = "commit"
  BY DEF Commit
<1>5. /\ Op(s) = "create" => draft[Ride(s)] = Asked /\ holder[Ride(s)] = s
      /\ Op(s) \in {"decline", "expire", "retry"} => holder[Ride(s)] # s
      /\ Op(s) = "accept" => draft[Ride(s)] = Row("matched", Driver(s)) /\ holder[Ride(s)] = s
      /\ Op(s) = "giveup" => draft[Ride(s)] = Row("no_driver_found", Nobody) /\ holder[Ride(s)] = s
      /\ Op(s) = "cancel" => /\ draft[Ride(s)] = Row("cancelled", snap[s]["driver"])
                             /\ holder[Ride(s)] = s
      /\ Op(s) = "complete" => /\ draft[Ride(s)] = Row("completed", snap[s]["driver"])
                               /\ holder[Ride(s)] = s
  BY <1>1, <1>4 DEF Works, Creates, Declines, Expires, Retries, Accepts, GivesUp, Cancels,
                    Completes, Ends, Patching
<1>6. Op(s) \in Patching =>
         draft[Ride(s)] = Row(Target(Op(s)), row[Ride(s)]["driver"]) /\ holder[Ride(s)] = s
  BY <1>1, <1>4 DEF Works, Patches, Patching
<1>7. patched' = patched \cup {r \in Rides : Op(s) \in Patching /\ r = Ride(s)}
  BY DEF Commit
<1> QED BY <1>1, <1>2, <1>3, <1>5, <1>6, <1>7

LEMMA OthersCommit ==
  ASSUME WInv, NEW s \in Actors, NEW u \in Actors \ {s}, Busy(u), Commit(s)
  PROVE  Works(u)' /\ Kind(u)' = Kind(u)
<1> USE DEF WInv, IInv
<1>1. /\ Ride(u) \in Rides /\ Ride(s) \in Rides /\ Busy(s) /\ Works(s) /\ Works(u)
  BY SessionType, CommitParts
<1>2. /\ pc'[u] = pc[u] /\ job'[u] = job[u]
      /\ snap'[u] = snap[u] /\ base'[u] = base[u] /\ wave'[u] = wave[u]
      /\ UNCHANGED <<offered, tried, claim, available, away>>
  BY DoneParts DEF Commit, redis
<1>3. /\ (holder'[Ride(u)] = u) = (holder[Ride(u)] = u)
      /\ holder[Ride(u)] = u => draft'[Ride(u)] = draft[Ride(u)]
  BY <1>1, UnlockOther DEF Commit
<1>4. CASE row'[Ride(u)] = row[Ride(u)]
  <2>1. Steady(u)
    BY <1>2, <1>3, <1>4 DEF Steady
  <2> QED BY <2>1, Undisturbed
<1>5. CASE row'[Ride(u)] # row[Ride(u)]
  <2>1. Ride(u) = Ride(s) /\ holder[Ride(s)] = s /\ holder[Ride(u)] # u
    BY <1>1, <1>5, CommitParts
  <2>2. /\ Op(u)' = Op(u) /\ Ride(u)' = Ride(u) /\ Driver(u)' = Driver(u)
        /\ holder'[Ride(u)] # u
    BY <1>2, <1>3, <2>1 DEF Op, Ride, Driver
  <2>3. CASE Op(s) = "accept" /\ Op(u) = "accept"
    <3>1. row'[Ride(u)] = Row("matched", Driver(s)) /\ pc[s] = "commit"
      BY <2>1, <2>3, CommitParts DEF Commit
    <3>2. Accepts(s) /\ Accepts(u)
      BY <1>1, <2>3 DEF Works, Patching
    <3>3. pc[u] = "claim"
      BY <2>1, <2>3, <3>1, <3>2 DEF Accepts, Claimed
    <3>4. claim[Ride(u)] # Nobody
      BY <2>1, <2>3, <3>1, <3>2, SessionType, MatchingAssumption DEF Accepts
    <3>5. row'[Ride(u)] # NoRow
      BY <2>3, <3>1, AskedType, RowType, SessionType DEF Statuses
    <3>6. Accepts(u)'
      BY <1>2, <2>2, <3>3, <3>4, <3>5 DEF Accepts, NoRow, Row
    <3> QED BY <1>2, <2>2, <2>3, <3>3, <3>6 DEF Works, Kind
  <2>4. CASE Op(s) = "cancel" /\ Op(u) = "cancel"
    <3>1. row'[Ride(u)] = Row("cancelled", snap[s]["driver"])
      BY <2>1, <2>4, CommitParts
    <3>2. Cancels(u) /\ row[Ride(u)]["driver"] = snap[s]["driver"]
      BY <1>1, <2>1, <2>4 DEF Works, Cancels, Ends, Patching
    <3>3. snap[s]["driver"] \in Drivers \cup {Nobody} /\ base[u] \in Rows /\ row[Ride(u)] \in Rows
      BY SessionType, RowParts
    <3>4. row'[Ride(u)]["status"] = "cancelled" /\ row'[Ride(u)]["driver"] = snap[s]["driver"]
      BY <3>1, <3>3, RowType DEF Statuses
    <3>5. base[u]["status"] = "cancelled" /\ base[u]["driver"] = snap[s]["driver"] =>
             base[u] = row'[Ride(u)]
      BY <3>1, <3>3, RowParts
    <3>6. pc[u] \in {"read", "write"}
      BY <2>1, <3>2 DEF Cancels, Ends
    <3>7. Cancels(u)'
      BY <1>2, <2>2, <3>2, <3>4, <3>5, <3>6 DEF Cancels, Ends
    <3> QED BY <1>2, <2>2, <2>4, <3>6, <3>7 DEF Works, Kind
  <2>5. CASE Op(s) = "complete" /\ Op(u) = "complete"
    <3>1. row'[Ride(u)] = Row("completed", snap[s]["driver"])
      BY <2>1, <2>5, CommitParts
    <3>2. Completes(u) /\ row[Ride(u)]["driver"] = snap[s]["driver"]
      BY <1>1, <2>1, <2>5 DEF Works, Completes, Ends, Patching
    <3>3. snap[s]["driver"] \in Drivers \cup {Nobody} /\ base[u] \in Rows /\ row[Ride(u)] \in Rows
      BY SessionType, RowParts
    <3>4. row'[Ride(u)]["status"] = "completed" /\ row'[Ride(u)]["driver"] = snap[s]["driver"]
      BY <3>1, <3>3, RowType DEF Statuses
    <3>5. base[u]["status"] = "completed" /\ base[u]["driver"] = snap[s]["driver"] =>
             base[u] = row'[Ride(u)]
      BY <3>1, <3>3, RowParts
    <3>6. pc[u] \in {"read", "write"}
      BY <2>1, <3>2 DEF Completes, Ends
    <3>7. Completes(u)'
      BY <1>2, <2>2, <3>2, <3>4, <3>5, <3>6 DEF Completes, Ends
    <3> QED BY <1>2, <2>2, <2>5, <3>6, <3>7 DEF Works, Kind
  <2>6. CASE Op(s) = "complete" /\ Op(u) = "retry"
    <3>1. row'[Ride(u)] = Row("completed", snap[s]["driver"]) /\ Retries(u)
      BY <1>1, <2>1, <2>6, CommitParts DEF Works, Patching
    <3>2. row'[Ride(u)]["status"] = "completed"
      BY <3>1, SessionType, RowParts, RowType DEF Statuses
    <3>3. Retries(u)' /\ pc[u] # "open"
      BY <1>2, <2>2, <3>1, <3>2 DEF Retries
    <3> QED BY <1>2, <2>2, <2>6, <3>3 DEF Works, Kind, Savers
  <2> QED BY <1>1, <2>1, <2>3, <2>4, <2>5, <2>6, SameRide, CommitParts
<1> QED BY <1>4, <1>5

LEMMA OthersGoOn ==
  ASSUME WInv, NEW s \in Actors, Continue(s) \/ Fail(s), NEW u \in Actors \ {s}, Busy(u)
  PROVE  Works(u)' /\ Kind(u)' = Kind(u)
BY OthersAlone, OthersClaim, OthersConflict, OthersFail, OthersOpen, OthersClear, OthersCommit,
   Undisturbed DEF Continue


\* The ride as a session sees it when it saves.
LEMMA Seen ==
  ASSUME WInv, NEW s \in Actors, pc[s] \in {"read", "write"}
  PROVE  /\ Works(s) /\ Op(s) \in Savers
         /\ Op(s) = "giveup" => View(s) = Asked
         /\ Op(s) # "giveup" => View(s) = row[Ride(s)]
<1> USE DEF WInv, IInv
<1>1. Works(s) /\ Ride(s) \in Rides
  BY SessionType DEF Busy
<1>2. Op(s) \in Savers
  BY <1>1, Where
<1>3. holder[Ride(s)] = s => Op(s) = "giveup" /\ draft[Ride(s)] = Asked
  BY <1>1 DEF Locking, Holds, Asked
<1>4. Op(s) = "giveup" /\ holder[Ride(s)] # s => row[Ride(s)] = Asked
  BY <1>1 DEF Works, GivesUp, Patching
<1> QED BY <1>1, <1>2, <1>3, <1>4 DEF View

\* What it writes.
LEMMA SavedIs ==
  ASSUME WInv, NEW s \in Actors, pc[s] = "write"
  PROVE  /\ Op(s) = "accept" => Saved(s) = Row("matched", Driver(s))
         /\ Op(s) = "giveup" => Saved(s) = Row("no_driver_found", Nobody)
         /\ Op(s) = "cancel" => Saved(s) = Row("cancelled", snap[s]["driver"])
         /\ Op(s) = "complete" => Saved(s) = Row("completed", snap[s]["driver"])
         /\ Op(s) \in Patching => Saved(s) = Row(Target(Op(s)), row[Ride(s)]["driver"])
<1> DEFINE st == CASE Op(s) \in {"accept", "set_matched"}         -> "matched"
                   [] Op(s) \in {"giveup", "set_no_driver_found"} -> "no_driver_found"
                   [] Op(s) \in {"cancel", "set_cancelled"}       -> "cancelled"
                   [] Op(s) = "complete"                          -> "completed"
           dr == IF Op(s) = "accept" THEN Driver(s) ELSE snap[s]["driver"]
           new == Row(st, dr)
           a == IF st # base[s]["status"] THEN st ELSE View(s)["status"]
           b == IF dr # base[s]["driver"] THEN dr ELSE View(s)["driver"]
<1>1. /\ Works(s) /\ Op(s) \in Savers
      /\ Op(s) = "giveup" => View(s) = Asked
      /\ Op(s) # "giveup" => View(s) = row[Ride(s)]
  BY Seen
<1>2. /\ Op(s) = "accept" => st = "matched" /\ dr = Driver(s)
      /\ Op(s) = "giveup" => st = "no_driver_found" /\ dr = snap[s]["driver"]
      /\ Op(s) = "cancel" => st = "cancelled" /\ dr = snap[s]["driver"]
      /\ Op(s) = "complete" => st = "completed" /\ dr = snap[s]["driver"]
  OBVIOUS
<1>10. Op(s) \in Patching => st = Target(Op(s)) /\ dr = snap[s]["driver"]
  BY DEF Patching, Target
<1>3. Saved(s) = [c \in DOMAIN new |-> IF new[c] # base[s][c] THEN new[c] ELSE View(s)[c]]
  BY DEF Saved
<1> HIDE DEF st, dr
<1>4. DOMAIN new = {"status", "driver"} /\ new["status"] = st /\ new["driver"] = dr
  BY DEF Row
<1> HIDE DEF new
<1>5. Saved(s) = Row(a, b)
  BY <1>3, <1>4 DEF Row
<1>12. Op(s) \in {"accept", "giveup", "cancel", "complete"} => Op(s) \notin Patching
  BY DEF Patching
<1>6. CASE Op(s) = "accept"
  <2>1. base[s] = Asked /\ Driver(s) # Nobody
    BY <1>1, <1>6, SessionType, MatchingAssumption DEF Works, Accepts, WInv, IInv, Patching
  <2> QED BY <1>2, <1>5, <1>6, <1>12, <2>1, AskedType
<1>7. CASE Op(s) = "giveup"
  <2>1. base[s] = Asked /\ snap[s] = Asked
    BY <1>1, <1>7 DEF Works, GivesUp, Patching
  <2> QED BY <1>1, <1>2, <1>5, <1>7, <1>12, <2>1, AskedType
<1>8. CASE Op(s) = "cancel"
  <2>1. Cancels(s)
    BY <1>1, <1>8 DEF Works, Patching
  <2>2. a = "cancelled" /\ b = snap[s]["driver"]
    BY <1>1, <1>2, <1>8, <2>1 DEF Cancels, Ends
  <2> QED BY <1>5, <1>8, <1>12, <2>2
<1>9. CASE Op(s) = "complete"
  <2>1. Completes(s)
    BY <1>1, <1>9 DEF Works, Patching
  <2>2. a = "completed" /\ b = snap[s]["driver"]
    BY <1>1, <1>2, <1>9, <2>1 DEF Completes, Ends
  <2> QED BY <1>5, <1>9, <1>12, <2>2
<1>11. CASE Op(s) \in Patching
  <2>1. Patches(s) /\ Op(s) # "giveup"
    BY <1>1, <1>11 DEF Works, Patching
  <2>2. View(s) = row[Ride(s)] /\ base[s] = row[Ride(s)] /\ snap[s] = row[Ride(s)]
    BY <1>1, <2>1 DEF Patches
  <2>3. a = Target(Op(s)) /\ b = row[Ride(s)]["driver"]
    BY <1>10, <1>11, <2>2
  <2> QED BY <1>5, <1>11, <1>12, <2>3
<1> QED BY <1>6, <1>7, <1>8, <1>9, <1>11

\* Each step of a session leaves what its next step relies on.
LEMMA OwnSave ==
  ASSUME WInv, NEW s \in Actors, Read(s) \/ Write(s)
  PROVE  Works(s)' /\ Kind(s)' = Kind(s)
<1> USE DEF WInv, IInv
<1>1. /\ Ride(s) \in Rides /\ Works(s) /\ Op(s) \in Savers /\ pc[s] \in {"read", "write"}
      /\ Op(s) = "giveup" => View(s) = Asked
      /\ Op(s) # "giveup" => View(s) = row[Ride(s)]
  BY SessionType, Seen DEF Read, Write
<1>2. /\ Op(s)' = Op(s) /\ Ride(s)' = Ride(s) /\ Driver(s)' = Driver(s) /\ snap' = snap
      /\ row' = row /\ UNCHANGED <<offered, tried, claim, available, away, wave>>
  BY DEF Read, Write, local, redis, database, Op, Ride, Driver
<1>3. CASE Read(s)
  <2>1. /\ pc[s] = "read" /\ pc'[s] = "write" /\ base'[s] = View(s)
        /\ holder' = holder /\ draft' = draft
    BY <1>3 DEF Read, Goto, TypeOK, database
  <2>2. CASE Op(s) = "giveup"
    <3>1. GivesUp(s)'
      BY <1>1, <1>2, <2>1, <2>2 DEF Works, GivesUp, Asked, NoRow, Row, Patching
    <3> QED BY <1>2, <2>1, <2>2, <3>1 DEF Works, Kind
  <2>3. CASE Op(s) = "accept"
    <3>1. Accepts(s)'
      BY <1>1, <1>2, <2>1, <2>3 DEF Works, Accepts, Asked, NoRow, Row, Patching
    <3> QED BY <1>2, <2>1, <2>3, <3>1 DEF Works, Kind
  <2>4. CASE Op(s) = "cancel"
    <3>1. Cancels(s)'
      BY <1>1, <1>2, <2>1, <2>4 DEF Works, Cancels, Ends, Patching
    <3> QED BY <1>2, <2>1, <2>4, <3>1 DEF Works, Kind
  <2>5. CASE Op(s) = "complete"
    <3>1. Completes(s)'
      BY <1>1, <1>2, <2>1, <2>5 DEF Works, Completes, Ends, Patching
    <3> QED BY <1>2, <2>1, <2>5, <3>1 DEF Works, Kind
  <2>6. CASE Op(s) \in Patching
    <3>1. Patches(s)' /\ Op(s) # "giveup"
      BY <1>1, <1>2, <2>1, <2>6 DEF Works, Patches, Patching, Row
    <3> QED BY <1>2, <2>1, <2>6, <3>1 DEF Works, Kind
  <2> QED BY <1>1, <2>2, <2>3, <2>4, <2>5, <2>6 DEF Savers
<1>4. CASE Write(s)
  <2>1. /\ pc[s] = "write" /\ base' = base
        /\ Op(s) = "accept" => pc'[s] = "close"
        /\ Op(s) \in {"giveup", "cancel", "complete"} => pc'[s] = "clear"
        /\ Op(s) \in Patching => pc'[s] = "commit"
        /\ holder'[Ride(s)] = s /\ draft'[Ride(s)] = Saved(s)
    BY <1>1, <1>4 DEF Write, Goto, TypeOK, local, Patching
  <2>2. CASE Op(s) = "giveup"
    <3>1. draft'[Ride(s)] = Row("no_driver_found", Nobody)
      BY <2>1, <2>2, SavedIs
    <3>2. GivesUp(s)'
      BY <1>1, <1>2, <2>1, <2>2, <3>1 DEF Works, GivesUp, Asked, NoRow, Row
    <3> QED BY <1>2, <2>1, <2>2, <3>2 DEF Works, Kind
  <2>3. CASE Op(s) = "accept"
    <3>1. draft'[Ride(s)] = Row("matched", Driver(s))
      BY <2>1, <2>3, SavedIs
    <3>2. Accepts(s)'
      BY <1>1, <1>2, <2>1, <2>3, <3>1 DEF Works, Accepts, Asked, NoRow, Row
    <3> QED BY <1>2, <2>1, <2>3, <3>2 DEF Works, Kind
  <2>4. CASE Op(s) = "cancel"
    <3>1. draft'[Ride(s)] = Row("cancelled", snap[s]["driver"])
      BY <2>1, <2>4, SavedIs
    <3>2. Cancels(s)'
      BY <1>1, <1>2, <2>1, <2>4, <3>1 DEF Works, Cancels, Ends, Row
    <3> QED BY <1>2, <2>1, <2>4, <3>2 DEF Works, Kind
  <2>5. CASE Op(s) = "complete"
    <3>1. draft'[Ride(s)] = Row("completed", snap[s]["driver"])
      BY <2>1, <2>5, SavedIs
    <3>2. Completes(s)'
      BY <1>1, <1>2, <2>1, <2>5, <3>1 DEF Works, Completes, Ends, Row
    <3> QED BY <1>2, <2>1, <2>5, <3>2 DEF Works, Kind
  <2>6. CASE Op(s) \in Patching
    <3>1. draft'[Ride(s)] = Row(Target(Op(s)), row[Ride(s)]["driver"])
      BY <2>1, <2>6, SavedIs
    <3>2. Patches(s)' /\ Op(s) # "giveup"
      BY <1>1, <1>2, <2>1, <2>6, <3>1 DEF Works, Patches, Patching, Row
    <3> QED BY <1>2, <2>1, <2>6, <3>2 DEF Works, Kind
  <2> QED BY <1>1, <2>2, <2>3, <2>4, <2>5, <2>6 DEF Savers
<1> QED BY <1>3, <1>4


LEMMA OwnAnswer ==
  ASSUME WInv, NEW s \in Actors, Claim(s) \/ Close(s) \/ Refuse(s) \/ Count(s), Busy(s)'
  PROVE  Works(s)' /\ Kind(s)' = Kind(s)
<1> USE DEF WInv, IInv
<1>1. Ride(s) \in Rides /\ Works(s) /\ pc[s] \in {"claim", "close", "refuse", "count"}
  BY SessionType DEF Claim, Close, Refuse, Count, Busy
<1>2. ~Done(s)
  BY DoneParts
<1>3. /\ Op(s)' = Op(s) /\ Ride(s)' = Ride(s) /\ Driver(s)' = Driver(s)
      /\ row' = row /\ holder' = holder /\ draft' = draft /\ tried' = tried
      /\ snap' = snap /\ base' = base
  BY <1>2 DEF Claim, Close, Refuse, Count, local, database, redis, Op, Ride, Driver
<1>4. CASE Claim(s)
  <2>1. /\ Op(s) = "accept" /\ pc[s] = "claim" /\ pc'[s] = "read"
        /\ claim[Ride(s)] = Nobody /\ claim'[Ride(s)] = Driver(s)
    BY <1>1, <1>2, <1>4, Where DEF Claim, Goto, TypeOK
  <2>2. Accepts(s)'
    BY <1>1, <1>3, <2>1 DEF Works, Accepts, Asked, NoRow, Row, Patching
  <2> QED BY <1>3, <2>1, <2>2 DEF Works, Kind
<1>5. CASE Close(s)
  <2>1. /\ Op(s) = "accept" /\ pc[s] = "close" /\ pc'[s] = "commit" /\ claim' = claim
        /\ offered'[Ride(s)] = {}
    BY <1>1, <1>5, Where DEF Close, Goto, TypeOK
  <2>2. Accepts(s)'
    BY <1>1, <1>3, <2>1 DEF Works, Accepts, Asked, NoRow, Row, Patching
  <2> QED BY <1>3, <2>1, <2>2 DEF Works, Kind
<1>6. CASE Refuse(s) \/ Count(s)
  <2>1. Op(s) = "decline" /\ pc'[s] \in {"count", "match", "commit"}
    BY <1>1, <1>6, Where DEF Refuse, Count, Goto, TypeOK
  <2>2. Declines(s)'
    BY <1>1, <1>3, <2>1 DEF Works, Declines, Asked, NoRow, Row, Patching
  <2> QED BY <1>3, <2>1, <2>2 DEF Works, Kind, Savers
<1> QED BY <1>4, <1>5, <1>6

LEMMA OwnWave ==
  ASSUME WInv, NEW s \in Actors, Match(s) \/ Open(s) \/ Notify(s)
  PROVE  Works(s)' /\ (Kind(s)' = Kind(s) \/ Op(s) = "decline")
<1> USE DEF WInv, IInv
<1>1. /\ Ride(s) \in Rides /\ Driver(s) \in Drivers \cup {Nobody} /\ Works(s)
      /\ pc[s] \in {"match", "open", "notify"}
  BY SessionType DEF Match, Open, Notify, Busy
<1>2. /\ Op(s) \in {"create", "decline", "expire"}
      /\ row' = row /\ holder' = holder /\ draft' = draft /\ snap' = snap
  BY <1>1, Where DEF Match, Open, Notify, local, database
<1>3. ASSUME job'[s] = job[s], pc'[s] \in {"open", "notify", "commit"},
             pc'[s] = "open" => wave'[s] \cap tried'[Ride(s)] = {}
      PROVE  Works(s)' /\ Kind(s)' = Kind(s)
  <2>1. Op(s)' = Op(s) /\ Ride(s)' = Ride(s)
    BY <1>3 DEF Op, Ride
  <2>2. /\ Op(s) = "create" => Creates(s)'
        /\ Op(s) = "decline" => Declines(s)'
        /\ Op(s) = "expire" => Expires(s)'
    BY <1>1, <1>2, <1>3, <2>1 DEF Works, Creates, Declines, Expires, Asked, NoRow, Row, Patching
  <2> QED BY <1>2, <1>3, <2>1, <2>2 DEF Works, Kind, Savers
<1>4. CASE Match(s)
  <2>1. redis' = redis
    BY <1>4 DEF Match
  <2>2. CASE /\ job' = [job EXCEPT ![s] = <<"giveup", Ride(s), Driver(s)>>]
             /\ Goto(s, "read") /\ UNCHANGED wave
    <3> DEFINE new == <<"giveup", Ride(s), Driver(s)>>
    <3>1. new[1] = "giveup" /\ new[2] = Ride(s)
      BY <1>1, JobType
    <3>2. job'[s] = new /\ pc'[s] = "read"
      BY <2>2 DEF Goto, TypeOK
    <3> HIDE DEF new
    <3>3. Op(s)' = "giveup" /\ Ride(s)' = Ride(s)
      BY <3>1, <3>2 DEF Op, Ride
    <3>4. /\ snap[s] = Asked
          /\ Op(s) = "create" => row[Ride(s)] = NoRow /\ holder[Ride(s)] = s
          /\ Op(s) # "create" => row[Ride(s)] = Asked
      BY <1>1, <1>2 DEF Works, Creates, Declines, Expires, Patching
    <3>5. GivesUp(s)'
      BY <1>2, <3>2, <3>3, <3>4 DEF GivesUp, Asked, NoRow, Row
    <3>6. Kind(s)' = IF row[Ride(s)] = NoRow THEN "create" ELSE "expire"
      BY <1>2, <3>3 DEF Kind, NoRow, Row
    <3> QED BY <1>2, <3>2, <3>3, <3>4, <3>5, <3>6, AskedType DEF Works, Kind
  <2>3. CASE Goto(s, "commit") /\ UNCHANGED <<job, wave>>
    BY <1>3, <2>3 DEF Goto, TypeOK
  <2>4. CASE /\ \E w \in Waves(Ride(s)) : wave' = [wave EXCEPT ![s] = w]
             /\ Goto(s, "open") /\ UNCHANGED job
    <3>1. PICK w \in Waves(Ride(s)) : wave' = [wave EXCEPT ![s] = w]
      BY <2>4
    <3>2. wave'[s] \cap tried'[Ride(s)] = {}
      BY <2>1, <3>1 DEF Waves, TypeOK, redis
    <3> QED BY <1>3, <2>4, <3>2 DEF Goto, TypeOK
  <2> QED BY <1>4, <2>2, <2>3, <2>4 DEF Match
<1>5. CASE Open(s) \/ Notify(s)
  BY <1>3, <1>5 DEF Open, Notify, Goto, TypeOK, local
<1> QED BY <1>4, <1>5

LEMMA OwnClear ==
  ASSUME WInv, NEW s \in Actors, Clear(s)
  PROVE  Works(s)' /\ Kind(s)' = Kind(s)
<1> USE DEF WInv, IInv
<1>1. /\ Ride(s) \in Rides /\ Works(s) /\ pc[s] = "clear" /\ snap[s] \in Rows
      /\ Op(s) \in {"giveup", "cancel", "complete", "retry"}
  BY SessionType, Where DEF Clear, Busy
<1>2. /\ Op(s)' = Op(s) /\ Ride(s)' = Ride(s) /\ pc'[s] = "commit" /\ snap' = snap
      /\ row' = row /\ holder' = holder /\ draft' = draft /\ base' = base
      /\ offered'[Ride(s)] = {} /\ claim'[Ride(s)] = Nobody
      /\ available' \cup away' = available \cup away \cup Freed(s)
  BY <1>1 DEF Clear, local, database, Op, Ride, Goto, TypeOK
<1>3. Op(s) \in {"cancel", "complete"} =>
         snap[s]["driver"] \in available' \cup away' \cup {Nobody}
  <2>1. SUFFICES ASSUME Op(s) \in {"cancel", "complete"}
                 PROVE  View(s)["driver"] = snap[s]["driver"]
    BY <1>2 DEF Freed
  <2>2. /\ holder[Ride(s)] = s
        /\ \/ draft[Ride(s)] = Row("cancelled", snap[s]["driver"])
           \/ draft[Ride(s)] = Row("completed", snap[s]["driver"])
    BY <1>1, <2>1 DEF Works, Cancels, Completes, Ends, Patching
  <2> QED BY <1>1, <2>2, RowParts, RowType DEF View, Statuses
<1>4. /\ Op(s) = "giveup" => GivesUp(s)'
      /\ Op(s) = "retry" => Retries(s)'
  BY <1>1, <1>2 DEF Works, GivesUp, Retries, Asked, NoRow, Row, Patching
<1>5. /\ Op(s) = "cancel" => Cancels(s)'
      /\ Op(s) = "complete" => Completes(s)'
  BY <1>1, <1>2, <1>3 DEF Works, Cancels, Completes, Ends, Row, Patching
<1> QED BY <1>1, <1>2, <1>4, <1>5 DEF Works, Kind

LEMMA OwnGoesOn ==
  ASSUME WInv, NEW s \in Actors, Continue(s) \/ Fail(s)
  PROVE  /\ Busy(s) /\ Works(s)
         /\ ~Busy(s)' => Op(s)' = "none"
         /\ Busy(s)' => Works(s)' /\ (Kind(s)' = Kind(s) \/ Op(s) = "decline")
<1>1. Busy(s)
  BY DEF Continue, Claim, Close, Refuse, Count, Match, Open, Notify, Read, Write, Conflict,
         Clear, Commit, Fail, Busy
<1>2. CASE Busy(s)'
  <2>1. ~Done(s)
    BY <1>2, DoneParts DEF WInv, IInv
  <2>2. \/ Claim(s) \/ Close(s) \/ Refuse(s) \/ Count(s) \/ Match(s) \/ Open(s) \/ Notify(s)
        \/ Read(s) \/ Write(s) \/ Clear(s)
    BY <2>1 DEF Continue, Conflict, Commit, Fail
  <2> QED BY <1>1, <1>2, <2>2, OwnAnswer, OwnWave, OwnSave, OwnClear DEF WInv
<1>3. CASE ~Busy(s)'
  <2>1. Done(s)
    BY <1>1, <1>3 DEF Continue, Claim, Close, Refuse, Count, Match, Open, Notify, Read, Write,
                Conflict, Clear, Commit, Fail, Busy, Goto, WInv, IInv, TypeOK
  <2> QED BY <1>1, <1>3, <2>1, DoneParts DEF WInv, IInv
<1> QED BY <1>2, <1>3


\* A request or a timer that starts relies on what it has loaded, and whatever
\* runs already may run beside it.
LEMMA Starts ==
  ASSUME WInv, NEW s \in Actors, NEW op \in AllRequests \cup {"expire"},
         NEW r \in Rides, NEW d \in Drivers \cup {Nobody}, NEW x, NEW step,
         Start(s, op, r, d, x, step), row' = row, overlaps = 0, overlaps' = 0
  PROVE  /\ ~Busy(s) /\ Op(s)' = op /\ Ride(s)' = r /\ Driver(s)' = d /\ pc'[s] = step
         /\ snap'[s] = x /\ Kind(s)' = op
         /\ \A u \in Actors \ {s} :
               /\ pc'[u] = pc[u] /\ job'[u] = job[u]
               /\ snap'[u] = snap[u] /\ base'[u] = base[u] /\ wave'[u] = wave[u]
         /\ \A u \in Actors \ {s} : Busy(u) => KeepsBeside(op, Kind(u))
<1> DEFINE new == <<op, r, d>>
<1>1. new[1] = op /\ new[2] = r /\ new[3] = d
  BY JobType
<1>2. /\ job' = [job EXCEPT ![s] = new] /\ pc' = [pc EXCEPT ![s] = step]
      /\ snap' = [snap EXCEPT ![s] = x] /\ UNCHANGED <<base, wave>> /\ pc[s] = "idle"
  BY DEF Start, Goto
<1> HIDE DEF new
<1>3. /\ ~Busy(s) /\ Op(s)' = op /\ Ride(s)' = r /\ Driver(s)' = d /\ pc'[s] = step
      /\ snap'[s] = x
      /\ \A u \in Actors \ {s} :
            /\ pc'[u] = pc[u] /\ job'[u] = job[u]
            /\ snap'[u] = snap[u] /\ base'[u] = base[u] /\ wave'[u] = wave[u]
  BY <1>1, <1>2 DEF WInv, IInv, TypeOK, Busy, Op, Ride, Driver
<1>4. Kind(s)' = op
  BY <1>3 DEF Kind, AllRequests, Patching
<1>5. ASSUME NEW u \in Actors \ {s}, Busy(u) PROVE KeepsBeside(op, Kind(u))
  <2>1. KeepsBeside(op, Op(u))
    BY <1>5 DEF Start, Busy
  <2>2. Op(u) # "giveup"
    BY <2>1 DEF KeepsBeside, KeptTogether
  <2> QED BY <2>1, <2>2 DEF Kind
<1> QED BY <1>3, <1>4, <1>5

\* The invariant after a step of one session, or of none.
LEMMA Together ==
  ASSUME WInv, NEW s \in Actors,
         \A u \in Actors \ {s} : Busy(u)' = Busy(u) /\ Op(u)' = Op(u),
         \A u \in Actors \ {s} : Busy(u) => Works(u)' /\ Kind(u)' = Kind(u),
         IF Busy(s)' THEN Works(s)' ELSE Op(s)' = "none",
         Busy(s)' => \A u \in Actors \ {s} : Busy(u) => KeepsBeside(Kind(s)', Kind(u))
  PROVE  /\ Beside'
         /\ \A u \in Actors : IF Busy(u)' THEN Works(u)' ELSE Op(u)' = "none"
BY DEF WInv, Beside, KeepsBeside


\* A ride that is created is nobody's yet.
LEMMA StartCreate ==
  ASSUME WInv, NEW s \in Sessions, NEW r \in Rides, Create(s, r), overlaps = 0, overlaps' = 0
  PROVE  /\ Works(s)' /\ \A u \in Actors \ {s} : Busy(u) => Steady(u)
         /\ Start(s, "create", r, Nobody, Asked, "match")
<1> USE DEF WInv, IInv
<1>1. s \in Actors
  BY DEF Actors
<1>2. Start(s, "create", r, Nobody, Asked, "match") /\ row' = row /\ row[r] = NoRow /\ holder[r] = Nobody
  BY DEF Create, Asked
<1>3. /\ Op(s)' = "create" /\ Ride(s)' = r /\ pc'[s] = "match" /\ snap'[s] = Asked
      /\ \A u \in Actors \ {s} :
            /\ pc'[u] = pc[u] /\ job'[u] = job[u]
            /\ snap'[u] = snap[u] /\ base'[u] = base[u] /\ wave'[u] = wave[u]
  BY <1>1, <1>2, Starts DEF AllRequests
<1>4. /\ holder'[r] = s /\ draft'[r] = Asked /\ UNCHANGED <<offered, tried, claim, available, away>>
      /\ \A q \in Rides \ {r} : holder'[q] = holder[q] /\ draft'[q] = draft[q]
  BY DEF Create, TypeOK, redis, Asked
<1>5. Works(s)'
  BY <1>2, <1>3, <1>4 DEF Works, Creates, Asked, NoRow, Row, Savers, Patching
<1>6. ASSUME NEW u \in Actors \ {s}, Busy(u) PROVE Steady(u)
  <2>1. Ride(u) \in Rides /\ Works(u) /\ u # Nobody
    BY <1>6, SessionType
  <2>2. Ride(u) # r \/ (holder'[r] # u /\ holder[r] # u)
    BY <1>2, <1>4, <2>1
  <2> QED BY <1>2, <1>3, <1>4, <2>1, <2>2 DEF Steady
<1> QED BY <1>2, <1>5, <1>6

\* The other requests, and the timers, start with a ride as it is.
LEMMA StartOther ==
  ASSUME WInv, NEW s \in Actors, NEW op \in AllRequests \cup {"expire"},
         NEW r \in Rides, NEW d \in Drivers \cup {Nobody}, NEW step,
         Start(s, op, r, d, row[r], step), op = "expire" => s \in Clocks,
         UNCHANGED <<database, redis>>, overlaps = 0, overlaps' = 0,
         \/ op = "accept" /\ step = "claim" /\ row[r]["status"] = "requested"
         \/ op = "decline" /\ step = "refuse" /\ row[r]["status"] = "requested"
         \/ op = "cancel" /\ step = "read" /\ row[r]["status"] \in {"requested", "matched"}
         \/ op = "complete" /\ step = "read" /\ row[r]["status"] = "matched"
         \/ op = "retry" /\ step = "clear" /\ row[r]["status"] = "completed"
         \/ op = "expire" /\ step = "match" /\ row[r]["status"] = "requested"
         \/ op \in Patching /\ step = "read" /\ Settable(op, row[r]["status"])
  PROVE  Works(s)' /\ \A u \in Actors \ {s} : Busy(u) => Steady(u)
<1> USE DEF WInv, IInv
<1>1. UNCHANGED <<row, holder, draft, offered, tried, claim, available, away>>
  BY DEF database, redis
<1>2. /\ pc[s] = "idle" /\ Op(s)' = op /\ Ride(s)' = r /\ pc'[s] = step /\ snap'[s] = row[r]
      /\ \A u \in Actors \ {s} :
            /\ pc'[u] = pc[u] /\ job'[u] = job[u]
            /\ snap'[u] = snap[u] /\ base'[u] = base[u] /\ wave'[u] = wave[u]
  BY <1>1, Starts DEF Busy
<1>3. holder[r] # s
  BY <1>2, HoldsNothing
<1>4. row[r]["status"] = "requested" => row[r] = Asked
  OBVIOUS
<1>5. row[r]["driver"] \in Drivers \cup {Nobody} /\ row[r] # NoRow
  BY RowParts, AskedType DEF TypeOK, Settable
<1>6. /\ op = "accept" => Accepts(s)'
      /\ op = "decline" => Declines(s)'
      /\ op = "retry" => Retries(s)'
      /\ op = "expire" => Expires(s)'
  BY <1>1, <1>2, <1>3, <1>4, <1>5 DEF Accepts, Declines, Retries, Expires, Asked, NoRow, Row, Patching
<1>7. /\ op = "cancel" => Cancels(s)'
      /\ op = "complete" => Completes(s)'
  BY <1>1, <1>2 DEF Cancels, Completes, Ends, Patching
<1>9. op \in Patching => Patches(s)'
  BY <1>1, <1>2 DEF Patches, Patching
<1>8. Works(s)'
  BY <1>2, <1>6, <1>7, <1>9 DEF Works
<1> QED BY <1>1, <1>2, <1>8 DEF Steady

\* A start keeps the invariant.
LEMMA StartKeeps ==
  ASSUME WInv, NEW s \in Actors, NEW op \in AllRequests \cup {"expire"},
         NEW r \in Rides, NEW d \in Drivers \cup {Nobody}, NEW x, NEW step,
         Start(s, op, r, d, x, step), row' = row, overlaps = 0, overlaps' = 0,
         op = "accept" => step = "claim",
         Works(s)', \A u \in Actors \ {s} : Busy(u) => Steady(u)
  PROVE  IInv' => WInv'
<1>1. /\ ~Busy(s) /\ Op(s)' = op /\ Ride(s)' = r /\ Driver(s)' = d /\ pc'[s] = step
      /\ Kind(s)' = op
      /\ \A u \in Actors \ {s} :
            /\ pc'[u] = pc[u] /\ job'[u] = job[u]
      /\ \A u \in Actors \ {s} : Busy(u) => KeepsBeside(op, Kind(u))
  BY Starts, SMTT(60)
<1>2. \A u \in Actors \ {s} : Busy(u)' = Busy(u) /\ Op(u)' = Op(u) /\ Ride(u)' = Ride(u)
  BY <1>1 DEF Busy, Op, Ride
<1>3. \A u \in Actors \ {s} : Busy(u) => Works(u)' /\ Kind(u)' = Kind(u)
  BY Undisturbed
<1>4. Busy(s)'
  BY Where DEF Works, Busy, Creates, Declines, Expires, Retries, Accepts, GivesUp, Cancels,
              Completes, Ends, Patches
<1>5. Beside' /\ \A u \in Actors : IF Busy(u)' THEN Works(u)' ELSE Op(u)' = "none"
  BY <1>1, <1>2, <1>3, <1>4, Together
<1>6. \A u \in Actors : Claimed(u)' => Claimed(u) /\ u # s
  BY <1>1, <1>2 DEF Claimed
<1>7. \A u, v \in Actors : u # v /\ Claimed(u)' /\ Claimed(v)' => Ride(u)' # Ride(v)'
  BY <1>2, <1>6 DEF WInv
<1>8. \A q \in Rides : row'[q]["status"] = "requested" => row'[q] = Asked'
  BY DEF WInv, Asked, Row
<1>9. \A q \in patched' : row'[q]["status"] \notin {"none", "requested"}
  BY DEF WInv, Start
<1> QED BY <1>5, <1>7, <1>8, <1>9 DEF WInv


LEMMA StartsKeep ==
  ASSUME WInv, IInv', NEW s \in Sessions, NEW r \in Rides, overlaps = 0, overlaps' = 0,
         \/ Create(s, r) \/ End(s, r) \/ Patch(s, r) \/ Retry(s, r)
         \/ \E d \in Drivers : Accept(s, r, d) \/ Decline(s, r, d)
  PROVE  WInv'
<1>1. s \in Actors
  BY DEF Actors
<1>2. CASE Create(s, r)
  <2>1. /\ Works(s)' /\ \A u \in Actors \ {s} : Busy(u) => Steady(u)
        /\ Start(s, "create", r, Nobody, Asked, "match") /\ row' = row
    BY <1>2, StartCreate DEF Create
  <2> QED BY <1>1, <2>1, StartKeeps DEF AllRequests
<1>3. CASE End(s, r)
  <2>1. UNCHANGED <<database, redis>>
    BY <1>3 DEF End
  <2>2. CASE Start(s, "cancel", r, Nobody, row[r], "read")
             /\ row[r]["status"] \in {"requested", "matched"}
    <3>1. Works(s)' /\ \A u \in Actors \ {s} : Busy(u) => Steady(u)
      BY <1>1, <2>1, <2>2, StartOther DEF AllRequests
    <3> QED BY <1>1, <2>1, <2>2, <3>1, StartKeeps DEF AllRequests, database
  <2>3. CASE Start(s, "complete", r, Nobody, row[r], "read") /\ row[r]["status"] = "matched"
    <3>1. Works(s)' /\ \A u \in Actors \ {s} : Busy(u) => Steady(u)
      BY <1>1, <2>1, <2>3, StartOther DEF AllRequests
    <3> QED BY <1>1, <2>1, <2>3, <3>1, StartKeeps DEF AllRequests, database
  <2> QED BY <1>3, <2>2, <2>3 DEF End
<1>4. CASE Retry(s, r)
  <2>1. Works(s)' /\ \A u \in Actors \ {s} : Busy(u) => Steady(u)
    BY <1>1, <1>4, StartOther DEF AllRequests, Retry
  <2> QED BY <1>1, <1>4, <2>1, StartKeeps DEF AllRequests, Retry, database
<1>5. ASSUME NEW d \in Drivers, Accept(s, r, d) PROVE WInv'
  <2>1. Works(s)' /\ \A u \in Actors \ {s} : Busy(u) => Steady(u)
    BY <1>1, <1>5, StartOther DEF AllRequests, Accept
  <2> QED BY <1>1, <1>5, <2>1, StartKeeps DEF AllRequests, Accept, database
<1>6. ASSUME NEW d \in Drivers, Decline(s, r, d) PROVE WInv'
  <2>1. Works(s)' /\ \A u \in Actors \ {s} : Busy(u) => Steady(u)
    BY <1>1, <1>6, StartOther DEF AllRequests, Decline
  <2> QED BY <1>1, <1>6, <2>1, StartKeeps DEF AllRequests, Decline, database
<1>7. CASE Patch(s, r)
  <2>1. PICK op \in Patching : /\ Settable(op, row[r]["status"])
                              /\ Start(s, op, r, Nobody, row[r], "read")
                              /\ UNCHANGED <<database, redis>>
    BY <1>7 DEF Patch
  <2>2. op \in AllRequests /\ op \notin {"accept", "expire"} /\ row' = row
    BY <2>1 DEF AllRequests, Patching, database
  <2>3. Works(s)' /\ \A u \in Actors \ {s} : Busy(u) => Steady(u)
    BY <1>1, <2>1, <2>2, StartOther
  <2> QED BY <1>1, <2>1, <2>2, <2>3, StartKeeps
<1> QED BY <1>2, <1>3, <1>4, <1>5, <1>6, <1>7

\* What runs in no session.
LEMMA AroundKeeps ==
  ASSUME WInv, IInv', UNCHANGED <<row, holder, draft, claim, tried, pc, local, patched>>,
         \A r \in Rides : offered'[r] \subseteq offered[r],
         available \cup away \subseteq available' \cup away'
  PROVE  WInv'
<1>1. \A u \in Actors : Steady(u)
  BY SessionType DEF Steady, local, WInv, IInv
<1>2. \A u \in Actors : /\ Busy(u)' = Busy(u) /\ Op(u)' = Op(u) /\ Ride(u)' = Ride(u)
                        /\ Kind(u)' = Kind(u) /\ Claimed(u)' = Claimed(u)
  BY DEF Busy, Op, Ride, Kind, Claimed, local, NoRow, Row
<1>3. \A u \in Actors : IF Busy(u)' THEN Works(u)' ELSE Op(u)' = "none"
  BY <1>1, <1>2, Undisturbed DEF WInv
<1>4. Beside'
  BY <1>2 DEF WInv, Beside
<1>5. \A u, v \in Actors : u # v /\ Claimed(u)' /\ Claimed(v)' => Ride(u)' # Ride(v)'
  BY <1>2 DEF WInv
<1>6. \A q \in Rides : row'[q]["status"] = "requested" => row'[q] = Asked'
  BY DEF WInv, Asked, Row
<1>7. \A q \in patched' : row'[q]["status"] \notin {"none", "requested"}
  BY DEF WInv
<1> QED BY <1>3, <1>4, <1>5, <1>6, <1>7 DEF WInv

\* A step of a session that runs.
LEMMA GoingOnKeeps ==
  ASSUME WInv, IInv', NEW s \in Actors, Continue(s) \/ Fail(s)
  PROVE  WInv'
<1> USE DEF IInv
<1>1. /\ Busy(s) /\ Works(s)
      /\ ~Busy(s)' => Op(s)' = "none"
      /\ Busy(s)' => Works(s)' /\ (Kind(s)' = Kind(s) \/ Op(s) = "decline")
  BY OwnGoesOn
<1>2. \A u \in Actors \ {s} : Busy(u) => Works(u)' /\ Kind(u)' = Kind(u)
  BY OthersGoOn
<1>3. \A u \in Actors \ {s} : pc'[u] = pc[u] /\ job'[u] = job[u]
  BY DoneParts DEF WInv, TypeOK, Continue, Claim, Close, Refuse, Count, Match, Open, Notify,
                   Read, Write, Conflict, Clear, Commit, Fail, Goto, local
<1>4. \A u \in Actors \ {s} : /\ Busy(u)' = Busy(u) /\ Op(u)' = Op(u) /\ Ride(u)' = Ride(u)
                              /\ Claimed(u)' = Claimed(u) /\ Driver(u)' = Driver(u)
  BY <1>3 DEF Busy, Op, Ride, Claimed, Driver
<1>5. Op(s) = "decline" => \A u \in Actors \ {s} : ~Busy(u)
  BY <1>1, SameRide
<1>6. Beside' /\ \A u \in Actors : IF Busy(u)' THEN Works(u)' ELSE Op(u)' = "none"
  <2>1. Busy(s)' => \A u \in Actors \ {s} : Busy(u) => KeepsBeside(Kind(s)', Kind(u))
    BY <1>1, <1>5 DEF WInv, Beside
  <2> QED BY <1>1, <1>2, <1>4, <2>1, Together
<1>7. Claimed(s)' => \/ Claimed(s) /\ Ride(s)' = Ride(s)
                     \/ Claim(s) /\ claim[Ride(s)] = Nobody /\ Ride(s)' = Ride(s)
  <2> SUFFICES ASSUME Claimed(s)'
               PROVE  \/ Claimed(s) /\ Ride(s)' = Ride(s)
                      \/ Claim(s) /\ claim[Ride(s)] = Nobody /\ Ride(s)' = Ride(s)
    OBVIOUS
  <2>1. ~Done(s)
    BY DoneParts DEF WInv, Claimed
  <2>2. CASE Claim(s)
    BY <2>1, <2>2 DEF Claim, local, Ride
  <2>3. CASE Match(s)
    <3>1. job'[s] = job[s]
      <4> DEFINE new == <<"giveup", Ride(s), Driver(s)>>
      <4>1. new[1] = "giveup"
        BY SessionType, JobType DEF WInv
      <4>2. job'[s] = new \/ job'[s] = job[s]
        BY <2>3 DEF Match, WInv, TypeOK
      <4> HIDE DEF new
      <4> QED BY <4>1, <4>2 DEF Claimed, Op
    <3> QED BY <1>1, <2>3, <3>1, Where DEF Match, Claimed, Op
  <2>4. CASE ~Claim(s) /\ ~Match(s)
    <3>1. /\ \/ Close(s) \/ Refuse(s) \/ Count(s) \/ Open(s) \/ Notify(s)
             \/ Read(s) \/ Write(s) \/ Clear(s)
          /\ job' = job
      BY <2>1, <2>4 DEF Continue, Conflict, Commit, Fail, Close, Refuse, Count, Open, Notify,
                        Read, Write, Clear, local
    <3>2. Op(s) = "accept" /\ Ride(s)' = Ride(s)
      BY <3>1 DEF Claimed, Op, Ride
    <3>3. pc[s] \in {"close", "read", "write"}
      BY <1>1, <3>1, <3>2, Where DEF Close, Refuse, Count, Open, Notify, Read, Write, Clear
    <3> QED BY <3>2, <3>3 DEF Claimed
  <2> QED BY <2>2, <2>3, <2>4
<1>8. \A u \in Actors \ {s} : Claimed(s)' /\ Claimed(u)' => Ride(s)' # Ride(u)'
  <2> SUFFICES ASSUME NEW u \in Actors \ {s}, Claimed(s)', Claimed(u)
               PROVE  Ride(s)' # Ride(u)
    BY <1>4
  <2>1. CASE Claimed(s) /\ Ride(s)' = Ride(s)
    BY <2>1 DEF WInv
  <2>2. CASE claim[Ride(s)] = Nobody /\ Ride(s)' = Ride(s)
    <3>1. Busy(u) /\ Op(u) = "accept" /\ pc[u] # "claim"
      BY DEF Claimed, Busy
    <3>2. Accepts(u)
      BY <3>1 DEF WInv, Works, Patching
    <3>3. claim[Ride(u)] # Nobody
      BY <3>1, <3>2, SessionType, MatchingAssumption DEF WInv, Accepts
    <3> QED BY <2>2, <3>3
  <2> QED BY <1>7, <2>1, <2>2
<1>9. \A u, v \in Actors : u # v /\ Claimed(u)' /\ Claimed(v)' => Ride(u)' # Ride(v)'
  BY <1>4, <1>8 DEF WInv
<1>10. \A q \in Rides : row'[q]["status"] = "requested" => row'[q] = Asked
  <2>1. CASE Commit(s)
    <3>1. \A q \in Rides :
             \/ row'[q] = row[q] \/ row'[q] = Asked \/ row'[q] = Row("matched", Driver(s))
             \/ row'[q] = Row("no_driver_found", Nobody)
             \/ row'[q] = Row("cancelled", snap[s]["driver"])
             \/ row'[q] = Row("completed", snap[s]["driver"])
             \/ row'[q] = Row(Target(Op(s)), row[Ride(s)]["driver"])
      BY <2>1, CommitParts DEF Works
    <3>2. /\ Driver(s) \in Drivers \cup {Nobody} /\ snap[s]["driver"] \in Drivers \cup {Nobody}
          /\ row[Ride(s)]["driver"] \in Drivers \cup {Nobody}
          /\ Target(Op(s)) \in Statuses \ {"none", "requested"}
      BY SessionType, RowParts DEF WInv, Target, Statuses
    <3> QED BY <3>1, <3>2, RowType DEF WInv, Statuses
  <2>2. CASE ~Commit(s)
    <3>1. row' = row
      BY <2>2 DEF Continue, Claim, Close, Refuse, Count, Match, Open, Notify, Read, Write,
                  Conflict, Clear, Fail, database
    <3> QED BY <3>1 DEF WInv
  <2> QED BY <2>1, <2>2
<1>11. \A q \in Rides : row'[q]["status"] = "requested" => row'[q] = Asked'
  BY <1>10 DEF Asked, Row
<1>12. \A q \in patched' : row'[q]["status"] \notin {"none", "requested"}
  <2>1. CASE Commit(s)
    <3>1. /\ Driver(s) \in Drivers \cup {Nobody} /\ snap[s]["driver"] \in Drivers \cup {Nobody}
          /\ row[Ride(s)]["driver"] \in Drivers \cup {Nobody}
          /\ Target(Op(s)) \in Statuses \ {"none", "requested"}
      BY SessionType, RowParts DEF WInv, Target, Statuses
    <3>2. \A q \in patched :
             \/ row'[q] = row[q] \/ row'[q] = Row("matched", Driver(s))
             \/ row'[q] = Row("no_driver_found", Nobody)
             \/ row'[q] = Row("cancelled", snap[s]["driver"])
             \/ row'[q] = Row("completed", snap[s]["driver"])
             \/ row'[q] = Row(Target(Op(s)), row[Ride(s)]["driver"])
      <4>1. \A q \in patched : q \in Rides /\ row[q] # NoRow
        BY AskedType DEF WInv, TypeOK
      <4>2. Op(s) = "create" => row[Ride(s)] = NoRow
        BY <1>1, <2>1, CommitParts DEF Works, Creates, Patching
      <4> QED BY <1>1, <2>1, <4>1, <4>2, CommitParts DEF Works
    <3>3. \A q \in patched' : q \in patched \/ (q = Ride(s) /\ Op(s) \in Patching)
      BY <2>1, CommitParts
    <3> QED BY <2>1, <3>1, <3>2, <3>3, CommitParts, RowType DEF WInv, Statuses
  <2>2. CASE ~Commit(s)
    <3>1. row' = row /\ patched' = patched
      BY <2>2 DEF Continue, Claim, Close, Refuse, Count, Match, Open, Notify, Read, Write,
                  Conflict, Clear, Fail, database, past
    <3> QED BY <3>1 DEF WInv
  <2> QED BY <2>1, <2>2
<1> QED BY <1>6, <1>9, <1>11, <1>12 DEF WInv

LEMMA WorkStep ==
  ASSUME WInv, [Next]_vars, overlaps = 0, overlaps' = 0
  PROVE  WInv'
<1>1. IInv'
  BY InvStep DEF WInv
<1>2. ASSUME NEW s \in Clocks, NEW r \in Rides, Fire(s, r) PROVE WInv'
  <2>1. UNCHANGED <<database, redis>>
    BY <1>2 DEF Fire
  <2>2. CASE Start(s, "expire", r, Nobody, row[r], "match") /\ row[r]["status"] = "requested"
    <3>1. Works(s)' /\ \A u \in Actors \ {s} : Busy(u) => Steady(u)
      BY <2>1, <2>2, StartOther DEF Actors
    <3> QED BY <1>1, <2>1, <2>2, <3>1, StartKeeps DEF Actors, database
  <2>3. CASE UNCHANGED <<pc, local, past>>
    BY <1>1, <2>1, <2>3, AroundKeeps DEF database, redis, past
  <2> QED BY <1>2, <2>2, <2>3 DEF Fire
<1>3. ASSUME NEW d \in Drivers, SwitchOn(d) \/ SwitchOff(d) PROVE WInv'
  BY <1>1, <1>3, AroundKeeps DEF SwitchOn, SwitchOff, database, past
<1>4. ASSUME NEW r \in Rides, Lapse(r) PROVE WInv'
  <2>1. \A q \in Rides : offered'[q] \subseteq offered[q]
    BY <1>4 DEF Lapse, WInv, IInv, TypeOK
  <2> QED BY <1>1, <1>4, <2>1, AroundKeeps DEF Lapse, database, past
<1>5. ASSUME Restart PROVE WInv'
  <2> DEFINE none == NoJob(CHOOSE r \in Rides : TRUE)
  <2>1. none[1] = "none"
    BY NoJobType
  <2>2. job' = [s \in Actors |-> none] /\ pc' = [s \in Actors |-> "idle"] /\ row' = row
    BY <1>5 DEF Restart
  <2> HIDE DEF none
  <2>3. \A s \in Actors : ~Busy(s)' /\ Op(s)' = "none" /\ ~Claimed(s)'
    BY <2>1, <2>2 DEF Busy, Op, Claimed
  <2>4. \A q \in Rides : row'[q]["status"] = "requested" => row'[q] = Asked'
    BY <2>2 DEF WInv, Asked, Row
  <2>5. \A q \in patched' : row'[q]["status"] \notin {"none", "requested"}
    BY <1>5, <2>2 DEF WInv, Restart
  <2> QED BY <1>1, <2>3, <2>4, <2>5 DEF WInv, Beside
<1>6. CASE UNCHANGED vars
  BY <1>1, <1>6, AroundKeeps DEF vars, database, redis, past
<1> QED BY <1>1, <1>2, <1>3, <1>4, <1>5, <1>6, StartsKeep, GoingOnKeeps DEF Next


----------------------------------------------------------------------------
(* What is left when requests are over. *)

LEMMA InitLeft == Init => WInv /\ Left
<1> SUFFICES ASSUME Init PROVE WInv /\ Left
  OBVIOUS
<1> DEFINE none == NoJob(CHOOSE r \in Rides : TRUE)
<1>1. none[1] = "none"
  BY NoJobType
<1>2. job = [s \in Actors |-> none] /\ pc = [s \in Actors |-> "idle"]
  BY DEF Init
<1> HIDE DEF none
<1>3. \A s \in Actors : ~Busy(s) /\ Op(s) = "none" /\ ~Claimed(s)
  BY <1>1, <1>2 DEF Busy, Op, Claimed
<1>4. \A r \in Rides : row[r]["status"] # "requested"
  BY AskedType DEF Init
<1>5. WInv
  BY <1>3, <1>4, InitInv DEF WInv, Beside, Init
<1>6. Left
  BY DEF Init, Left
<1> QED BY <1>5, <1>6

\* A session that has claimed its ride keeps it until it ends.
LEMMA ClaimGoesOn ==
  ASSUME WInv, [Next]_vars, NEW s \in Actors, Claimed(s), ~Done(s), ~Restart
  PROVE  Claimed(s)' /\ Ride(s)' = Ride(s) /\ Driver(s)' = Driver(s)
<1> USE DEF WInv, IInv
<1>1. Busy(s) /\ Works(s) /\ pc[s] \in {"read", "write", "close", "commit"} /\ Op(s) = "accept"
  BY DEF Claimed, Busy
<1>2. CASE pc'[s] = pc[s] /\ job'[s] = job[s]
  BY <1>2 DEF Claimed, Op, Ride, Driver
<1>3. CASE Read(s) \/ Write(s) \/ Close(s)
  BY <1>1, <1>3 DEF Read, Write, Close, Claimed, Op, Ride, Driver, Goto, TypeOK, local
<1>4. ASSUME NEW u \in Actors \ {s}, Continue(u) \/ Fail(u) PROVE pc'[s] = pc[s] /\ job'[s] = job[s]
  BY <1>4, DoneParts DEF Continue, Claim, Close, Refuse, Count, Match, Open, Notify,
                         Read, Write, Conflict, Clear, Commit, Fail, Goto, TypeOK, local
<1>5. ASSUME Continue(s) \/ Fail(s) PROVE Read(s) \/ Write(s) \/ Close(s)
  BY <1>1, <1>5 DEF Continue, Claim, Refuse, Count, Match, Open, Notify, Conflict, Clear,
                    Commit, Fail
<1>6. ASSUME NEW u \in Actors, NEW op, NEW r, NEW d, NEW x, NEW step, Start(u, op, r, d, x, step)
      PROVE  pc'[s] = pc[s] /\ job'[s] = job[s]
  BY <1>1, <1>6 DEF Start, Goto, TypeOK, Busy
<1>7. ASSUME NEW u \in Sessions, NEW r \in Rides,
             \/ Create(u, r) \/ End(u, r) \/ Patch(u, r) \/ Retry(u, r)
             \/ \E d \in Drivers : Accept(u, r, d) \/ Decline(u, r, d)
      PROVE  pc'[s] = pc[s] /\ job'[s] = job[s]
  BY <1>6, <1>7 DEF Create, End, Patch, Retry, Accept, Decline, Actors
<1>8. ASSUME NEW u \in Clocks, NEW r \in Rides, Fire(u, r)
      PROVE  pc'[s] = pc[s] /\ job'[s] = job[s]
  BY <1>6, <1>8 DEF Fire, Actors, local
<1>9. ASSUME \/ \E d \in Drivers : SwitchOn(d) \/ SwitchOff(d)
             \/ \E r \in Rides : Lapse(r)
             \/ UNCHANGED vars
      PROVE  pc'[s] = pc[s] /\ job'[s] = job[s]
  BY <1>9 DEF SwitchOn, SwitchOff, Lapse, local, vars
<1> QED BY <1>2, <1>3, <1>4, <1>5, <1>7, <1>8, <1>9 DEF Next

\* But for commits, failures and restarts, rides and locks stay.
LEMMA RowsStay ==
  ASSUME WInv, [Next]_vars, faults' = faults
  PROVE  \/ \E s \in Actors : Commit(s)
         \/ row' = row /\ \A r \in Rides : holder[r] # Nobody => holder'[r] # Nobody
<1> USE DEF WInv, IInv
<1>1. ~Restart /\ \A s \in Actors : ~Fail(s)
  BY MatchingAssumption DEF Restart, Fail, TypeOK
<1>2. ASSUME NEW s \in Sessions, NEW r \in Rides, Create(s, r)
      PROVE  row' = row /\ \A q \in Rides : holder[q] # Nobody => holder'[q] # Nobody
  BY <1>2, MatchingAssumption DEF Create, TypeOK, Actors
<1>3. ASSUME NEW s \in Actors, Write(s)
      PROVE  row' = row /\ \A q \in Rides : holder[q] # Nobody => holder'[q] # Nobody
  BY <1>3, MatchingAssumption DEF Write, TypeOK
<1>4. ASSUME row' = row, holder' = holder
      PROVE  row' = row /\ \A q \in Rides : holder[q] # Nobody => holder'[q] # Nobody
  BY <1>4
<1> QED BY <1>1, <1>2, <1>3, <1>4
        DEF Next, Continue, End, Patch, Retry, Accept, Decline, Fire, Claim, Close, Refuse,
            Count, Match, Open, Notify, Read, Conflict, Clear, SwitchOn, SwitchOff, Lapse, vars,
            database

\* What PATCH has set remains set.
LEMMA PatchedGrows ==
  ASSUME [Next]_vars
  PROVE  patched \subseteq patched'
BY DEF Next, Continue, Create, End, Patch, Retry, Accept, Decline, Fire, Start, Claim, Close,
       Refuse, Count, Match, Open, Notify, Read, Write, Conflict, Clear, Commit, Fail,
       SwitchOn, SwitchOff, Lapse, Restart, vars, past

LEMMA OffersLeft ==
  ASSUME WInv, [Next]_vars, faults' = faults, Left, NEW r \in Rides \ patched', offered'[r] # {}
  PROVE  row'[r] = Asked \/ (row'[r] = NoRow /\ holder'[r] # Nobody)
<1> USE DEF WInv, IInv
<1>3. r \notin patched
  BY PatchedGrows
<1>1. CASE \E s \in Actors : Commit(s)
  <2>1. PICK s \in Actors : Commit(s)
    BY <1>1
  <2>2. /\ Works(s) /\ pc[s] = "commit" /\ offered' = offered
        /\ holder'[r] = (IF holder[r] = s THEN Nobody ELSE holder[r])
    BY <2>1, CommitParts DEF Commit, Unlock, redis
  <2>3. row[r] = Asked \/ (row[r] = NoRow /\ holder[r] # Nobody)
    BY <1>3, <2>2 DEF Left
  <2>4. CASE holder[r] = s /\ r = Ride(s)
    <3>2. Op(s) \notin Patching
      BY <2>1, <2>4, CommitParts
    <3>1. Op(s) \notin Savers
      BY <2>2, <2>4, <3>2 DEF Works
    <3> QED BY <2>1, <2>2, <2>4, <3>1, CommitParts DEF Works, Savers
  <2>5. CASE holder[r] # s
    BY <2>1, <2>2, <2>3, <2>5, CommitParts
  <2> QED BY <2>4, <2>5 DEF Locking, Holds
<1>2. CASE row' = row /\ \A q \in Rides : holder[q] # Nobody => holder'[q] # Nobody
  <2>1. CASE offered'[r] \subseteq offered[r]
    BY <1>2, <1>3, <2>1 DEF Left
  <2>2. ASSUME NEW s \in Actors, Open(s), ~(offered'[r] \subseteq offered[r])
        PROVE  row[r] = Asked \/ (row[r] = NoRow /\ holder[r] # Nobody)
    <3>1. Ride(s) = r
      BY <2>2, SessionType DEF Open, TypeOK
    <3>2. Works(s) /\ pc[s] = "open" /\ Op(s) \in {"create", "decline", "expire"}
      BY <2>2, Where DEF Open, Busy
    <3> QED BY <3>1, <3>2, MatchingAssumption DEF Works, Creates, Declines, Expires, Patching
  <2>3. offered'[r] \subseteq offered[r] \/ \E s \in Actors : Open(s)
    BY DEF Next, Continue, Create, End, Patch, Retry, Accept, Decline, Fire, Claim, Close, Refuse,
           Count, Match, Notify, Read, Write, Conflict, Clear, Commit, Fail, SwitchOn,
           SwitchOff, Lapse, Restart, vars, redis, TypeOK
  <2> QED BY <1>2, <2>1, <2>2, <2>3
<1> QED BY <1>1, <1>2, RowsStay


\* The end of a request that has claimed its ride.
LEMMA ClaimEnds ==
  ASSUME WInv, [Next]_vars, faults' = faults, NEW s \in Actors, Claimed(s), Done(s)
  PROVE  \/ Commit(s)
         \/ Conflict(s) /\ claim'[Ride(s)] = Nobody
<1> USE DEF WInv, IInv
<1>1. Busy(s) /\ Works(s) /\ pc[s] # "claim" /\ Op(s) = "accept"
  BY DEF Claimed, Busy
<1>2. ~Busy(s)'
  BY DoneParts
<1>3. ASSUME NEW u \in Actors \ {s}, Continue(u) PROVE FALSE
  BY <1>1, <1>2, <1>3, DoneParts
     DEF Continue, Claim, Close, Refuse, Count, Match, Open, Notify, Read, Write, Conflict,
         Clear, Commit, Goto, TypeOK, Busy
<1>4. ASSUME Continue(s) PROVE Conflict(s) \/ Commit(s)
  BY <1>1, <1>2, <1>4, SessionType
     DEF Continue, Claim, Close, Refuse, Count, Match, Open, Notify, Read, Write, Clear,
         Goto, TypeOK, Busy
<1>5. ASSUME NEW u \in Actors, NEW op, NEW r, NEW d, NEW x, NEW step, Start(u, op, r, d, x, step)
      PROVE  pc'[s] = pc[s]
  BY <1>1, <1>5 DEF Start, Goto, TypeOK, Busy
<1>6. ASSUME NEW u \in Sessions, NEW r \in Rides,
             \/ Create(u, r) \/ End(u, r) \/ Patch(u, r) \/ Retry(u, r)
             \/ \E d \in Drivers : Accept(u, r, d) \/ Decline(u, r, d)
      PROVE  FALSE
  BY <1>1, <1>2, <1>5, <1>6 DEF Create, End, Patch, Retry, Accept, Decline, Actors, Busy
<1>7. ASSUME NEW u \in Clocks, NEW r \in Rides, Fire(u, r) PROVE FALSE
  BY <1>1, <1>2, <1>5, <1>7 DEF Fire, Actors, Busy
<1>8. ASSUME \/ \E d \in Drivers : SwitchOn(d) \/ SwitchOff(d)
             \/ \E r \in Rides : Lapse(r)
             \/ UNCHANGED vars
      PROVE  FALSE
  BY <1>1, <1>2, <1>8 DEF SwitchOn, SwitchOff, Lapse, vars, Busy
<1>9. ~Restart /\ \A u \in Actors : ~Fail(u)
  BY MatchingAssumption DEF Restart, Fail, TypeOK
<1>10. Conflict(s) => claim'[Ride(s)] = Nobody
  BY <1>1, SessionType DEF Conflict, Released, TypeOK
<1> QED BY <1>3, <1>4, <1>6, <1>7, <1>8, <1>9, <1>10 DEF Next

\* A ride that is matched when a request commits was ended by it, or is not
\* its own.
LEMMA MatchedStays ==
  ASSUME WInv, NEW s \in Actors, Commit(s), NEW r \in Rides, NEW d \in Drivers,
         row[r] = Row("matched", d)
  PROVE  \/ row'[r] = row[r]
         \/ /\ Ride(s) = r /\ Op(s) \in {"cancel", "complete"} /\ snap[s]["driver"] = d
            /\ claim[r] = Nobody
         \/ r \in patched' /\ row'[r]["driver"] = d
<1> USE DEF WInv, IInv
<1>1. row[r]["status"] = "matched" /\ row[r]["driver"] = d
  BY RowType DEF Statuses
<1>2. CASE row'[r] # row[r]
  <2>1. /\ Ride(s) = r /\ holder[r] = s /\ Works(s) /\ pc[s] = "commit"
        /\ Op(s) \notin {"decline", "expire", "retry"}
    BY <1>2, CommitParts DEF Commit
  <2>2. Op(s) \notin {"create", "giveup", "accept"}
    BY <1>1, <2>1, AskedType DEF Works, Creates, GivesUp, Accepts, Patching
  <2>4. CASE Op(s) \in Patching
    <3>1. row'[r] = Row(Target(Op(s)), d) /\ r \in patched'
      BY <1>1, <2>1, <2>4, CommitParts
    <3>2. Target(Op(s)) \in Statuses
      BY DEF Target, Statuses
    <3> QED BY <3>1, <3>2, RowType
  <2>5. CASE Op(s) \notin Patching
    <3>1. Op(s) \in {"cancel", "complete"} /\ snap[s]["driver"] = d
      BY <1>1, <2>1, <2>2, <2>5 DEF Works, Cancels, Completes, Ends
    <3> QED BY <2>1, <2>5, <3>1 DEF Works, Savers
  <2> QED BY <2>4, <2>5
<1> QED BY <1>2

LEMMA ClaimsLeft ==
  ASSUME WInv, [Next]_vars, faults' = faults, Left, NEW r \in Rides \ patched', claim'[r] # Nobody
  PROVE  \/ row'[r] = Row("matched", claim'[r])
         \/ \E s \in Actors : Claimed(s)' /\ Ride(s)' = r /\ Driver(s)' = claim'[r]
<1> USE DEF WInv, IInv
<1>1. ASSUME NEW s \in Actors, Claim(s), claim'[r] # claim[r]
      PROVE  Claimed(s)' /\ Ride(s)' = r /\ Driver(s)' = claim'[r]
  <2>1. Works(s) /\ Op(s) = "accept" /\ Ride(s) \in Rides
    BY <1>1, Where, SessionType DEF Claim, Busy
  <2> QED BY <1>1, <2>1 DEF Claim, Claimed, Goto, TypeOK, local, Op, Ride, Driver
<1>2. claim'[r] = claim[r] \/ \E s \in Actors : Claim(s)
  <2>1. ~Restart /\ \A s \in Actors : ~Fail(s)
    BY MatchingAssumption DEF Restart, Fail, TypeOK
  <2>2. ASSUME NEW s \in Actors, Conflict(s) \/ Clear(s) PROVE claim'[r] = claim[r]
    BY <2>2, SessionType DEF Conflict, Clear, Released, TypeOK
  <2>3. ASSUME claim' = claim PROVE claim'[r] = claim[r]
    BY <2>3
  <2> QED BY <2>1, <2>2, <2>3
          DEF Next, Continue, Create, End, Patch, Retry, Accept, Decline, Fire, Close, Refuse, Count,
              Match, Open, Notify, Read, Write, Commit, SwitchOn, SwitchOff, Lapse, vars, redis
<1>3. CASE claim'[r] = claim[r]
  <2>1. claim[r] \in Drivers
    BY <1>3 DEF TypeOK
  <2>2. CASE row[r] = Row("matched", claim[r])
    <3>1. CASE row'[r] = row[r]
      BY <1>3, <2>2, <3>1
    <3>2. CASE row'[r] # row[r]
      <4>1. PICK s \in Actors : Commit(s)
        BY <3>2, RowsStay
      <4> QED BY <1>3, <2>1, <2>2, <3>2, <4>1, MatchedStays
    <3> QED BY <3>1, <3>2
  <2>3. ASSUME NEW s \in Actors, Claimed(s), Ride(s) = r, Driver(s) = claim[r]
        PROVE  \/ row'[r] = Row("matched", claim'[r])
               \/ Claimed(s)' /\ Ride(s)' = r /\ Driver(s)' = claim'[r]
    <3>1. CASE Done(s)
      <4>1. Commit(s) /\ Op(s) = "accept"
        BY <1>3, <2>1, <2>3, <3>1, ClaimEnds, MatchingAssumption DEF Claimed
      <4> QED BY <1>3, <2>3, <4>1, CommitParts
    <3>2. CASE ~Done(s)
      <4>1. ~Restart
        BY DEF Restart, TypeOK
      <4> QED BY <1>3, <2>3, <3>2, <4>1, ClaimGoesOn
    <3> QED BY <3>1, <3>2
  <2>4. r \notin patched
    BY PatchedGrows
  <2> QED BY <1>3, <2>2, <2>3, <2>4 DEF Left
<1> QED BY <1>1, <1>2, <1>3

LEMMA PoolLeft ==
  ASSUME WInv, [Next]_vars, faults' = faults, Left, NEW d \in Drivers
  PROVE  \/ d \in available' \cup away' \/ OnRide(d)'
         \/ \E r \in patched' : row'[r]["driver"] = d
         \/ \E s \in Actors : Op(s)' = "accept" /\ pc'[s] = "commit" /\ Driver(s)' = d
<1> USE DEF WInv, IInv
<1>1. ASSUME NEW s \in Actors, Close(s), d = Driver(s)
      PROVE  Op(s)' = "accept" /\ pc'[s] = "commit" /\ Driver(s)' = d
  <2>1. Works(s) /\ Op(s) = "accept"
    BY <1>1, Where DEF Close, Busy
  <2> QED BY <1>1, <2>1 DEF Close, Goto, TypeOK, local, Op, Driver
<1>2. CASE d \in available \cup away
  <2>1. ~Restart /\ \A s \in Actors : ~Fail(s)
    BY MatchingAssumption DEF Restart, Fail, TypeOK
  <2>2. ASSUME NEW s \in Actors, Clear(s) PROVE d \in available' \cup away'
    BY <1>2, <2>2 DEF Clear
  <2>3. ASSUME NEW s \in Actors, Close(s), d # Driver(s) PROVE d \in available' \cup away'
    BY <1>2, <2>3 DEF Close
  <2>4. ASSUME NEW e \in Drivers, SwitchOn(e) \/ SwitchOff(e) PROVE d \in available' \cup away'
    BY <1>2, <2>4 DEF SwitchOn, SwitchOff
  <2>5. ASSUME available' = available, away' = away PROVE d \in available' \cup away'
    BY <1>2, <2>5
  <2> QED BY <1>1, <2>1, <2>2, <2>3, <2>4, <2>5
          DEF Next, Continue, Create, End, Patch, Retry, Accept, Decline, Fire, Claim, Refuse, Count,
              Match, Open, Notify, Read, Write, Conflict, Commit, Lapse, vars, redis
<1>3. ASSUME NEW r \in Rides, row[r] = Row("matched", d)
      PROVE  \/ d \in available' \cup away' \/ OnRide(d)'
             \/ \E q \in patched' : row'[q]["driver"] = d
  <2>1. CASE row'[r] = row[r]
    BY <1>3, <2>1 DEF OnRide, Row
  <2>2. CASE row'[r] # row[r]
    <3>1. PICK s \in Actors : Commit(s)
      BY <2>2, RowsStay
    <3>2. CASE Op(s) \in {"cancel", "complete"} /\ snap[s]["driver"] = d
      <4>1. Works(s) /\ pc[s] = "commit" /\ available' = available /\ away' = away
        BY <3>1, CommitParts DEF Commit, redis
      <4>2. d \in available \cup away \cup {Nobody}
        BY <3>2, <4>1 DEF Works, Cancels, Completes, Ends, Patching
      <4> QED BY <4>1, <4>2, MatchingAssumption
    <3> QED BY <1>3, <2>2, <3>1, <3>2, MatchedStays
  <2> QED BY <2>1, <2>2
<1>4. ASSUME NEW s \in Actors, Op(s) = "accept", pc[s] = "commit", Driver(s) = d
      PROVE  OnRide(d)' \/ (Op(s)' = "accept" /\ pc'[s] = "commit" /\ Driver(s)' = d)
  <2>1. Claimed(s) /\ pc[s] # "idle" /\ Ride(s) \in Rides
    BY <1>4, SessionType DEF Claimed
  <2>2. CASE Done(s)
    <3>1. Commit(s)
      BY <1>4, <2>1, <2>2, ClaimEnds DEF Conflict
    <3>2. row'[Ride(s)] = Row("matched", d)
      BY <1>4, <3>1, CommitParts
    <3> QED BY <2>1, <3>2 DEF OnRide, Row
  <2>3. CASE ~Done(s)
    <3>1. ~Restart
      BY DEF Restart, TypeOK
    <3>2. pc'[s] = "commit"
      <4>1. ASSUME NEW u \in Actors, Continue(u) \/ Fail(u) PROVE pc'[s] = pc[s]
        BY <1>4, <2>3, <4>1, DoneParts
           DEF Continue, Claim, Close, Refuse, Count, Match, Open, Notify, Read, Write,
               Conflict, Clear, Commit, Fail, Goto, TypeOK
      <4>2. ASSUME NEW u \in Actors, NEW op, NEW r, NEW e, NEW x, NEW step,
                   Start(u, op, r, e, x, step)
            PROVE  pc'[s] = pc[s]
        BY <1>4, <4>2 DEF Start, Goto, TypeOK
      <4>3. ASSUME NEW u \in Sessions, NEW r \in Rides,
                   \/ Create(u, r) \/ End(u, r) \/ Patch(u, r) \/ Retry(u, r)
                   \/ \E e \in Drivers : Accept(u, r, e) \/ Decline(u, r, e)
            PROVE  pc'[s] = pc[s]
        BY <4>2, <4>3 DEF Create, End, Patch, Retry, Accept, Decline, Actors
      <4>4. ASSUME NEW u \in Clocks, NEW r \in Rides, Fire(u, r) PROVE pc'[s] = pc[s]
        BY <4>2, <4>4 DEF Fire, Actors
      <4> QED BY <1>4, <3>1, <4>1, <4>3, <4>4 DEF Next, SwitchOn, SwitchOff, Lapse, vars
    <3> QED BY <2>1, <2>3, <3>1, <3>2, <1>4, ClaimGoesOn DEF Claimed
  <2> QED BY <2>2, <2>3
<1>5. ASSUME NEW r \in patched, row[r]["driver"] = d
      PROVE  \E q \in patched' : row'[q]["driver"] = d
  <2>1. r \in patched' /\ r \in Rides
    BY PatchedGrows DEF TypeOK
  <2>2. CASE row'[r] = row[r]
    BY <1>5, <2>1, <2>2
  <2>3. CASE row'[r] # row[r]
    <3>1. PICK s \in Actors : Commit(s)
      BY <2>3, RowsStay
    <3>2. /\ Ride(s) = r /\ holder[r] = s /\ Works(s) /\ pc[s] = "commit"
          /\ Op(s) \notin {"decline", "expire", "retry"}
      BY <2>1, <2>3, <3>1, CommitParts DEF Commit
    <3>3. Op(s) \notin {"create", "giveup", "accept"}
      BY <3>2, AskedType DEF Works, Creates, GivesUp, Accepts, Patching
    <3>4. snap[s]["driver"] \in Drivers \cup {Nobody} /\ Target(Op(s)) \in Statuses
      BY SessionType, RowParts DEF Target, Statuses
    <3>5. CASE Op(s) \in Patching
      <4>1. row'[r] = Row(Target(Op(s)), d)
        BY <1>5, <3>1, <3>2, <3>5, CommitParts
      <4> QED BY <2>1, <3>4, <4>1, RowType
    <3>6. CASE Op(s) \in {"cancel", "complete"}
      <4>1. snap[s]["driver"] = d
        BY <1>5, <3>2, <3>6 DEF Works, Cancels, Completes, Ends, Patching
      <4>2. row'[r] = Row("cancelled", d) \/ row'[r] = Row("completed", d)
        BY <3>1, <3>2, <3>6, <4>1, CommitParts
      <4> QED BY <2>1, <3>4, <4>1, <4>2, RowType DEF Statuses
    <3> QED BY <3>2, <3>3, <3>5, <3>6 DEF Works
  <2> QED BY <2>2, <2>3
<1> QED BY <1>2, <1>3, <1>4, <1>5 DEF Left, OnRide

\* Overlaps and failures are counted, and never forgotten.
LEMMA PastGrows ==
  ASSUME TypeOK, [Next]_vars
  PROVE  /\ overlaps' = 0 => overlaps = 0
         /\ faults' = 0 => faults = 0
<1>1. overlaps \in Nat /\ faults \in Nat
  BY MatchingAssumption DEF TypeOK
<1>2. ASSUME NEW s, NEW op, NEW r, NEW d, NEW x, NEW step, Start(s, op, r, d, x, step)
      PROVE  overlaps' \in {overlaps, overlaps + 1} /\ faults' = faults
  BY <1>1, <1>2 DEF Start
<1>3. overlaps' \in {overlaps, overlaps + 1} /\ faults' \in {faults, faults + 1}
  BY <1>2 DEF Next, Continue, Create, End, Patch, Retry, Accept, Decline, Fire, Claim, Close,
              Refuse, Count, Match, Open, Notify, Read, Write, Conflict, Clear, Commit, Fail,
              SwitchOn, SwitchOff, Lapse, Restart, vars, past
<1> QED BY <1>1, <1>3

LEMMA LeftStep ==
  ASSUME WInv, [Next]_vars, faults = 0 => Left
  PROVE  faults' = 0 => Left'
<1> SUFFICES ASSUME faults' = 0 PROVE Left'
  OBVIOUS
<1>1. faults' = faults
  BY PastGrows DEF WInv, IInv
<1>2. Left
  BY <1>1
<1>3. \A r \in Rides \ patched' : offered'[r] # {} =>
         row'[r] = Asked' \/ (row'[r] = NoRow' /\ holder'[r] # Nobody)
  BY <1>1, <1>2, OffersLeft DEF Asked, NoRow, Row
<1>4. \A r \in Rides \ patched' : claim'[r] # Nobody =>
          \/ row'[r] = Row("matched", claim'[r])
          \/ \E s \in Actors : Claimed(s)' /\ Ride(s)' = r /\ Driver(s)' = claim'[r]
  BY <1>1, <1>2, ClaimsLeft
<1>5. \A d \in Drivers :
          \/ d \in available' \cup away' \/ OnRide(d)'
          \/ \E r \in patched' : row'[r]["driver"] = d
          \/ \E s \in Actors : Op(s)' = "accept" /\ pc'[s] = "commit" /\ Driver(s)' = d
  BY <1>1, <1>2, PoolLeft
<1> QED BY <1>3, <1>4, <1>5 DEF Left

\* Only a wave adds offers, and it holds nobody who has been asked.
LEMMA OffersStep ==
  ASSUME WInv, [Next]_vars, NEW r \in Rides
  PROVE  (offered'[r] \ offered[r]) \cap tried[r] = {}
<1> USE DEF WInv, IInv
<1>1. ASSUME NEW s \in Actors, Open(s) PROVE (offered'[r] \ offered[r]) \cap tried[r] = {}
  <2>1. Works(s) /\ pc[s] = "open" /\ Ride(s) \in Rides
    BY <1>1, SessionType DEF Open, Busy
  <2> QED BY <1>1, <2>1 DEF Open, Works, TypeOK
<1>2. offered'[r] \subseteq offered[r] \/ \E s \in Actors : Open(s)
  BY DEF Next, Continue, Create, End, Patch, Retry, Accept, Decline, Fire, Claim, Close, Refuse,
         Count, Match, Notify, Read, Write, Conflict, Clear, Commit, Fail, SwitchOn,
         SwitchOff, Lapse, Restart, vars, redis, TypeOK
<1> QED BY <1>1, <1>2

\* The invariant holds until requests overlap that are not kept together.
Apace == overlaps = 0 => WInv /\ (faults = 0 => Left)

LEMMA WorkInductive == Spec => [](IInv /\ Apace)
<1>1. Init => IInv /\ Apace
  BY InitInv, InitLeft DEF Apace
<1>2. IInv /\ Apace /\ [Next]_vars => (IInv /\ Apace)'
  <2> SUFFICES ASSUME IInv, Apace, [Next]_vars PROVE IInv' /\ Apace'
    OBVIOUS
  <2>1. IInv'
    BY InvStep
  <2>2. ASSUME overlaps' = 0 PROVE WInv' /\ (faults' = 0 => Left')
    <3>1. overlaps = 0 /\ WInv /\ (faults = 0 => Left)
      BY <2>2, PastGrows DEF Apace, IInv
    <3> QED BY <2>2, <3>1, WorkStep, LeftStep
  <2> QED BY <2>1, <2>2 DEF Apace
<1> QED BY <1>1, <1>2, PTL DEF Spec

\* Until requests overlap that are not kept together, a driver who has been
\* asked for a ride is not asked for it again, whatever fails (open_offers).
THEOREM WavesGoForward == Spec => NotAskedAgain
<1>1. IInv /\ Apace /\ [Next]_vars =>
         [overlaps' = 0 => \A r \in Rides : (offered'[r] \ offered[r]) \cap tried[r] = {}]_vars
  <2> SUFFICES ASSUME IInv, Apace, [Next]_vars, overlaps' = 0
               PROVE  \A r \in Rides : (offered'[r] \ offered[r]) \cap tried[r] = {}
    OBVIOUS
  <2>1. WInv
    BY PastGrows DEF Apace, IInv
  <2> QED BY <2>1, OffersStep
<1> QED BY <1>1, WorkInductive, PTL DEF Spec, NotAskedAgain

\* Until requests overlap that are not kept together, or one fails, there is no
\* offer, no claim and no driver out of the pool between requests but for the
\* rides they are for, and those of which PATCH has set the status (cancel_ride,
\* release_claim, release_driver).
THEOREM RequestsLeaveNothing == Spec => []NothingLeftBehind
<1>1. IInv /\ Apace => NothingLeftBehind
  <2> SUFFICES ASSUME WInv, Left, \A s \in Actors : pc[s] = "idle"
               PROVE  /\ \A r \in Rides \ patched : offered[r] # {} => row[r]["status"] = "requested"
                      /\ \A r \in Rides \ patched :
                            claim[r] # Nobody => row[r] = Row("matched", claim[r])
                      /\ \A d \in Drivers :
                            \/ d \in available \cup away \/ OnRide(d)
                            \/ \E r \in patched : row[r]["driver"] = d
    BY DEF NothingLeftBehind, Apace
  <2>1. \A r \in Rides : holder[r] = Nobody
    BY HoldsNothing DEF WInv, IInv, TypeOK
  <2>2. \A s \in Actors : ~Claimed(s) /\ pc[s] # "commit"
    BY DEF Claimed
  <2> QED BY <2>1, <2>2, AskedType DEF Left
<1> QED BY <1>1, WorkInductive, PTL
=============================================================================
