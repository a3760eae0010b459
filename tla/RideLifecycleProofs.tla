--------------------------- MODULE RideLifecycleProofs ---------------------------
(***************************************************************************)
(* Proofs about RideLifecycle, for any sessions, supplements and bounds and  *)
(* any overlaps: the types, the decisions about supplements, and, until two  *)
(* handlers that are not kept together run beside one another, the           *)
(* refinement of RideStates and the other invariants.  The second part is    *)
(* about RideFigures, the money of the rides.                                *)
(***************************************************************************)
EXTENDS RideLifecycle, RideFigures, FiniteSetTheorems, WellFoundedInduction, TLAPS

Shaped(r) == r = [f \in Fields |-> r[f]]

\* What the supplements are once a decision is committed.
Accepting(s) ==
    LET x == choice[s][1]
    IN  {y \in Supplements \ {x} : decided[y] = "accepted"}
        \cup {y \in {x} : choice[s][2] = "accepted"}

Shape ==
    /\ Shaped(ride) /\ Shaped(draft) /\ \A s \in Sessions : Shaped(snap[s])
    /\ decided = [x \in Supplements |-> decided[x]]
    /\ pc = [s \in Sessions |-> pc[s]] /\ snap = [s \in Sessions |-> snap[s]]
    /\ op \in [Sessions -> Requests \cup {NoRequest}]
    /\ choice = [s \in Sessions |-> choice[s]]

\* A proposal is of a supplement nobody else works on, and only one who
\* decides has a supplement besides.
Chosen(s) ==
    /\ op[s][1] \notin {"propose", "decide"} => choice[s] = NoChoice
    /\ op[s][1] \in {"propose", "decide"} => choice[s][1] \in Supplements
    /\ op[s][1] = "propose" =>
          /\ pc[s] = "commit" /\ choice[s][2] = "pending" /\ decided[choice[s][1]] = "absent"
          /\ \A u \in Sessions \ {s} : choice[u][1] # choice[s][1]
    /\ op[s][1] = "decide" =>
          /\ pc[s] \in {"decide", "commit"} /\ decided[choice[s][1]] # "absent"
          /\ choice[s][2] \in {"accepted", "disputed"}
    /\ pc[s] = "decide" => op[s][1] = "decide"

\* From the lock to the commit, a decision is about a pending supplement and
\* its total counts what will be accepted.
Decides(s) ==
    pc[s] = "commit" /\ op[s][1] = "decide" =>
        /\ holder = s /\ decided[choice[s][1]] = "pending"
        /\ draft["total"] = Cardinality(Accepting(s))

IInv == Shape /\ \A s \in Sessions : Chosen(s) /\ Decides(s)

\* What a step of one session leaves alone for the others.
Aside(s) == \A u \in Sessions \ {s} : pc'[u] = pc[u] /\ op'[u] = op[u] /\ choice'[u] = choice[u]

----------------------------------------------------------------------------
LEMMA RequestParts ==
  ASSUME NEW o \in Requests
  PROVE  /\ o[1] = "propose" => o[2] = "pending"
         /\ o[1] = "decide" => o[2] \in {"accepted", "disputed"}
         /\ o[1] # "none"
<1>1. o \in AllRequests
  BY RideAssumption
<1> DEFINE plain ==
      {<<"accept", "matched">>, <<"giveup", "no_driver_found">>, <<"arrive", "arrived">>,
       <<"start", "in_progress">>, <<"wrong", "arrived">>, <<"noshow", "cancelled_by_driver">>,
       <<"wait", "waiting">>, <<"resume", "in_progress">>, <<"ask", "early">>,
       <<"confirm", "completed">>, <<"propose", "pending">>, <<"touch", "nothing">>}
<1>2. CASE o \in plain
  BY <1>2
<1>3. CASE o \in {"decide"} \X {"accepted", "disputed"}
  BY <1>3
<1>4. CASE o \in {"cancel"} \X Cancelled
  BY <1>4
<1>5. CASE o \in {"patch"} \X RideStatus
  BY <1>5
<1> HIDE DEF plain
<1>6. AllRequests = plain \cup ({"decide"} \X {"accepted", "disputed"})
                          \cup ({"cancel"} \X Cancelled) \cup ({"patch"} \X RideStatus)
  BY DEF AllRequests, plain
<1> QED BY <1>1, <1>2, <1>3, <1>4, <1>5, <1>6

LEMMA Nones == NoRequest[1] = "none" /\ NoChoice[1] = Nobody /\ Nobody \notin Supplements
BY RideAssumption DEF NoRequest, NoChoice

LEMMA OpeningShaped == Shaped(Opening)
<1> DEFINE E(f) == CASE f = "status"                         -> "requested"
                     [] f \in {"driver", "coded", "used", "timed", "early"} -> FALSE
                     [] f \in {"attempts", "waits", "total"} -> 0
                     [] f = "fare"                           -> NoFare
<1>1. Opening = [f \in Fields |-> E(f)]
  BY DEF Opening
<1> HIDE DEF E
<1> QED BY <1>1 DEF Shaped

\* Every change of a row is a row.
LEMMA ExceptShaped ==
  ASSUME NEW r, Shaped(r), NEW f, NEW x
  PROVE  Shaped([r EXCEPT ![f] = x])
BY DEF Shaped

LEMMA StoppedShaped ==
  ASSUME NEW r, Shaped(r)
  PROVE  Shaped(Stopped(r))
BY DEF Shaped, Stopped

LEMMA BilledShaped ==
  ASSUME NEW r, Shaped(r), NEW o
  PROVE  Shaped(Billed(o, r))
BY DEF Shaped, Billed

LEMMA MergeShaped ==
  ASSUME NEW x, NEW y, NEW z
  PROVE  Shaped(Merge(x, y, z))
BY DEF Shaped, Merge

LEMMA CancelShaped ==
  ASSUME NEW r, Shaped(r), NEW o, o[1] = "cancel", o[2] # "completed"
  PROVE  Shaped(After(o, r))
<1> DEFINE q == IF r["status"] = "waiting" THEN Stopped(r) ELSE r
<1>1. After(o, r) = Led(o, q)
  BY DEF After
<1>2. Shaped(q)
  BY StoppedShaped
<1> HIDE DEF q
<1> QED BY <1>1, <1>2 DEF Led, Shaped

\* What the update of a row writes is a row.
LEMMA UpdateShaped ==
  ASSUME Shape, NEW s \in Sessions, Update(s)
  PROVE  Shaped(draft')
<1> DEFINE o == op[s]
           waited == snap[s]["status"] = "waiting"
           two == waited /\ o[2] = "completed"
           first == Merge(IF two THEN Stopped(snap[s]) ELSE After(o, snap[s]), base[s], View(s))
           row == IF two THEN Billed(o, first)
                  ELSE IF waited /\ o[1] = "cancel" THEN After(o, snap[s]) ELSE first
<1>1. draft' = row
  BY DEF Update
<1>2. Shaped(first)
  BY MergeShaped
<1>3. Shaped(snap[s])
  BY DEF Shape
<1> HIDE DEF first
<1>4. CASE two
  BY <1>1, <1>2, <1>4, BilledShaped
<1>5. CASE ~two /\ waited /\ o[1] = "cancel"
  BY <1>1, <1>3, <1>5, CancelShaped
<1>6. CASE ~two /\ ~(waited /\ o[1] = "cancel")
  BY <1>1, <1>2, <1>6
<1> QED BY <1>4, <1>5, <1>6

----------------------------------------------------------------------------
(* The steps. *)

LEMMA InitInv == Init => IInv
<1> SUFFICES ASSUME Init PROVE IInv
  OBVIOUS
<1>1. Shape
  BY OpeningShaped DEF Init, Shape
<1>2. \A s \in Sessions : Chosen(s) /\ Decides(s)
  BY Nones DEF Init, Chosen, Decides
<1> QED BY <1>1, <1>2 DEF IInv

LEMMA ResetEffect ==
  ASSUME Shape, NEW s \in Sessions, Reset(s)
  PROVE  /\ Aside(s) /\ pc'[s] = "idle" /\ op'[s] = NoRequest /\ choice'[s] = NoChoice
         /\ pc' = [u \in Sessions |-> pc'[u]] /\ snap' = [u \in Sessions |-> snap'[u]]
         /\ op' \in [Sessions -> Requests \cup {NoRequest}]
         /\ choice' = [u \in Sessions |-> choice'[u]]
         /\ \A u \in Sessions : Shaped(snap'[u])
<1>1. /\ Aside(s) /\ pc'[s] = "idle" /\ op'[s] = NoRequest /\ choice'[s] = NoChoice
      /\ pc' = [u \in Sessions |-> pc'[u]] /\ op' \in [Sessions -> Requests \cup {NoRequest}]
      /\ choice' = [u \in Sessions |-> choice'[u]]
  BY DEF Reset, Goto, Aside, Shape
<1>2. snap' = [snap EXCEPT ![s] = Opening]
  BY DEF Reset
<1> QED BY <1>1, <1>2, OpeningShaped DEF Shape

\* The others go on as before while the row they hold is left alone, and so
\* are the supplements they work on.
LEMMA OthersKept ==
  ASSUME IInv, NEW s \in Sessions, Aside(s),
         \A u \in Sessions \ {s} : holder = u => holder' = u /\ draft' = draft,
         \A u \in Sessions \ {s} : op[u][1] = "propose" =>
             /\ decided'[choice[u][1]] = decided[choice[u][1]]
             /\ choice'[s][1] # choice[u][1],
         \A u \in Sessions \ {s} : op[u][1] = "decide" =>
             /\ decided[choice[u][1]] # "absent" => decided'[choice[u][1]] # "absent"
             /\ pc[u] = "commit" => decided'[choice[u][1]] = decided[choice[u][1]],
         \A x \in Supplements : holder \in Sessions \ {s} =>
             (decided'[x] = "accepted" <=> decided[x] = "accepted")
  PROVE  \A u \in Sessions \ {s} : (Chosen(u) /\ Decides(u))'
<1> SUFFICES ASSUME NEW u \in Sessions \ {s} PROVE (Chosen(u) /\ Decides(u))'
  OBVIOUS
<1>1. Chosen(u) /\ Decides(u) /\ pc'[u] = pc[u] /\ op'[u] = op[u] /\ choice'[u] = choice[u]
  BY DEF IInv, Aside
<1>2. op[u][1] = "propose" => \A v \in Sessions \ {u} : choice'[v][1] # choice'[u][1]
  BY <1>1 DEF Chosen, Aside
<1>3. Chosen(u)'
  BY <1>1, <1>2 DEF Chosen
<1>4. ASSUME pc'[u] = "commit" /\ op'[u][1] = "decide"
      PROVE  /\ holder' = u /\ decided'[choice'[u][1]] = "pending"
             /\ draft'["total"] = Cardinality(Accepting(u))'
  <2>1. /\ holder = u /\ decided[choice[u][1]] = "pending"
        /\ draft["total"] = Cardinality(Accepting(u)) /\ holder' = u /\ draft' = draft
    BY <1>1, <1>4 DEF Decides
  <2>2. Accepting(u)' = Accepting(u)
    BY <1>1, <2>1 DEF Accepting
  <2> QED BY <1>1, <1>4, <2>1, <2>2
<1>5. Decides(u)'
  BY <1>4 DEF Decides
<1> QED BY <1>3, <1>5

LEMMA InvFrom ==
  ASSUME NEW s \in Sessions, Shape', (Chosen(s) /\ Decides(s))',
         \A u \in Sessions \ {s} : (Chosen(u) /\ Decides(u))'
  PROVE  IInv'
BY DEF IInv

LEMMA LoadStep ==
  ASSUME IInv, NEW s \in Sessions, NEW o \in Requests, Load(s, o)
  PROVE  IInv'
<1>1. /\ pc[s] = "idle" /\ op' = [op EXCEPT ![s] = o] /\ snap' = [snap EXCEPT ![s] = ride]
      /\ UNCHANGED <<ride, holder, draft, decided>>
  BY DEF Load
<1>2. Shaped(ride) /\ op[s][1] \notin {"propose", "decide"} /\ choice[s] = NoChoice
  BY <1>1 DEF IInv, Shape, Chosen
<1>3. /\ op' \in [Sessions -> Requests \cup {NoRequest}] /\ op'[s] = o
      /\ snap' = [u \in Sessions |-> snap'[u]] /\ \A u \in Sessions : Shaped(snap'[u])
      /\ \A u \in Sessions \ {s} : op'[u] = op[u]
  BY <1>1, <1>2 DEF IInv, Shape
<1>4. ASSUME o[1] \notin {"propose", "decide"}, pc' = [pc EXCEPT ![s] = "save"], UNCHANGED choice
      PROVE  IInv'
  <2>1. Aside(s) /\ Shape' /\ pc'[s] = "save"
    BY <1>1, <1>3, <1>4 DEF IInv, Shape, Aside
  <2>2. (Chosen(s) /\ Decides(s))'
    BY <1>2, <1>3, <1>4, <2>1, Nones DEF Chosen, Decides
  <2>3. \A u \in Sessions \ {s} : op[u][1] = "propose" => choice'[s][1] # choice[u][1]
    BY <1>2, <1>4 DEF IInv, Chosen
  <2> QED BY <1>1, <2>1, <2>2, <2>3, OthersKept, InvFrom
<1>5. ASSUME NEW x \in Supplements, o[1] = "propose", decided[x] = "absent",
             pc' = [pc EXCEPT ![s] = "commit"], \A u \in Sessions : choice[u][1] # x,
             choice' = [choice EXCEPT ![s] = <<x, o[2]>>]
      PROVE  IInv'
  <2>1. Aside(s) /\ Shape' /\ pc'[s] = "commit" /\ choice'[s] = <<x, o[2]>>
    BY <1>1, <1>3, <1>5 DEF IInv, Shape, Aside
  <2>2. (Chosen(s) /\ Decides(s))'
    BY <1>1, <1>3, <1>5, <2>1, RequestParts DEF Chosen, Decides, Aside
  <2>3. \A u \in Sessions \ {s} : op[u][1] = "propose" => choice'[s][1] # choice[u][1]
    BY <1>5, <2>1
  <2> QED BY <1>1, <2>1, <2>2, <2>3, OthersKept, InvFrom
<1>6. ASSUME NEW x \in Supplements, o[1] = "decide", decided[x] # "absent",
             pc' = [pc EXCEPT ![s] = "decide"],
             choice' = [choice EXCEPT ![s] = <<x, o[2]>>]
      PROVE  IInv'
  <2>1. Aside(s) /\ Shape' /\ pc'[s] = "decide" /\ choice'[s] = <<x, o[2]>>
    BY <1>1, <1>3, <1>6 DEF IInv, Shape, Aside
  <2>2. (Chosen(s) /\ Decides(s))'
    BY <1>1, <1>3, <1>6, <2>1, RequestParts DEF Chosen, Decides
  <2>3. \A u \in Sessions \ {s} : op[u][1] = "propose" => choice'[s][1] # choice[u][1]
    BY <1>6, <2>1 DEF IInv, Chosen
  <2> QED BY <1>1, <2>1, <2>2, <2>3, OthersKept, InvFrom
<1> QED BY <1>4, <1>5, <1>6 DEF Load, Goto

LEMMA UpdateStep ==
  ASSUME IInv, NEW s \in Sessions, Update(s)
  PROVE  IInv'
<1>1. /\ pc[s] = "update" /\ RowFree(s) /\ holder' = s /\ pc' = [pc EXCEPT ![s] = "commit"]
      /\ UNCHANGED <<ride, decided, op, snap, choice>>
  BY DEF Update, Goto
<1>2. Shape'
  BY <1>1, UpdateShaped DEF IInv, Shape
<1>3. Aside(s) /\ op[s][1] \notin {"propose", "decide"} /\ choice[s] = NoChoice
  BY <1>1 DEF IInv, Shape, Aside, Chosen
<1>4. (Chosen(s) /\ Decides(s))'
  BY <1>1, <1>3 DEF IInv, Shape, Chosen, Decides
<1>5. \A u \in Sessions \ {s} : holder # u
  BY <1>1, RideAssumption DEF RowFree
<1>6. \A u \in Sessions \ {s} : op[u][1] = "propose" => choice'[s][1] # choice[u][1]
  BY <1>1 DEF IInv, Chosen
<1> QED BY <1>1, <1>2, <1>3, <1>4, <1>5, <1>6, OthersKept, InvFrom

LEMMA DecideStep ==
  ASSUME IInv, NEW s \in Sessions, Decide(s)
  PROVE  IInv'
<1> DEFINE x == choice[s][1]
           accepted == {y \in Supplements \ {x} : decided[y] = "accepted"}
                       \cup {y \in {x} : choice[s][2] = "accepted"}
<1>1. /\ pc[s] = "decide" /\ RowFree(s) /\ StillPending(s) /\ holder' = s
      /\ draft' = [snap[s] EXCEPT !["total"] = Cardinality(accepted)]
      /\ pc' = [pc EXCEPT ![s] = "commit"]
      /\ UNCHANGED <<ride, decided, op, snap, choice>>
  BY DEF Decide, Goto
<1>2. accepted = Accepting(s)'
  BY <1>1 DEF Accepting
<1> HIDE DEF accepted
<1>3. Shaped(draft') /\ draft'["total"] = Cardinality(accepted)
  BY <1>1 DEF IInv, Shape, Shaped, Fields
<1>4. Shape' /\ Aside(s) /\ pc'[s] = "commit"
  BY <1>1, <1>3 DEF IInv, Shape, Aside
<1>5. Chosen(s) /\ op[s][1] = "decide"
  BY <1>1 DEF IInv, Chosen
<1>6. (Chosen(s) /\ Decides(s))'
  BY <1>1, <1>2, <1>3, <1>4, <1>5 DEF Chosen, Decides, StillPending
<1>7. \A u \in Sessions \ {s} : holder # u
  BY <1>1, RideAssumption DEF RowFree
<1>8. \A u \in Sessions \ {s} : op[u][1] = "propose" => choice'[s][1] # choice[u][1]
  BY <1>1 DEF IInv, Chosen
<1> QED BY <1>1, <1>4, <1>6, <1>7, <1>8, OthersKept, InvFrom

\* A commit changes the supplement it works on, if any, and only a decision
\* changes what is accepted.
LEMMA CommitDecided ==
  ASSUME IInv, NEW s \in Sessions, Commit(s)
  PROVE  /\ decided' = [x \in Supplements |-> decided'[x]]
         /\ op[s][1] \notin {"propose", "decide"} => decided' = decided
         /\ \A x \in Supplements : x # choice[s][1] => decided'[x] = decided[x]
         /\ op[s][1] = "propose" =>
               decided[choice[s][1]] = "absent" /\ decided'[choice[s][1]] = "pending"
         /\ op[s][1] = "decide" =>
               /\ holder = s /\ decided[choice[s][1]] = "pending"
               /\ decided'[choice[s][1]] # "absent"
<1>1. /\ pc[s] = "commit"
      /\ decided' = [x \in Supplements |-> IF x = choice[s][1] THEN choice[s][2] ELSE decided[x]]
  BY DEF Commit
<1>2. decided = [x \in Supplements |-> decided[x]] /\ Chosen(s) /\ Decides(s)
  BY DEF IInv, Shape
<1>3. op[s][1] \notin {"propose", "decide"} => choice[s][1] \notin Supplements
  BY <1>2, Nones DEF Chosen
<1> QED BY <1>1, <1>2, <1>3 DEF Chosen, Decides

LEMMA CommitStep ==
  ASSUME IInv, NEW s \in Sessions, Commit(s)
  PROVE  IInv'
<1>1. /\ pc[s] = "commit" /\ Reset(s)
      /\ ride' = View(s) /\ holder' = IF holder = s THEN Nobody ELSE holder
      /\ draft' = IF holder = s THEN Opening ELSE draft
  BY DEF Commit
<1>2. /\ Aside(s) /\ pc'[s] = "idle" /\ op'[s] = NoRequest /\ choice'[s] = NoChoice
      /\ pc' = [u \in Sessions |-> pc'[u]] /\ snap' = [u \in Sessions |-> snap'[u]]
      /\ op' \in [Sessions -> Requests \cup {NoRequest}]
      /\ choice' = [u \in Sessions |-> choice'[u]]
      /\ \A u \in Sessions : Shaped(snap'[u])
  BY <1>1, ResetEffect DEF IInv
<1>3. Shape'
  BY <1>1, <1>2, OpeningShaped, CommitDecided DEF IInv, Shape, View
<1>4. (Chosen(s) /\ Decides(s))'
  BY <1>2, Nones DEF Chosen, Decides
<1>5. ASSUME NEW u \in Sessions \ {s}, op[u][1] \in {"propose", "decide"}
      PROVE  choice[u][1] \in Supplements /\ choice'[s][1] \notin Supplements /\ Chosen(u)
  BY <1>2, <1>5, Nones DEF IInv, Chosen
<1>6. ASSUME NEW u \in Sessions \ {s}, op[u][1] = "propose"
      PROVE  decided'[choice[u][1]] = decided[choice[u][1]] /\ choice'[s][1] # choice[u][1]
  BY <1>5, <1>6, CommitDecided DEF Chosen
<1>7. ASSUME NEW u \in Sessions \ {s}, op[u][1] = "decide",
             decided[choice[u][1]] # "absent"
      PROVE  decided'[choice[u][1]] # "absent"
  <2>1. CASE choice[u][1] # choice[s][1] \/ op[s][1] \notin {"propose", "decide"}
    BY <1>5, <1>7, <2>1, CommitDecided
  <2>2. CASE choice[u][1] = choice[s][1] /\ op[s][1] \in {"propose", "decide"}
    BY <2>2, CommitDecided
  <2> QED BY <2>1, <2>2
<1>8. ASSUME NEW u \in Sessions \ {s}, op[u][1] = "decide", pc[u] = "commit"
      PROVE  decided'[choice[u][1]] = decided[choice[u][1]]
  <2>1. holder = u /\ choice[u][1] \in Supplements /\ decided[choice[u][1]] = "pending"
    BY <1>5, <1>8 DEF IInv, Decides
  <2>2. op[s][1] # "decide"
    BY <2>1, CommitDecided
  <2>3. CASE op[s][1] = "propose"
    <3>1. choice[s][1] # choice[u][1]
      BY <2>3 DEF IInv, Chosen
    <3> QED BY <2>1, <3>1, CommitDecided
  <2>4. CASE op[s][1] \notin {"propose", "decide"}
    BY <2>4, CommitDecided
  <2> QED BY <2>2, <2>3, <2>4
<1>9. \A x \in Supplements : holder \in Sessions \ {s} =>
          (decided'[x] = "accepted" <=> decided[x] = "accepted")
  BY CommitDecided
<1>10. \A u \in Sessions \ {s} : holder = u => holder' = u /\ draft' = draft
  BY <1>1
<1> HIDE DEF IInv
<1> QED BY <1>2, <1>3, <1>4, <1>6, <1>7, <1>8, <1>9, <1>10, OthersKept, InvFrom

LEMMA SaveStep ==
  ASSUME IInv, NEW s \in Sessions, Save(s)
  PROVE  IInv'
<1>1. /\ pc[s] = "save" /\ pc' = [pc EXCEPT ![s] = "update"]
      /\ UNCHANGED <<ride, holder, draft, decided, op, snap, choice>>
  BY DEF Save, Goto
<1>2. Shape' /\ Aside(s) /\ pc'[s] = "update"
  BY <1>1 DEF IInv, Shape, Aside
<1>3. Chosen(s)
  BY DEF IInv
<1>4. (Chosen(s) /\ Decides(s))'
  BY <1>1, <1>2, <1>3 DEF Chosen, Decides
<1>5. \A u \in Sessions \ {s} : op[u][1] = "propose" => choice'[s][1] # choice[u][1]
  BY <1>1 DEF IInv, Chosen
<1> QED BY <1>1, <1>2, <1>4, <1>5, OthersKept, InvFrom

LEMMA AbortStep ==
  ASSUME IInv, NEW s \in Sessions, Abort(s)
  PROVE  IInv'
<1>1. /\ Reset(s) /\ holder' = IF holder = s THEN Nobody ELSE holder
      /\ draft' = IF holder = s THEN Opening ELSE draft
      /\ UNCHANGED <<ride, decided>>
  BY DEF Abort
<1>2. /\ Aside(s) /\ pc'[s] = "idle" /\ op'[s] = NoRequest /\ choice'[s] = NoChoice
      /\ pc' = [u \in Sessions |-> pc'[u]] /\ snap' = [u \in Sessions |-> snap'[u]]
      /\ op' \in [Sessions -> Requests \cup {NoRequest}]
      /\ choice' = [u \in Sessions |-> choice'[u]]
      /\ \A u \in Sessions : Shaped(snap'[u])
  BY <1>1, ResetEffect DEF IInv
<1>3. Shape'
  BY <1>1, <1>2, OpeningShaped DEF IInv, Shape
<1>4. (Chosen(s) /\ Decides(s))'
  BY <1>2, Nones DEF Chosen, Decides
<1>5. \A u \in Sessions \ {s} : op[u][1] = "propose" => choice'[s][1] # choice[u][1]
  BY <1>2, Nones DEF IInv, Chosen
<1> QED BY <1>1, <1>2, <1>3, <1>4, <1>5, OthersKept, InvFrom

LEMMA StutterStep ==
  ASSUME IInv, UNCHANGED vars
  PROVE  IInv'
<1>1. UNCHANGED <<ride, holder, draft, decided, pc, op, snap, choice>>
  BY DEF vars
<1>2. Shape'
  BY <1>1 DEF IInv, Shape, Shaped
<1>3. ASSUME NEW s \in Sessions
      PROVE  (Chosen(s) /\ Decides(s))'
  <2>1. Accepting(s)' = Accepting(s)
    BY <1>1 DEF Accepting
  <2> QED BY <1>1, <2>1 DEF IInv, Chosen, Decides
<1> QED BY <1>2, <1>3 DEF IInv

LEMMA InvStep ==
  ASSUME IInv, [Next]_vars
  PROVE  IInv'
<1>1. ASSUME NEW s \in Sessions, NEW o \in Requests, Load(s, o)
      PROVE  IInv'
  BY <1>1, LoadStep
<1>2. ASSUME NEW s \in Sessions, Save(s) \/ Update(s) \/ Decide(s)
      PROVE  IInv'
  BY <1>2, SaveStep, UpdateStep, DecideStep
<1>3. ASSUME NEW s \in Sessions, Commit(s) \/ Abort(s)
      PROVE  IInv'
  BY <1>3, CommitStep, AbortStep
<1> QED BY <1>1, <1>2, <1>3, StutterStep DEF Next

LEMMA Inductive == Spec => []IInv
<1>1. Init => IInv
  BY InitInv
<1>2. IInv /\ [Next]_vars => IInv'
  BY InvStep
<1> QED BY <1>1, <1>2, PTL DEF Spec

\* Only a commit writes the supplements.
LEMMA OnlyCommits ==
  ASSUME [Next]_vars, decided' # decided
  PROVE  \E s \in Sessions : Commit(s)
<1>1. \A s \in Sessions, o \in Requests : Load(s, o) => decided' = decided
  BY DEF Load
<1>2. \A s \in Sessions : Save(s) \/ Update(s) \/ Decide(s) \/ Abort(s) => decided' = decided
  BY DEF Save, Update, Decide, Abort
<1>3. UNCHANGED vars => decided' = decided
  BY DEF vars
<1> QED BY <1>1, <1>2, <1>3 DEF Next

----------------------------------------------------------------------------
(* What the passenger has accepted or disputed stays so: decide_supplement   *)
(* reads the supplement under the lock of the ride and refuses one that is   *)
(* no longer pending, whatever other handlers run beside it.                 *)
THEOREM PassengerDecidesOnce == Spec => DecisionIsFinal
<1> DEFINE Kept == \A x \in Supplements :
                      decided[x] \in {"accepted", "disputed"} => decided'[x] = decided[x]
<1>1. ASSUME IInv, [Next]_vars, NEW x \in Supplements, decided[x] \in {"accepted", "disputed"}
      PROVE  decided'[x] = decided[x]
  <2>1. CASE decided' = decided
    BY <2>1
  <2>2. ASSUME NEW s \in Sessions, Commit(s)
        PROVE  decided'[x] = decided[x]
    <3>1. CASE x # choice[s][1] \/ op[s][1] \notin {"propose", "decide"}
      BY <1>1, <2>2, <3>1, CommitDecided
    <3>2. CASE x = choice[s][1] /\ op[s][1] \in {"propose", "decide"}
      BY <1>1, <2>2, <3>2, CommitDecided
    <3> QED BY <3>1, <3>2
  <2> QED BY <1>1, <2>1, <2>2, OnlyCommits
<1>2. IInv /\ [Next]_vars => Kept
  BY <1>1
<1>3. DecisionIsFinal <=> [][Kept]_vars
  BY DEF DecisionIsFinal
<1> HIDE DEF Kept
<1> QED BY <1>2, <1>3, Inductive, PTL DEF Spec

(* A decision that changes what is accepted commits a total that counts all  *)
(* of it: the total computed under the lock is the one of the commit, for    *)
(* the lock is kept until then.                                              *)
THEOREM NoAmountIsLost == Spec => TotalCountsDecisions
<1>1. ASSUME IInv, [Next]_vars, Accepted' # Accepted
      PROVE  ride'["total"] = Cardinality(Accepted')
  <2>1. PICK s \in Sessions : Commit(s)
    BY <1>1, OnlyCommits DEF Accepted
  <2>2. op[s][1] = "decide"
    BY <1>1, <2>1, CommitDecided DEF Accepted
  <2>3. /\ holder = s /\ pc[s] = "commit" /\ draft["total"] = Cardinality(Accepting(s))
        /\ choice[s][1] \in Supplements
    BY <1>1, <2>1, <2>2, CommitDecided DEF IInv, Decides, Chosen, Commit
  <2>4. ride' = draft
    BY <2>1, <2>3 DEF Commit, View
  <2>5. Accepted' = Accepting(s)
    BY <2>1, <2>3 DEF Commit, Accepted, Accepting
  <2> QED BY <2>3, <2>4, <2>5
<1> QED BY <1>1, Inductive, PTL DEF Spec, TotalCountsDecisions

----------------------------------------------------------------------------
(* The types. *)

\* What each request leads to.
LEMMA RequestTable ==
  ASSUME NEW o \in Requests
  PROVE  /\ o = <<o[1], o[2]>>
         /\ o[1] = "accept" => o[2] = "matched"
         /\ o[1] = "giveup" => o[2] = "no_driver_found"
         /\ o[1] \in {"arrive", "wrong"} => o[2] = "arrived"
         /\ o[1] \in {"start", "resume"} => o[2] = "in_progress"
         /\ o[1] = "noshow" => o[2] = "cancelled_by_driver"
         /\ o[1] = "wait" => o[2] = "waiting"
         /\ o[1] = "confirm" => o[2] = "completed"
         /\ o[1] = "cancel" => o[2] \in Cancelled
         /\ o[1] = "patch" => o[2] \in RideStatus
         /\ o[1] \in {"ask", "propose", "decide", "touch"}
               => o[2] \in {"early", "pending", "accepted", "disputed", "nothing"}
         /\ o[1] \in {"accept", "giveup", "arrive", "start", "wrong", "noshow", "wait", "resume",
                      "ask", "confirm", "propose", "touch", "decide", "cancel", "patch"}
<1>1. o \in AllRequests
  BY RideAssumption
<1> DEFINE plain ==
      {<<"accept", "matched">>, <<"giveup", "no_driver_found">>, <<"arrive", "arrived">>,
       <<"start", "in_progress">>, <<"wrong", "arrived">>, <<"noshow", "cancelled_by_driver">>,
       <<"wait", "waiting">>, <<"resume", "in_progress">>, <<"ask", "early">>,
       <<"confirm", "completed">>, <<"propose", "pending">>, <<"touch", "nothing">>}
<1>2. CASE o \in plain
  BY <1>2
<1>3. CASE o \in {"decide"} \X {"accepted", "disputed"}
  BY <1>3
<1>4. CASE o \in {"cancel"} \X Cancelled
  BY <1>4
<1>5. CASE o \in {"patch"} \X RideStatus
  BY <1>5
<1> HIDE DEF plain
<1>6. AllRequests = plain \cup ({"decide"} \X {"accepted", "disputed"})
                          \cup ({"cancel"} \X Cancelled) \cup ({"patch"} \X RideStatus)
  BY DEF AllRequests, plain
<1> QED BY <1>1, <1>2, <1>3, <1>4, <1>5, <1>6

Statuses ==
    {"requested", "matched", "driver_en_route", "arrived", "in_progress", "waiting", "completed",
     "no_driver_found", "cancelled_by_passenger", "cancelled_by_driver"}

LEMMA StatusNames ==
  /\ RideStatus = Statuses
  /\ Cancelled = {"cancelled_by_passenger", "cancelled_by_driver"}
BY DEF RideStatus, Cancelled, States!RideStatus, States!Cancelled, Statuses

\* The rows that the changes of a row are made of.
LEMMA StoppedRow ==
  ASSUME NEW r, IsRow(r)
  PROVE  IsRow(Stopped(r))
<1> DEFINE q == Stopped(r)
<1>1. /\ DOMAIN q = DOMAIN r /\ q["status"] = "in_progress" /\ q["timed"] = FALSE
      /\ q["waits"] = r["waits"] + 1
      /\ \A f \in Fields \ {"status", "timed", "waits"} : q[f] = r[f]
  BY DEF Stopped, IsRow, Fields
<1> HIDE DEF q
<1>2. q["status"] \in RideStatus
  BY <1>1, StatusNames DEF Statuses
<1>3. \A f \in {"attempts", "waits", "total"} : q[f] \in Nat
  BY <1>1 DEF IsRow, Fields
<1>4. \A f \in {"driver", "coded", "used", "timed", "early"} : q[f] \in BOOLEAN
  BY <1>1 DEF IsRow, Fields
<1>5. q["fare"] \in Nat \cup {NoFare} /\ DOMAIN q = Fields
  BY <1>1 DEF IsRow, Fields
<1>6. IsRow(q)
  BY <1>2, <1>3, <1>4, <1>5 DEF IsRow
<1> QED BY <1>6 DEF q

LEMMA BilledRow ==
  ASSUME NEW r, IsRow(r), NEW o
  PROVE  IsRow(Billed(o, r))
BY StatusNames DEF IsRow, Billed, Fields, Statuses, NoFare

LEMMA LedRow ==
  ASSUME NEW r, IsRow(r), NEW o, o[2] \in RideStatus
  PROVE  IsRow(Led(o, r))
BY StatusNames DEF IsRow, Led, Fields, Statuses

LEMMA MergeRow ==
  ASSUME NEW x, NEW y, NEW z, IsRow(x), IsRow(z)
  PROVE  IsRow(Merge(x, y, z))
BY DEF IsRow, Merge, Fields

LEMMA AfterRow ==
  ASSUME NEW r, IsRow(r), NEW o \in Requests
  PROVE  IsRow(After(o, r))
<1>1. CASE o[1] = "cancel"
  <2> DEFINE q == IF r["status"] = "waiting" THEN Stopped(r) ELSE r
  <2>1. After(o, r) = Led(o, q) /\ o[2] \in RideStatus
    BY <1>1, RequestTable, StatusNames DEF After, Statuses
  <2>2. IsRow(q)
    BY StoppedRow
  <2> HIDE DEF q
  <2> QED BY <2>1, <2>2, LedRow
<1>2. CASE o[1] \in {"confirm", "patch", "giveup", "noshow"}
  BY <1>2, RequestTable, StatusNames, BilledRow, LedRow DEF After, Statuses
<1>3. CASE o[1] \in {"accept", "arrive", "start", "wait"}
  <2>1. PICK f \in {"driver", "coded", "used", "timed"} :
           After(o, r) = [r EXCEPT !["status"] = o[2], ![f] = TRUE]
    BY <1>3, RequestTable DEF After
  <2>2. o[2] \in RideStatus
    BY <1>3, RequestTable, StatusNames DEF Statuses
  <2> QED BY <2>1, <2>2 DEF IsRow, Fields
<1>4. CASE o[1] = "wrong"
  <2>1. After(o, r) = [r EXCEPT !["attempts"] = r["attempts"] + 1]
    BY <1>4, RequestTable DEF After
  <2>2. r["attempts"] + 1 \in Nat
    BY DEF IsRow
  <2> QED BY <2>1, <2>2 DEF IsRow, Fields
<1>6. CASE o[1] \in {"ask", "resume"}
  BY <1>6, RequestTable, StoppedRow DEF After, IsRow, Fields
<1>5. CASE o[1] \in {"propose", "touch", "decide"}
  BY <1>5, RequestTable DEF After
<1> QED BY <1>1, <1>2, <1>3, <1>4, <1>5, <1>6, RequestTable

LEMMA OpeningRow == IsRow(Opening)
BY StatusNames DEF IsRow, Opening, Fields, Statuses, NoFare

Whole == base = [s \in Sessions |-> base[s]] /\ notes = [s \in Sessions |-> notes[s]]

\* What a step of s leaves alone for the others.
Apart(s) ==
    \A u \in Sessions \ {s} :
        /\ pc'[u] = pc[u] /\ op'[u] = op[u] /\ snap'[u] = snap[u]
        /\ base'[u] = base[u] /\ choice'[u] = choice[u] /\ notes'[u] = notes[u]

LEMMA ResetFrame ==
  ASSUME Shape, Whole, NEW s \in Sessions, Reset(s)
  PROVE  /\ Apart(s) /\ Whole'
         /\ pc'[s] = "idle" /\ op'[s] = NoRequest /\ snap'[s] = Opening /\ base'[s] = Opening
         /\ choice'[s] = NoChoice /\ notes'[s] = {}
<1>1. pc'[s] = "idle" /\ op'[s] = NoRequest /\ \A u \in Sessions \ {s} : pc'[u] = pc[u] /\ op'[u] = op[u]
  BY DEF Reset, Goto, Shape
<1>2. /\ snap'[s] = Opening /\ choice'[s] = NoChoice
      /\ \A u \in Sessions \ {s} : snap'[u] = snap[u] /\ choice'[u] = choice[u]
  BY DEF Reset, Shape
<1>3. /\ base'[s] = Opening /\ notes'[s] = {} /\ Whole'
      /\ \A u \in Sessions \ {s} : base'[u] = base[u] /\ notes'[u] = notes[u]
  BY DEF Reset, Whole
<1> QED BY <1>1, <1>2, <1>3 DEF Apart

LEMMA LoadFrame ==
  ASSUME Shape, Whole, NEW s \in Sessions, NEW o \in Requests, Load(s, o)
  PROVE  /\ Apart(s) /\ Whole' /\ op'[s] = o /\ snap'[s] = ride
         /\ base' = base /\ notes' = notes
         /\ UNCHANGED <<ride, holder, draft, decided, history>>
         /\ pc' \in [Sessions -> {pc[u] : u \in Sessions} \cup {"save", "commit", "decide"}]
         /\ \/ pc'[s] = "save" /\ o[1] \notin {"propose", "decide"} /\ choice'[s] = choice[s]
            \/ pc'[s] = "commit" /\ o[1] = "propose" /\ choice'[s][1] \in Supplements
            \/ pc'[s] = "decide" /\ o[1] = "decide" /\ choice'[s][1] \in Supplements
<1>1. /\ op' = [op EXCEPT ![s] = o] /\ snap' = [snap EXCEPT ![s] = ride]
      /\ UNCHANGED <<ride, holder, draft, decided, history, base, notes>>
  BY DEF Load
<1>2. /\ Whole' /\ op'[s] = o /\ snap'[s] = ride
      /\ \A u \in Sessions \ {s} : op'[u] = op[u] /\ snap'[u] = snap[u]
                                   /\ base'[u] = base[u] /\ notes'[u] = notes[u]
  BY <1>1 DEF Shape, Whole
<1>3. CASE o[1] \notin {"propose", "decide"} /\ Goto(s, "save") /\ UNCHANGED choice
  <2>1. /\ pc'[s] = "save" /\ \A u \in Sessions \ {s} : pc'[u] = pc[u]
        /\ pc' \in [Sessions -> {pc[u] : u \in Sessions} \cup {"save", "commit", "decide"}]
    BY <1>3 DEF Goto, Shape
  <2> QED BY <1>1, <1>2, <1>3, <2>1 DEF Apart
<1>4. ASSUME NEW x \in Supplements, NEW step \in {"commit", "decide"}, Goto(s, step),
             choice' = [choice EXCEPT ![s] = <<x, o[2]>>]
      PROVE  /\ Apart(s) /\ pc'[s] = step /\ choice'[s][1] \in Supplements
             /\ pc' \in [Sessions -> {pc[u] : u \in Sessions} \cup {"save", "commit", "decide"}]
  <2>1. /\ pc'[s] = step /\ \A u \in Sessions \ {s} : pc'[u] = pc[u]
        /\ pc' \in [Sessions -> {pc[u] : u \in Sessions} \cup {"save", "commit", "decide"}]
    BY <1>4 DEF Goto, Shape
  <2>2. choice'[s][1] = x /\ \A u \in Sessions \ {s} : choice'[u] = choice[u]
    BY <1>4 DEF Shape
  <2> QED BY <1>2, <2>1, <2>2 DEF Apart
<1> QED BY <1>1, <1>2, <1>3, <1>4 DEF Load

LEMMA SaveFrame ==
  ASSUME Shape, Whole, NEW s \in Sessions, Save(s)
  PROVE  /\ Apart(s) /\ Whole' /\ pc'[s] = "update" /\ base'[s] = View(s) /\ pc[s] = "save"
         /\ UNCHANGED <<ride, holder, draft, decided, history, op, snap, choice, notes>>
<1>1. /\ pc[s] = "save" /\ pc' = [pc EXCEPT ![s] = "update"] /\ base' = [base EXCEPT ![s] = View(s)]
      /\ UNCHANGED <<ride, holder, draft, decided, history, op, snap, choice, notes>>
  BY DEF Save, Goto
<1>2. pc'[s] = "update" /\ \A u \in Sessions \ {s} : pc'[u] = pc[u]
  BY <1>1 DEF Shape
<1>3. Whole' /\ base'[s] = View(s) /\ \A u \in Sessions \ {s} : base'[u] = base[u]
  BY <1>1 DEF Whole
<1> QED BY <1>1, <1>2, <1>3 DEF Apart

\* The row as s updates it, and the status its note starts from.
Twice(s) == snap[s]["status"] = "waiting" /\ op[s][2] = "completed"
First(s) ==
    Merge(IF Twice(s) THEN Stopped(snap[s]) ELSE After(op[s], snap[s]), base[s], View(s))
Row(s) ==
    IF Twice(s) THEN Billed(op[s], First(s))
    ELSE IF snap[s]["status"] = "waiting" /\ op[s][1] = "cancel" THEN After(op[s], snap[s])
    ELSE First(s)

LEMMA UpdateFrame ==
  ASSUME Shape, Whole, NEW s \in Sessions, Update(s)
  PROVE  /\ Apart(s) /\ Whole' /\ pc'[s] = "commit" /\ pc[s] = "update" /\ RowFree(s)
         /\ holder' = s /\ draft' = Row(s)
         /\ notes'[s] = Note(op[s], IF Twice(s) THEN First(s)["status"] ELSE snap[s]["status"])
         /\ Twice(s) => Follows(First(s), "completed")
         /\ UNCHANGED <<ride, decided, history, op, snap, base, choice>>
<1> DEFINE from == IF Twice(s) THEN First(s)["status"] ELSE snap[s]["status"]
<1>1. /\ pc[s] = "update" /\ RowFree(s) /\ holder' = s /\ draft' = Row(s)
      /\ pc' = [pc EXCEPT ![s] = "commit"] /\ notes' = [notes EXCEPT ![s] = Note(op[s], from)]
      /\ Twice(s) => Follows(First(s), "completed")
      /\ UNCHANGED <<ride, decided, history, op, snap, base, choice>>
  BY DEF Update, Goto, Row, First, Twice
<1> HIDE DEF from
<1>2. pc'[s] = "commit" /\ \A u \in Sessions \ {s} : pc'[u] = pc[u]
  BY <1>1 DEF Shape
<1>3. Whole' /\ notes'[s] = Note(op[s], from) /\ \A u \in Sessions \ {s} : notes'[u] = notes[u]
  BY <1>1 DEF Whole
<1> QED BY <1>1, <1>2, <1>3 DEF Apart, from

LEMMA DecideFrame ==
  ASSUME Shape, Whole, NEW s \in Sessions, Decide(s)
  PROVE  /\ Apart(s) /\ Whole' /\ pc'[s] = "commit" /\ pc[s] = "decide" /\ RowFree(s)
         /\ holder' = s /\ draft' = [snap[s] EXCEPT !["total"] = Cardinality(Accepting(s))]
         /\ UNCHANGED <<ride, decided, history, op, snap, base, choice, notes>>
<1>1. /\ pc[s] = "decide" /\ RowFree(s) /\ holder' = s /\ pc' = [pc EXCEPT ![s] = "commit"]
      /\ draft' = [snap[s] EXCEPT !["total"] = Cardinality(Accepting(s))]
      /\ UNCHANGED <<ride, decided, history, op, snap, base, choice, notes>>
  BY DEF Decide, Goto, Accepting
<1>2. pc'[s] = "commit" /\ \A u \in Sessions \ {s} : pc'[u] = pc[u]
  BY <1>1 DEF Shape
<1> QED BY <1>1, <1>2 DEF Apart, Whole

\* What each session has read and will write.
Own(s) ==
    /\ IsRow(snap[s]) /\ IsRow(base[s])
    /\ choice[s][1] \in Supplements \cup {Nobody}
    /\ notes[s] \subseteq RideStatus \X RideStatus
Steps == {"idle", "save", "update", "decide", "commit"}
Common ==
    /\ IsRow(ride) /\ IsRow(draft) /\ holder \in Sessions \cup {Nobody}
    /\ decided \in [Supplements -> {"absent", "pending", "accepted", "disputed"}]
    /\ history \subseteq RideStatus \X RideStatus
    /\ \A s \in Sessions : pc[s] \in Steps
Typed == Whole /\ Common /\ \A s \in Sessions : Own(s)

LEMMA TypedIsTypeOK ==
  ASSUME Shape, Typed, overlaps \in Nat
  PROVE  TypeOK
<1>1. pc \in [Sessions -> {"idle", "save", "update", "decide", "commit"}]
  BY DEF Shape, Typed, Common, Steps
<1> QED BY <1>1 DEF Shape, Typed, Common, Own, TypeOK

LEMMA InitTyped == Init => Typed
<1> SUFFICES ASSUME Init PROVE Typed
  OBVIOUS
<1>1. Whole
  BY DEF Init, Whole
<1>2. Common
  BY OpeningRow DEF Init, Common, Steps
<1>3. ASSUME NEW s \in Sessions
      PROVE  Own(s)
  BY OpeningRow, Nones DEF Init, Own
<1> QED BY <1>1, <1>2, <1>3 DEF Typed

LEMMA OthersTyped ==
  ASSUME Typed, NEW s \in Sessions, Apart(s), Whole', Own(s)', pc'[s] \in Steps,
         IsRow(ride)', IsRow(draft)', holder' \in Sessions \cup {Nobody},
         decided' \in [Supplements -> {"absent", "pending", "accepted", "disputed"}],
         history' \subseteq RideStatus \X RideStatus
  PROVE  Typed'
<1>1. \A u \in Sessions : Own(u)'
  BY DEF Typed, Own, Apart
<1>2. \A u \in Sessions : pc'[u] \in Steps
  BY DEF Typed, Common, Apart
<1> QED BY <1>1, <1>2 DEF Typed, Common

LEMMA NoteTyped ==
  ASSUME NEW o \in Requests, NEW from \in RideStatus
  PROVE  Note(o, from) \subseteq RideStatus \X RideStatus
<1>1. CASE o[1] \in Recorded
  <2>1. o[2] \in RideStatus
    BY <1>1, RequestTable, StatusNames DEF Recorded, Statuses
  <2> QED BY <2>1 DEF Note
<1>2. CASE o[1] \notin Recorded
  BY <1>2 DEF Note
<1> QED BY <1>1, <1>2

LEMMA ViewTyped == ASSUME Typed, NEW s PROVE IsRow(View(s))
BY DEF Typed, Common, View

LEMMA FirstTyped ==
  ASSUME Typed, NEW s \in Sessions, op[s] \in Requests
  PROVE  IsRow(First(s)) /\ IsRow(Row(s))
<1>1. IsRow(snap[s]) /\ IsRow(View(s))
  BY ViewTyped DEF Typed, Own
<1>2. IsRow(Stopped(snap[s])) /\ IsRow(After(op[s], snap[s]))
  BY <1>1, StoppedRow, AfterRow
<1>3. IsRow(First(s))
  BY <1>1, <1>2, MergeRow DEF First
<1> QED BY <1>2, <1>3, BilledRow DEF Row

LEMMA CountTyped ==
  ASSUME NEW S, S \subseteq Supplements
  PROVE  Cardinality(S) \in Nat
BY RideAssumption, FS_Subset, FS_CardinalityType

\* A session that is past idle serves a request.
Serving(s) == pc[s] # "idle" => op[s] \in Requests
TInv == IInv /\ Typed /\ \A s \in Sessions : Serving(s)

LEMMA OthersServing ==
  ASSUME TInv, NEW s \in Sessions, Apart(s), Serving(s)'
  PROVE  \A u \in Sessions : Serving(u)'
BY DEF TInv, Serving, Apart

LEMMA LoadTyped ==
  ASSUME TInv, NEW s \in Sessions, NEW o \in Requests, Load(s, o)
  PROVE  Typed' /\ \A u \in Sessions : Serving(u)'
<1>1. Shape /\ Whole /\ Own(s) /\ Common
  BY DEF TInv, IInv, Typed
<1>2. /\ Apart(s) /\ Whole' /\ op'[s] = o /\ snap'[s] = ride
      /\ base' = base /\ notes' = notes /\ UNCHANGED <<ride, holder, draft, decided, history>>
      /\ pc'[s] \in {"save", "commit", "decide"}
      /\ choice'[s] = choice[s] \/ choice'[s][1] \in Supplements
  BY <1>1, LoadFrame
<1>3. Own(s)'
  BY <1>1, <1>2 DEF Own, Common
<1>4. pc'[s] \in Steps /\ Serving(s)'
  BY <1>2 DEF Steps, Serving
<1> QED BY <1>1, <1>2, <1>3, <1>4, OthersTyped, OthersServing DEF TInv, Common

LEMMA SaveTyped ==
  ASSUME TInv, NEW s \in Sessions, Save(s)
  PROVE  Typed' /\ \A u \in Sessions : Serving(u)'
<1>1. Shape /\ Whole /\ Own(s) /\ Common /\ Serving(s)
  BY DEF TInv, IInv, Typed
<1>2. /\ Apart(s) /\ Whole' /\ pc'[s] = "update" /\ base'[s] = View(s) /\ pc[s] = "save"
      /\ UNCHANGED <<ride, holder, draft, decided, history, op, snap, choice, notes>>
  BY <1>1, SaveFrame
<1>3. Own(s)'
  BY <1>1, <1>2, ViewTyped DEF Own, TInv
<1>4. pc'[s] \in Steps /\ Serving(s)'
  BY <1>1, <1>2 DEF Steps, Serving
<1> QED BY <1>1, <1>2, <1>3, <1>4, OthersTyped, OthersServing DEF TInv, Common

LEMMA UpdateTyped ==
  ASSUME TInv, NEW s \in Sessions, Update(s)
  PROVE  Typed' /\ \A u \in Sessions : Serving(u)'
<1>1. Shape /\ Whole /\ Own(s) /\ Common /\ Serving(s)
  BY DEF TInv, IInv, Typed
<1> DEFINE from == IF Twice(s) THEN First(s)["status"] ELSE snap[s]["status"]
<1>2. /\ Apart(s) /\ Whole' /\ pc'[s] = "commit" /\ pc[s] = "update"
      /\ holder' = s /\ draft' = Row(s) /\ notes'[s] = Note(op[s], from)
      /\ UNCHANGED <<ride, decided, history, op, snap, base, choice>>
  BY <1>1, UpdateFrame
<1>3. op[s] \in Requests
  BY <1>1, <1>2 DEF Serving
<1>4. IsRow(First(s)) /\ IsRow(Row(s))
  BY <1>3, FirstTyped DEF TInv
<1>5. from \in RideStatus
  BY <1>1, <1>4 DEF Own, IsRow
<1> HIDE DEF from
<1>6. Own(s)'
  BY <1>1, <1>2, <1>3, <1>5, NoteTyped DEF Own
<1>7. pc'[s] \in Steps /\ Serving(s)'
  BY <1>1, <1>2 DEF Steps, Serving
<1> QED BY <1>1, <1>2, <1>4, <1>6, <1>7, OthersTyped, OthersServing DEF TInv, Common

LEMMA DecideTyped ==
  ASSUME TInv, NEW s \in Sessions, Decide(s)
  PROVE  Typed' /\ \A u \in Sessions : Serving(u)'
<1>1. Shape /\ Whole /\ Own(s) /\ Common /\ Serving(s) /\ Chosen(s)
  BY DEF TInv, IInv, Typed
<1>2. /\ Apart(s) /\ Whole' /\ pc'[s] = "commit" /\ pc[s] = "decide"
      /\ holder' = s /\ draft' = [snap[s] EXCEPT !["total"] = Cardinality(Accepting(s))]
      /\ UNCHANGED <<ride, decided, history, op, snap, base, choice, notes>>
  BY <1>1, DecideFrame
<1>3. Cardinality(Accepting(s)) \in Nat
  BY <1>1, <1>2, CountTyped DEF Chosen, Accepting
<1>4. IsRow(draft')
  BY <1>1, <1>2, <1>3 DEF Own, IsRow, Fields
<1>5. Own(s)'
  BY <1>1, <1>2 DEF Own
<1>6. pc'[s] \in Steps /\ Serving(s)'
  BY <1>1, <1>2 DEF Steps, Serving
<1> QED BY <1>1, <1>2, <1>4, <1>5, <1>6, OthersTyped, OthersServing DEF TInv, Common

LEMMA CommitTyped ==
  ASSUME TInv, NEW s \in Sessions, Commit(s)
  PROVE  Typed' /\ \A u \in Sessions : Serving(u)'
<1>1. Shape /\ Whole /\ Own(s) /\ Common /\ Chosen(s) /\ IInv
  BY DEF TInv, IInv, Typed
<1>2. /\ pc[s] = "commit" /\ Reset(s)
      /\ ride' = View(s) /\ holder' = IF holder = s THEN Nobody ELSE holder
      /\ draft' = IF holder = s THEN Opening ELSE draft
      /\ decided' = [x \in Supplements |-> IF x = choice[s][1] THEN choice[s][2] ELSE decided[x]]
      /\ history' = history \cup notes[s]
  BY DEF Commit
<1>3. /\ Apart(s) /\ Whole'
      /\ pc'[s] = "idle" /\ op'[s] = NoRequest /\ snap'[s] = Opening /\ base'[s] = Opening
      /\ choice'[s] = NoChoice /\ notes'[s] = {}
  BY <1>1, <1>2, ResetFrame
<1>4. decided' \in [Supplements -> {"absent", "pending", "accepted", "disputed"}]
  BY <1>1, <1>2, Nones DEF Common, Chosen
<1>5. Own(s)' /\ pc'[s] \in Steps /\ Serving(s)'
  BY <1>3, OpeningRow, Nones DEF Own, Steps, Serving
<1>6. /\ IsRow(ride)' /\ IsRow(draft)' /\ holder' \in Sessions \cup {Nobody}
      /\ history' \subseteq RideStatus \X RideStatus
  BY <1>1, <1>2, ViewTyped, OpeningRow DEF Common, Own, TInv
<1> QED BY <1>1, <1>3, <1>4, <1>5, <1>6, OthersTyped, OthersServing DEF TInv

LEMMA AbortTyped ==
  ASSUME TInv, NEW s \in Sessions, Abort(s)
  PROVE  Typed' /\ \A u \in Sessions : Serving(u)'
<1>1. Shape /\ Whole /\ Common
  BY DEF TInv, IInv, Typed
<1>2. /\ Reset(s) /\ holder' = IF holder = s THEN Nobody ELSE holder
      /\ draft' = IF holder = s THEN Opening ELSE draft
      /\ UNCHANGED <<ride, decided, history>>
  BY DEF Abort
<1>3. /\ Apart(s) /\ Whole'
      /\ pc'[s] = "idle" /\ op'[s] = NoRequest /\ snap'[s] = Opening /\ base'[s] = Opening
      /\ choice'[s] = NoChoice /\ notes'[s] = {}
  BY <1>1, <1>2, ResetFrame
<1>4. Own(s)' /\ pc'[s] \in Steps /\ Serving(s)'
  BY <1>3, OpeningRow, Nones DEF Own, Steps, Serving
<1>5. IsRow(draft)' /\ holder' \in Sessions \cup {Nobody}
  BY <1>1, <1>2, OpeningRow DEF Common
<1> QED BY <1>1, <1>2, <1>3, <1>4, <1>5, OthersTyped, OthersServing DEF TInv, Common

LEMMA TypedStep ==
  ASSUME TInv, [Next]_vars
  PROVE  TInv'
<1>1. IInv'
  BY InvStep DEF TInv
<1>2. ASSUME UNCHANGED vars
      PROVE  Typed' /\ \A u \in Sessions : Serving(u)'
  <2>1. Typed /\ \A u \in Sessions : Serving(u)
    BY DEF TInv
  <2> QED BY <1>2, <2>1 DEF vars, Typed, Whole, Common, Own, Serving
<1>3. ASSUME NEW s \in Sessions, NEW o \in Requests, Load(s, o)
      PROVE  Typed' /\ \A u \in Sessions : Serving(u)'
  BY <1>3, LoadTyped
<1>4. ASSUME NEW s \in Sessions, Save(s) \/ Update(s) \/ Decide(s) \/ Commit(s) \/ Abort(s)
      PROVE  Typed' /\ \A u \in Sessions : Serving(u)'
  BY <1>4, SaveTyped, UpdateTyped, DecideTyped, CommitTyped, AbortTyped
<1> QED BY <1>1, <1>2, <1>3, <1>4 DEF Next, TInv

LEMMA InductiveTyped == Spec => []TInv
<1>1. Init => TInv
  BY InitInv, InitTyped DEF TInv, Init, Serving
<1>2. TInv /\ [Next]_vars => TInv'
  BY TypedStep
<1> QED BY <1>1, <1>2, PTL DEF Spec

\* The starts beside a handler that is not kept together with it are counted.
LEMMA OverlapsGrow ==
  ASSUME overlaps \in Nat, [Next]_vars
  PROVE  overlaps' \in Nat /\ (overlaps' = 0 => overlaps = 0)
<1>1. ASSUME NEW s \in Sessions, NEW o \in Requests, Load(s, o)
      PROVE  overlaps' \in {overlaps, overlaps + 1}
  BY <1>1 DEF Load
<1>2. ASSUME NEW s \in Sessions, Save(s) \/ Update(s) \/ Decide(s) \/ Commit(s) \/ Abort(s)
      PROVE  overlaps' = overlaps
  BY <1>2 DEF Save, Update, Decide, Commit, Abort
<1>3. CASE UNCHANGED vars
  BY <1>3 DEF vars
<1> QED BY <1>1, <1>2, <1>3 DEF Next

LEMMA Counted == Spec => [](overlaps \in Nat)
<1>1. Init => overlaps \in Nat
  BY DEF Init
<1>2. overlaps \in Nat /\ [Next]_vars => (overlaps \in Nat)'
  BY OverlapsGrow
<1> QED BY <1>1, <1>2, PTL DEF Spec

(* The variables keep their types: in particular every row that is loaded,   *)
(* read again, merged or committed has the columns of a ride, and the total  *)
(* that a decision writes counts a finite set of supplements.                *)
THEOREM Typing == Spec => []TypeOK
<1>1. TInv /\ overlaps \in Nat => TypeOK
  BY TypedIsTypeOK DEF TInv, IInv
<1> QED BY <1>1, InductiveTyped, Counted, PTL

----------------------------------------------------------------------------
(* The ride, when only those handlers run beside one another that keep it.   *)

\* The handlers that run beside their like only, or a proposal.
Once == {"arrive", "start", "noshow", "confirm"}

\* What holds of a row between two commits: it was started and is billed.
Sound(r) ==
    /\ r["status"] \in Running \cup {"completed"}
          => r["coded"] /\ r["used"] /\ r["attempts"] < MaxAttempts
    /\ r["timed"] => r["status"] \in {"waiting"} \cup Cancelled
    /\ r["status"] = "completed" => r["fare"] = r["waits"] + r["total"]
    /\ r["status"] # "completed" => r["fare"] = NoFare
Traced(st, hist) ==
    st \notin Running \cup Cancelled \cup {"requested"} => \E h \in hist : h[2] = st /\ h[1] # h[2]
Leads(from, to) == to = from \/ to \in Allowed[from]

\* The row a handler leaves when it has the ride to itself.
Done(o, p) ==
    IF p["status"] = "waiting" /\ o[2] = "completed" THEN Billed(o, Stopped(p)) ELSE After(o, p)

\* A ride that PATCH has set to waiting has no wait to stop.
Stuck(r) == r["status"] = "waiting" /\ ~r["timed"]

\* What the row may have become while a handler serves o from its reading p.
Beside(o, p, r) ==
    /\ o[1] = "decide" => \A f \in Fields \ {"total"} : r[f] = p[f]
    /\ o[1] \in Touching =>
          \/ r = p
          \/ /\ p["status"] \in Running /\ r["status"] \in Running
             /\ Stuck(r) = Stuck(p)
             /\ \A f \in {"driver", "coded", "used", "attempts", "total", "fare"} : r[f] = p[f]
    /\ o[1] \in Once => r = p \/ r = Done(o, p)
    /\ o[1] \notin {"propose", "decide"} \cup Touching \cup Once => r = p

Working(s) ==
    pc[s] # "idle" =>
        /\ Admits(op[s], snap[s]) /\ Sound(snap[s]) /\ Beside(op[s], snap[s], ride)
        /\ pc[s] = "update" =>
              /\ Sound(base[s]) /\ Beside(op[s], snap[s], base[s]) /\ Shaped(base[s])
              /\ op[s][1] \in Once /\ base[s] # snap[s] => ride = base[s]
        /\ pc[s] = "commit" => op[s][1] = "propose" \/ holder = s
Holds(s) ==
    holder = s =>
        /\ pc[s] = "commit" /\ op[s][1] # "propose"
        /\ Sound(draft) /\ Leads(ride["status"], draft["status"])
        /\ Traced(draft["status"], history \cup notes[s])
        /\ op[s][1] # "decide" => draft["total"] = ride["total"]
        /\ IF op[s][1] \in {"decide"} \cup Touching
           THEN Beside(op[s], snap[s], draft) ELSE draft = Done(op[s], snap[s])
Committed ==
    /\ Sound(ride) /\ ride["total"] = Cardinality(Accepted) /\ Traced(ride["status"], history)
Paired ==
    \A s \in Sessions, t \in Sessions :
        s # t /\ pc[s] # "idle" /\ pc[t] # "idle" =>
            /\ KeepsBeside(op[s][1], op[t][1])
            /\ op[s][1] = op[t][1] /\ op[s][1] \in Once => op[s] = op[t] /\ snap[s] = snap[t]
RInv == TInv /\ Committed /\ Paired /\ \A s \in Sessions : Working(s) /\ Holds(s)

LEMMA AllowedTable ==
  /\ Allowed["requested"] = {"matched", "no_driver_found"} \cup Cancelled
  /\ Allowed["matched"] = {"driver_en_route"} \cup Cancelled
  /\ Allowed["driver_en_route"] = {"arrived"} \cup Cancelled
  /\ Allowed["arrived"] = {"in_progress"} \cup Cancelled
  /\ Allowed["in_progress"] = {"waiting", "completed"} \cup Cancelled
  /\ Allowed["waiting"] = {"in_progress", "completed"} \cup Cancelled
  /\ \A st \in {"completed", "no_driver_found"} \cup Cancelled : Allowed[st] = {}
BY StatusNames DEF Allowed, States!Allowed, Cancelled, RideStatus, Statuses

\* The columns of a row stopped, and of a row billed.
LEMMA StoppedColumns ==
  ASSUME NEW r, IsRow(r)
  PROVE  /\ Stopped(r)["status"] = "in_progress" /\ Stopped(r)["timed"] = FALSE
         /\ Stopped(r)["waits"] = r["waits"] + 1
         /\ Stopped(r)["fare"] = r["fare"] /\ Stopped(r)["total"] = r["total"]
         /\ \A f \in Fields \ {"status", "timed", "waits"} : Stopped(r)[f] = r[f]
BY DEF Stopped, IsRow, Fields

LEMMA BilledColumns ==
  ASSUME NEW r, IsRow(r), NEW o, r["fare"] = NoFare \/ o[1] = "confirm"
  PROVE  /\ Billed(o, r)["status"] = "completed"
         /\ Billed(o, r)["fare"] = r["waits"] + r["total"]
         /\ \A f \in Fields \ {"status", "fare"} : Billed(o, r)[f] = r[f]
<1>1. Billed(o, r) = [r EXCEPT !["status"] = "completed", !["fare"] = r["waits"] + r["total"] + 0]
  BY DEF Billed
<1>2. r["waits"] + r["total"] + 0 = r["waits"] + r["total"]
  BY DEF IsRow
<1> QED BY <1>1, <1>2 DEF IsRow, Fields

LEMMA LedColumns ==
  ASSUME NEW r, IsRow(r), NEW o
  PROVE  /\ Led(o, r)["status"] = o[2]
         /\ \A f \in Fields \ {"status"} : Led(o, r)[f] = r[f]
BY DEF Led, IsRow, Fields

\* What a handler of which nothing runs beside it, but itself, makes of a ride.
Finishes(o, p) ==
    /\ Sound(Done(o, p)) /\ Leads(p["status"], Done(o, p)["status"])
    /\ Done(o, p)["total"] = p["total"]
    /\ \/ Done(o, p)["status"] \in Running \cup Cancelled \cup {"requested"}
       \/ Done(o, p)["status"] = p["status"]
       \/ o[1] \in Recorded /\ o[2] = Done(o, p)["status"]

LEMMA BilledFinishes ==
  ASSUME NEW o, o[1] \in {"confirm", "patch"}, o[2] = "completed",
         NEW p, IsRow(p), Sound(p), p["status"] \in Running
  PROVE  Finishes(o, p)
<1> DEFINE q == IF p["status"] = "waiting" THEN Stopped(p) ELSE p
<1>1. Done(o, p) = Billed(o, q)
  BY DEF Done, After
<1>2. /\ IsRow(q) /\ q["fare"] = NoFare /\ q["timed"] = FALSE /\ q["total"] = p["total"]
      /\ \A f \in {"coded", "used", "attempts"} : q[f] = p[f]
  <2>1. CASE p["status"] = "waiting"
    <3>1. q = Stopped(p)
      BY <2>1
    <3>2. p["fare"] = NoFare
      BY <2>1 DEF Sound
    <3> HIDE DEF q
    <3>3. IsRow(Stopped(p)) /\ Stopped(p)["timed"] = FALSE
      BY StoppedRow, StoppedColumns
    <3>4. \A f \in {"coded", "used", "attempts"} : f \in Fields \ {"status", "timed", "waits"}
      BY DEF Fields
    <3> QED BY <3>1, <3>2, <3>3, <3>4, StoppedColumns
  <2>2. CASE p["status"] = "in_progress"
    BY <2>2, StatusNames DEF Sound, IsRow
  <2> QED BY <2>1, <2>2 DEF Running
<1> HIDE DEF q
<1>3. /\ Done(o, p)["status"] = "completed" /\ Done(o, p)["timed"] = FALSE
      /\ Done(o, p)["fare"] = q["waits"] + q["total"]
      /\ Done(o, p)["waits"] = q["waits"] /\ Done(o, p)["total"] = q["total"]
      /\ \A f \in {"coded", "used", "attempts"} : Done(o, p)[f] = p[f]
  BY <1>1, <1>2, BilledColumns DEF Fields
<1>4. Leads(p["status"], "completed")
  BY AllowedTable DEF Leads, Running
<1> QED BY <1>2, <1>3, <1>4 DEF Finishes, Sound, Recorded

LEMMA LedFinishes ==
  ASSUME NEW o, o[1] \in {"giveup", "noshow", "patch"},
         o[2] \in RideStatus \ {"completed", "in_progress"},
         NEW p, IsRow(p), Sound(p), Follows(p, o[2])
  PROVE  Finishes(o, p)
<1>1. Done(o, p) = Led(o, p)
  BY DEF Done, After
<1>2. /\ Done(o, p)["status"] = o[2]
      /\ \A f \in {"timed", "fare", "waits", "total", "coded", "used", "attempts"} :
            Done(o, p)[f] = p[f]
  BY <1>1, LedColumns DEF Fields
<1>3. Leads(p["status"], o[2])
  BY DEF Follows, Leads
<1>4. /\ p["timed"] => o[2] \in {"waiting"} \cup Cancelled
      /\ p["status"] # "completed"
      /\ o[2] = "waiting" => p["status"] \in Running
  BY StatusNames, AllowedTable DEF Sound, Follows, Running, IsRow, Statuses
<1>5. o[2] \in Running \cup {"completed"} => o[2] = "waiting"
  BY DEF Running
<1> QED BY <1>2, <1>3, <1>4, <1>5 DEF Finishes, Sound, Recorded

LEMMA CancelFinishes ==
  ASSUME NEW o, o[1] = "cancel", o[2] \in Cancelled,
         NEW p, IsRow(p), Sound(p), Admits(o, p)
  PROVE  Finishes(o, p)
<1> DEFINE q == IF p["status"] = "waiting" THEN Stopped(p) ELSE p
<1>1. Done(o, p) = Led(o, q)
  BY StatusNames DEF Done, After
<1>2. /\ IsRow(q) /\ \A f \in {"fare", "total"} : q[f] = p[f]
  <2>1. CASE p["status"] = "waiting"
    <3>1. q = Stopped(p)
      BY <2>1
    <3> HIDE DEF q
    <3> QED BY <3>1, StoppedRow, StoppedColumns
  <2>2. CASE p["status"] # "waiting"
    BY <2>2
  <2> QED BY <2>1, <2>2
<1> HIDE DEF q
<1>3. /\ Done(o, p)["status"] = o[2]
      /\ Done(o, p)["fare"] = p["fare"] /\ Done(o, p)["total"] = p["total"]
  <2>1. Led(o, q)["status"] = o[2] /\ \A f \in Fields \ {"status"} : Led(o, q)[f] = q[f]
    BY <1>2, LedColumns
  <2>2. Led(o, q)["fare"] = q["fare"] /\ Led(o, q)["total"] = q["total"]
    BY <2>1 DEF Fields
  <2> QED BY <1>1, <1>2, <2>1, <2>2
<1>4. Allowed[p["status"]] # {}
  BY DEF Admits
<1>5. p["status"] # "completed" /\ o[2] \in Allowed[p["status"]]
  BY <1>4, AllowedTable, StatusNames DEF IsRow, Statuses
<1> QED BY <1>3, <1>5, StatusNames DEF Finishes, Sound, Leads, Running

\* The handlers that only set a status and one column more.
LEMMA SetFinishes ==
  ASSUME NEW o \in Requests, o[1] \in {"accept", "arrive", "start", "wrong"},
         NEW p, IsRow(p), Sound(p), Admits(o, p)
  PROVE  Finishes(o, p)
<1> DEFINE q == Done(o, p)
<1>1. q = After(o, p)
  BY RequestTable DEF Done
<1>2. p["fare"] = NoFare /\ ~p["timed"]
  BY StatusNames DEF Admits, Sound
<1>3. CASE o[1] = "accept"
  <2>1. q["status"] = "matched" /\ \A f \in {"timed", "fare", "total"} : q[f] = p[f]
    BY <1>1, <1>3, RequestTable DEF After, IsRow, Fields
  <2>2. Leads(p["status"], "matched")
    BY <1>3, AllowedTable DEF Leads, Admits
  <2> HIDE DEF q
  <2>3. Sound(q)
    BY <1>2, <2>1 DEF Sound, Running
  <2> QED BY <1>3, <2>1, <2>2, <2>3, RequestTable DEF Finishes, Recorded, q
<1>4. CASE o[1] = "arrive"
  <2>1. q["status"] = "arrived" /\ q["coded"] /\ \A f \in {"timed", "fare", "total"} : q[f] = p[f]
    BY <1>1, <1>4, RequestTable DEF After, IsRow, Fields
  <2>2. Leads(p["status"], "arrived")
    BY <1>4, AllowedTable DEF Leads, Admits
  <2> HIDE DEF q
  <2>3. Sound(q)
    BY <1>2, <2>1 DEF Sound, Running
  <2> QED BY <1>4, <2>1, <2>2, <2>3, RequestTable DEF Finishes, Recorded, q
<1>5. CASE o[1] = "start"
  <2>1. /\ q["status"] = "in_progress" /\ q["used"] /\ p["coded"] /\ p["attempts"] < MaxAttempts
        /\ \A f \in {"timed", "fare", "total", "coded", "attempts"} : q[f] = p[f]
    BY <1>1, <1>5, RequestTable DEF After, IsRow, Fields, Admits
  <2>2. Leads(p["status"], "in_progress")
    BY <1>5, AllowedTable DEF Leads, Admits
  <2> HIDE DEF q
  <2>3. Sound(q)
    BY <1>2, <2>1 DEF Sound, Running
  <2> QED BY <1>5, <2>1, <2>2, <2>3, RequestTable DEF Finishes, Recorded, q
<1>6. CASE o[1] = "wrong"
  <2>1. \A f \in {"status", "coded", "timed", "fare", "total"} : q[f] = p[f]
    BY <1>1, <1>6, RequestTable DEF After, IsRow, Fields
  <2>2. p["status"] = "arrived"
    BY <1>6 DEF Admits
  <2> HIDE DEF q
  <2>3. Sound(q)
    BY <1>2, <2>1, <2>2 DEF Sound, Running
  <2> QED BY <2>1, <2>2, <2>3 DEF Finishes, Leads, q
<1> QED BY <1>3, <1>4, <1>5, <1>6

LEMMA AloneFinishes ==
  ASSUME NEW o \in Requests, o[1] \notin {"propose", "decide"} \cup Touching,
         NEW p, IsRow(p), Sound(p), Admits(o, p)
  PROVE  Finishes(o, p)
<1>1. CASE o[1] = "cancel"
  BY <1>1, RequestTable, CancelFinishes
<1>2. CASE o[1] \in {"accept", "arrive", "start", "wrong"}
  BY <1>2, SetFinishes
<1>3. CASE o[1] = "confirm"
  <2>1. p["status"] \in Running
    BY <1>3 DEF Admits
  <2> QED BY <1>3, <2>1, RequestTable, BilledFinishes
<1>4. CASE o[1] = "patch"
  <2>1. PatchAdmits(p, o[2])
    BY <1>4 DEF Admits
  <2>2. CASE o[2] = "completed"
    <3>1. p["status"] \in Running
      BY <2>1, <2>2, AllowedTable, StatusNames DEF PatchAdmits, Follows, IsRow, Statuses, Running
    <3> QED BY <1>4, <2>2, <3>1, BilledFinishes
  <2>3. CASE o[2] # "completed"
    BY <1>4, <2>1, <2>3, RequestTable, LedFinishes DEF PatchAdmits
  <2> QED BY <2>2, <2>3
<1>5. CASE o[1] \in {"giveup", "noshow"}
  <2>1. Follows(p, o[2]) /\ o[2] \in RideStatus \ {"completed", "arrived", "waiting", "in_progress"}
    BY <1>5, RequestTable, AllowedTable, StatusNames DEF Admits, Follows, Statuses
  <2> QED BY <1>5, <2>1, LedFinishes
<1> QED BY <1>1, <1>2, <1>3, <1>4, <1>5, RequestTable DEF Touching

\* What a handler of Once has done, it does not do again.
LEMMA OnlyOnce ==
  ASSUME NEW o \in Requests, o[1] \in Once, NEW p, IsRow(p), Sound(p), Admits(o, p)
  PROVE  ~Admits(o, Done(o, p))
<1>1. CASE o[1] = "confirm"
  <2> DEFINE q == IF p["status"] = "waiting" THEN Stopped(p) ELSE p
  <2>1. Done(o, p) = Billed(o, q)
    BY <1>1, RequestTable DEF Done, After
  <2>2. IsRow(q)
    BY StoppedRow
  <2> HIDE DEF q
  <2>3. Done(o, p)["status"] = "completed"
    BY <1>1, <2>1, <2>2, BilledColumns
  <2> QED BY <1>1, <2>3 DEF Admits, Running
<1>2. CASE o[1] \in {"arrive", "start", "noshow"}
  <2>1. Done(o, p) = After(o, p)
    BY <1>2, RequestTable DEF Done
  <2>2. Done(o, p)["status"] = o[2]
    BY <1>2, <2>1, RequestTable, LedColumns DEF After, IsRow, Fields
  <2> QED BY <1>2, <2>2, RequestTable DEF Admits
<1> QED BY <1>1, <1>2 DEF Once

LEMMA OneRequest ==
  ASSUME NEW o \in Requests, NEW o2 \in Requests, o[1] = o2[1], o[1] \in Once
  PROVE  o = o2
<1>1. o = <<o[1], o[2]>> /\ o2 = <<o2[1], o2[2]>>
  BY RequestTable
<1>2. o[2] = o2[2]
  BY RequestTable DEF Once
<1> QED BY <1>1, <1>2

----------------------------------------------------------------------------
(* What an update writes, whatever was committed since the reading. *)

LEMMA MergeAgain ==
  ASSUME NEW new, Shaped(new), NEW old
  PROVE  Merge(new, old, old) = new /\ Merge(new, old, new) = new
<1>1. \A f \in Fields : Merge(new, old, old)[f] = new[f] /\ Merge(new, old, new)[f] = new[f]
  BY DEF Merge
<1>2. Shaped(Merge(new, old, old)) /\ Shaped(Merge(new, old, new))
  BY MergeShaped
<1> QED BY <1>1, <1>2 DEF Shaped

LEMMA LedShaped ==
  ASSUME NEW r, Shaped(r), NEW o
  PROVE  Shaped(Led(o, r))
BY DEF Shaped, Led

LEMMA AfterShaped ==
  ASSUME NEW r, Shaped(r), NEW o \in Requests
  PROVE  Shaped(After(o, r))
<1>1. CASE o[1] = "cancel"
  BY <1>1, RequestTable, StatusNames, CancelShaped
<1>2. CASE o[1] \in {"confirm", "patch", "giveup", "noshow"}
  BY <1>2, RequestTable, BilledShaped, LedShaped DEF After
<1>3. CASE o[1] \in {"accept", "arrive", "start", "wait"}
  BY <1>3, RequestTable DEF After, Shaped
<1>4. CASE o[1] \in {"wrong", "ask", "resume"}
  BY <1>4, RequestTable, StoppedShaped DEF After, Shaped
<1>5. CASE o[1] \in {"propose", "touch", "decide"}
  BY <1>5, RequestTable DEF After
<1> QED BY <1>1, <1>2, <1>3, <1>4, <1>5, RequestTable

\* A wait that is stopped over a ride already completed, and the completion
\* that follows, leave what the first completion did.
LEMMA BilledAgain ==
  ASSUME NEW o, o[1] = "confirm", NEW p, IsRow(p), Shaped(p), p["status"] = "waiting", p["timed"]
  PROVE  Billed(o, Merge(Stopped(p), p, Billed(o, Stopped(p)))) = Billed(o, Stopped(p))
<1> DEFINE q == Stopped(p)
           d == Billed(o, q)
           m == Merge(q, p, d)
<1>1. /\ IsRow(q) /\ Shaped(q) /\ q["status"] # p["status"] /\ q["timed"] # p["timed"]
      /\ q["waits"] # p["waits"]
  <2>1. p["waits"] + 1 # p["waits"]
    BY DEF IsRow
  <2> QED BY <2>1, StoppedRow, StoppedShaped, StoppedColumns
<1>2. \A f \in Fields \ {"status", "timed", "waits"} : q[f] = p[f]
  BY StoppedColumns
<1> HIDE DEF q
<1>3. /\ IsRow(d) /\ Shaped(d) /\ d["status"] = "completed" /\ d["fare"] = q["waits"] + q["total"]
      /\ \A f \in Fields \ {"status", "fare"} : d[f] = q[f]
  BY <1>1, BilledRow, BilledShaped, BilledColumns
<1> HIDE DEF d
<1>4. IsRow(m) /\ Shaped(m) /\ \A f \in Fields \ {"fare"} : m[f] = q[f]
  <2>1. \A f \in Fields : m[f] = IF q[f] # p[f] THEN q[f] ELSE d[f]
    BY DEF Merge
  <2>2. m["status"] = q["status"]
    BY <1>1, <2>1 DEF Fields
  <2>3. \A f \in Fields \ {"status", "fare"} : m[f] = q[f]
    BY <1>3, <2>1
  <2> QED BY <1>1, <1>3, <2>2, <2>3, MergeRow, MergeShaped
<1> HIDE DEF m
<1>5. /\ Shaped(Billed(o, m)) /\ Billed(o, m)["status"] = "completed"
      /\ Billed(o, m)["fare"] = m["waits"] + m["total"]
      /\ \A f \in Fields \ {"status", "fare"} : Billed(o, m)[f] = m[f]
  BY <1>4, BilledShaped, BilledColumns
<1>6. m["waits"] = q["waits"] /\ m["total"] = q["total"]
  BY <1>4 DEF Fields
<1>7. \A f \in Fields : Billed(o, m)[f] = d[f]
  BY <1>3, <1>4, <1>5, <1>6
<1>8. Billed(o, m) = d
  BY <1>3, <1>5, <1>7 DEF Shaped
<1> QED BY <1>8 DEF q, d, m

\* The handlers that have the ride to themselves, or share it with their like
\* only, leave what they would have left alone.
LEMMA RowDone ==
  ASSUME RInv, NEW s \in Sessions, pc[s] = "update", RowFree(s), op[s][1] \notin Touching
  PROVE  /\ Row(s) = Done(op[s], snap[s])
         /\ \/ ride = snap[s]
            \/ op[s][1] \in Once /\ ride = Done(op[s], snap[s])
         /\ Twice(s) => First(s)["status"] = "in_progress"
<1> DEFINE o == op[s]
           p == snap[s]
           b == base[s]
           d == Done(o, p)
<1>1. /\ o \in Requests /\ Working(s) /\ Holds(s) /\ Chosen(s) /\ Serving(s) /\ IsRow(p) /\ Shaped(p)
      /\ Shape
  BY DEF RInv, TInv, IInv, Shape, Typed, Own, Serving
<1>2. View(s) = ride
  BY <1>1 DEF Holds, View
<1>3. o[1] \notin {"propose", "decide"} \cup Touching
  BY <1>1 DEF Chosen
<1>4. \/ b = p /\ ride = p
      \/ o[1] \in Once /\ b = p /\ ride = d
      \/ o[1] \in Once /\ b = d /\ ride = d
  BY <1>1, <1>3 DEF Working, Beside
<1>5. Shaped(After(o, p)) /\ Shaped(Stopped(p)) /\ Admits(o, p) /\ Sound(p)
  BY <1>1, AfterShaped, StoppedShaped DEF Working
<1>6. CASE Twice(s)
  <2>1. d = Billed(o, Stopped(p)) /\ First(s) = Merge(Stopped(p), b, ride) /\ Row(s) = Billed(o, First(s))
    BY <1>2, <1>6 DEF Twice, Done, First, Row
  <2>2. p["status"] = "waiting" /\ p["timed"] /\ Stopped(p)["status"] = "in_progress"
    <3>1. o[1] \in {"confirm", "patch"}
      BY <1>1, <1>3, <1>6, RequestTable, StatusNames DEF Twice, Touching
    <3>2. p["timed"]
      BY <1>5, <1>6, <3>1 DEF Twice, Admits, PatchAdmits
    <3> QED BY <1>1, <1>6, <3>2, StoppedColumns DEF Twice
  <2>3. CASE b = p /\ ride = p
    <3>1. First(s) = Stopped(p)
      BY <1>5, <2>1, <2>3, MergeAgain
    <3> QED BY <2>1, <2>2, <2>3, <3>1
  <2>4. CASE o[1] \in Once /\ b = d /\ ride = d
    <3>1. First(s) = Stopped(p)
      BY <1>5, <2>1, <2>4, MergeAgain
    <3> QED BY <2>1, <2>2, <2>4, <3>1
  <2>5. CASE o[1] \in Once /\ b = p /\ ride = d
    <3>1. o[1] = "confirm"
      BY <1>1, <1>6, <2>5, RequestTable DEF Once, Twice
    <3>2. First(s)["status"] = "in_progress"
      BY <2>1, <2>2, <2>5 DEF Merge, Fields
    <3> QED BY <1>1, <2>1, <2>2, <2>5, <3>1, <3>2, BilledAgain
  <2> QED BY <1>4, <2>3, <2>4, <2>5
<1>7. CASE ~Twice(s)
  <2>1. d = After(o, p) /\ First(s) = Merge(d, b, ride)
    BY <1>2, <1>7 DEF Twice, Done, First
  <2>2. First(s) = d
    BY <1>4, <1>5, <2>1, MergeAgain
  <2>3. Row(s) = d
    BY <1>7, <2>1, <2>2 DEF Row
  <2> QED BY <1>4, <1>7, <2>3
<1> QED BY <1>6, <1>7

Steady == {"driver", "coded", "used", "attempts", "total", "fare"}
\* A ride under way, with its wait open when it waits, but for PATCH.
UnderWay(r) ==
    r["status"] \in Running /\ r["timed"] \in BOOLEAN /\ (r["timed"] => r["status"] = "waiting")

LEMMA RunningUnderWay ==
  ASSUME NEW r, IsRow(r), Sound(r), r["status"] \in Running
  PROVE  UnderWay(r)
<1>1. r["status"] \notin Cancelled
  BY StatusNames DEF Running
<1> QED BY <1>1 DEF Sound, IsRow, UnderWay

\* The waits, the request to stop early and an update of nothing keep a ride
\* under way ...
LEMMA TouchAfter ==
  ASSUME NEW o \in Requests, o[1] \in Touching, NEW p, IsRow(p), Sound(p), p["status"] \in Running,
         Admits(o, p)
  PROVE  UnderWay(After(o, p)) /\ Stuck(After(o, p)) = Stuck(p) /\ \A f \in Steady : After(o, p)[f] = p[f]
<1>1. UnderWay(p)
  BY RunningUnderWay
<1>2. CASE o[1] = "wait"
  <2>1. After(o, p) = [p EXCEPT !["status"] = "waiting", !["timed"] = TRUE]
    BY <1>2, RequestTable DEF After
  <2>2. p["status"] = "in_progress"
    BY <1>2 DEF Admits
  <2> QED BY <2>1, <2>2 DEF UnderWay, IsRow, Fields, Steady, Running, Stuck
<1>3. CASE o[1] = "resume"
  <2>1. After(o, p) = Stopped(p)
    BY <1>3, RequestTable DEF After
  <2>2. Stopped(p)["status"] = "in_progress" /\ Stopped(p)["timed"] = FALSE
    BY StoppedColumns
  <2>3. \A f \in Steady : Stopped(p)[f] = p[f]
    <3>1. \A f \in Steady : f \in Fields \ {"status", "timed", "waits"}
      BY DEF Fields, Steady
    <3> QED BY <3>1, StoppedColumns
  <2>4. p["timed"]
    BY <1>3 DEF Admits
  <2> QED BY <2>1, <2>2, <2>3, <2>4 DEF UnderWay, Running, Stuck
<1>4. CASE o[1] = "ask"
  <2>1. After(o, p) = [p EXCEPT !["early"] = TRUE]
    BY <1>4, RequestTable DEF After
  <2> QED BY <1>1, <2>1 DEF UnderWay, IsRow, Fields, Steady, Running, Stuck
<1>5. CASE o[1] = "touch"
  <2>1. After(o, p) = p
    BY <1>5, RequestTable DEF After
  <2> QED BY <1>1, <2>1
<1> QED BY <1>2, <1>3, <1>4, <1>5 DEF Touching

\* ... and so does their merge with what was committed since.
LEMMA MergeUnderWay ==
  ASSUME NEW a, NEW b, NEW r, UnderWay(a), UnderWay(b), UnderWay(r),
         Stuck(a) = Stuck(r), Stuck(b) = Stuck(r),
         NEW p, \A f \in Steady : a[f] = p[f] /\ b[f] = p[f] /\ r[f] = p[f]
  PROVE  /\ UnderWay(Merge(a, b, r)) /\ Stuck(Merge(a, b, r)) = Stuck(r)
         /\ \A f \in Steady : Merge(a, b, r)[f] = p[f]
<1>1. \A f \in Fields : Merge(a, b, r)[f] = IF a[f] # b[f] THEN a[f] ELSE r[f]
  BY DEF Merge
<1>2. \A f \in Steady : Merge(a, b, r)[f] = p[f]
  BY <1>1 DEF Steady, Fields
<1>3. /\ Merge(a, b, r)["status"] = IF a["status"] # b["status"] THEN a["status"] ELSE r["status"]
      /\ Merge(a, b, r)["timed"] = IF a["timed"] # b["timed"] THEN a["timed"] ELSE r["timed"]
  BY <1>1 DEF Fields
<1>4. a["status"] # b["status"] <=> a["timed"] # b["timed"]
  BY DEF UnderWay, Running, Stuck
<1>5. UnderWay(Merge(a, b, r)) /\ Stuck(Merge(a, b, r)) = Stuck(r)
  BY <1>3, <1>4 DEF UnderWay, Stuck
<1> QED BY <1>2, <1>5

LEMMA UnderWaySound ==
  ASSUME NEW r, UnderWay(r), r["fare"] = NoFare, r["coded"], r["used"], r["attempts"] < MaxAttempts
  PROVE  Sound(r)
BY DEF UnderWay, Sound, Running

\* The update of a handler of Touching.
LEMMA RowTouched ==
  ASSUME RInv, NEW s \in Sessions, pc[s] = "update", RowFree(s), op[s][1] \in Touching
  PROVE  /\ Sound(Row(s)) /\ Leads(ride["status"], Row(s)["status"])
         /\ Row(s)["total"] = ride["total"] /\ Traced(Row(s)["status"], history)
         /\ Beside(op[s], snap[s], Row(s))
<1> DEFINE o == op[s]
           p == snap[s]
           b == base[s]
           a == After(o, p)
<1>1. /\ o \in Requests /\ Working(s) /\ Holds(s) /\ IsRow(p) /\ IsRow(b) /\ IsRow(ride)
      /\ Shaped(p) /\ Sound(ride) /\ Traced(ride["status"], history)
  BY DEF RInv, TInv, IInv, Shape, Typed, Own, Serving, Common, Committed
<1>2. View(s) = ride
  BY <1>1 DEF Holds, View
<1>3. /\ Admits(o, p) /\ Sound(p) /\ Sound(b) /\ Beside(o, p, ride) /\ Beside(o, p, b)
  BY <1>1 DEF Working
<1>4. Row(s) = Merge(a, b, ride)
  <2>1. o[2] # "completed" /\ o[1] # "cancel"
    BY <1>1, RequestTable DEF Touching
  <2> QED BY <1>2, <2>1 DEF Row, First, Twice
<1>5. CASE p["status"] \notin Running
  <2>1. o[1] = "touch"
    BY <1>3, <1>5 DEF Admits, Touching, Running
  <2>2. a = p /\ b = p /\ ride = p
    BY <1>1, <1>3, <1>5, <2>1, RequestTable DEF After, Beside, Touching
  <2>3. Row(s) = ride
    BY <1>1, <1>4, <2>2, MergeAgain
  <2> QED BY <1>1, <1>3, <2>3 DEF Leads
<1>6. CASE p["status"] \in Running
  <2>1. b["status"] \in Running /\ ride["status"] \in Running
    BY <1>3, <1>6 DEF Beside
  <2>2. \A f \in Steady : b[f] = p[f] /\ ride[f] = p[f]
    BY <1>3 DEF Beside, Steady
  <2>3. /\ UnderWay(a) /\ UnderWay(b) /\ UnderWay(ride) /\ \A f \in Steady : a[f] = p[f]
        /\ Stuck(a) = Stuck(p) /\ Stuck(b) = Stuck(p) /\ Stuck(ride) = Stuck(p)
    <3>1. UnderWay(a) /\ Stuck(a) = Stuck(p) /\ \A f \in Steady : a[f] = p[f]
      BY <1>1, <1>3, <1>6, TouchAfter
    <3>2. UnderWay(b) /\ UnderWay(ride)
      BY <1>1, <1>3, <2>1, RunningUnderWay
    <3>3. Stuck(b) = Stuck(p) /\ Stuck(ride) = Stuck(p)
      BY <1>3 DEF Beside
    <3> QED BY <3>1, <3>2, <3>3
  <2> HIDE DEF a
  <2>4. UnderWay(Row(s)) /\ Stuck(Row(s)) = Stuck(p) /\ \A f \in Steady : Row(s)[f] = p[f]
    BY <1>4, <2>2, <2>3, MergeUnderWay
  <2>5. p["fare"] = NoFare /\ p["coded"] /\ p["used"] /\ p["attempts"] < MaxAttempts
    BY <1>3, <1>6 DEF Sound, Running
  <2>6. Sound(Row(s)) /\ Row(s)["total"] = ride["total"] /\ Row(s)["status"] \in Running
    BY <2>2, <2>4, <2>5, UnderWaySound DEF Steady, UnderWay
  <2>7. Leads(ride["status"], Row(s)["status"])
    BY <2>1, <2>6, AllowedTable DEF Leads, Running
  <2>8. Traced(Row(s)["status"], history)
    BY <2>6 DEF Traced
  <2>9. Beside(o, p, Row(s))
    BY <1>6, <2>4, <2>6 DEF Beside, Steady, Touching, Once
  <2> QED BY <2>6, <2>7, <2>8, <2>9
<1> QED BY <1>5, <1>6

----------------------------------------------------------------------------
(* The steps, once more. *)

\* What the others rely on when s leaves the row as it is.
LEMMA OthersRide ==
  ASSUME RInv, NEW s \in Sessions, Apart(s), ride' = ride, history \subseteq history',
         \A u \in Sessions \ {s} : holder = u => holder' = u /\ draft' = draft,
         \A u \in Sessions \ {s} : holder' = u => holder = u
  PROVE  \A u \in Sessions \ {s} : (Working(u) /\ Holds(u))'
<1> SUFFICES ASSUME NEW u \in Sessions \ {s} PROVE (Working(u) /\ Holds(u))'
  OBVIOUS
<1>1. /\ Working(u) /\ Holds(u) /\ pc'[u] = pc[u] /\ op'[u] = op[u] /\ snap'[u] = snap[u]
      /\ base'[u] = base[u] /\ notes'[u] = notes[u]
      /\ holder' = u <=> holder = u
      /\ holder = u => draft' = draft
  BY DEF RInv, Apart
<1>2. Working(u)'
  BY <1>1 DEF Working
<1>3. Traced(draft["status"], history \cup notes[u]) => Traced(draft["status"], history' \cup notes[u])
  BY DEF Traced
<1>4. Holds(u)'
  BY <1>1, <1>3 DEF Holds
<1> QED BY <1>2, <1>4

\* Only the session that starts has to be paired with the others anew.
LEMMA PairedStays ==
  ASSUME Paired, NEW s \in Sessions, Apart(s),
         pc'[s] # "idle" => pc[s] # "idle" /\ op'[s] = op[s] /\ snap'[s] = snap[s]
  PROVE  Paired'
<1>1. \A u \in Sessions : pc'[u] # "idle" => pc[u] # "idle" /\ op'[u] = op[u] /\ snap'[u] = snap[u]
  BY DEF Apart
<1> QED BY <1>1 DEF Paired

LEMMA RInvFrom ==
  ASSUME TInv', NEW s \in Sessions, Committed', Paired', (Working(s) /\ Holds(s))',
         \A u \in Sessions \ {s} : (Working(u) /\ Holds(u))'
  PROVE  RInv'
BY DEF RInv

\* Which handlers are kept together.
LEMMA Pairs ==
  ASSUME NEW h, NEW g, KeepsBeside(h, g)
  PROVE  \/ h = "propose" \/ g = "propose"
         \/ h = "decide" /\ g = "decide"
         \/ h \in Touching /\ g \in Touching
         \/ h \in Once /\ h = g
<1>1. PICK kept \in KeptTogether : h \in kept /\ g \in kept
  BY DEF KeepsBeside
<1>2. CASE kept = {"propose"} \cup Touching
  BY <1>1, <1>2
<1>3. CASE kept \in {{"propose", "decide"}, {"propose", "confirm"}, {"arrive"}, {"start"}, {"noshow"}}
  BY <1>1, <1>3 DEF Once
<1> QED BY <1>1, <1>2, <1>3 DEF KeptTogether

LEMMA LoadRide ==
  ASSUME RInv, TInv', NEW s \in Sessions, NEW o \in Requests, Load(s, o),
         overlaps = 0, overlaps' = 0
  PROVE  RInv'
<1>1. Shape /\ Whole /\ Holds(s) /\ Committed
  BY DEF RInv, TInv, IInv, Typed
<1>2. /\ Apart(s) /\ op'[s] = o /\ snap'[s] = ride
      /\ UNCHANGED <<ride, holder, draft, decided, history>>
      /\ pc'[s] \in {"save", "commit", "decide"} /\ (pc'[s] = "commit" => o[1] = "propose")
  BY <1>1, LoadFrame
<1>3. /\ pc[s] = "idle" /\ Admits(o, ride)
      /\ \A u \in Sessions : pc[u] # "idle" =>
            KeepsBeside(o[1], op[u][1]) /\ KeepsBeside(op[u][1], o[1])
  BY DEF Load, KeepsBeside
<1>4. Working(s)'
  BY <1>1, <1>2, <1>3 DEF Working, Beside, Committed
<1>5. Holds(s)'
  BY <1>1, <1>2, <1>3 DEF Holds
<1>6. ASSUME NEW u \in Sessions \ {s}, pc[u] # "idle", op[u][1] = o[1], o[1] \in Once
      PROVE  op[u] = o /\ snap[u] = ride
  <2>1. op[u] \in Requests /\ Working(u) /\ IsRow(snap[u])
    BY <1>6 DEF RInv, TInv, Serving, Typed, Own
  <2>2. op[u] = o
    BY <1>6, <2>1, OneRequest
  <2>3. Admits(o, snap[u]) /\ Sound(snap[u]) /\ (ride = snap[u] \/ ride = Done(o, snap[u]))
    BY <1>6, <2>1, <2>2 DEF Working, Beside
  <2>4. ride # Done(o, snap[u])
    BY <1>3, <1>6, <2>1, <2>3, OnlyOnce
  <2> QED BY <2>2, <2>3, <2>4
<1>7. Paired'
  <2> SUFFICES ASSUME NEW u \in Sessions, NEW v \in Sessions,
                      u # v, pc'[u] # "idle", pc'[v] # "idle"
               PROVE  /\ KeepsBeside(op'[u][1], op'[v][1])
                      /\ op'[u][1] = op'[v][1] /\ op'[u][1] \in Once
                            => op'[u] = op'[v] /\ snap'[u] = snap'[v]
    BY DEF Paired
  <2>1. CASE u = s
    BY <1>2, <1>3, <1>6, <2>1 DEF Apart
  <2>2. CASE v = s
    BY <1>2, <1>3, <1>6, <2>2 DEF Apart
  <2>3. CASE u # s /\ v # s
    <3>1. /\ Paired /\ pc'[u] = pc[u] /\ op'[u] = op[u] /\ snap'[u] = snap[u]
          /\ pc'[v] = pc[v] /\ op'[v] = op[v] /\ snap'[v] = snap[v]
      BY <1>2, <2>3 DEF Apart, RInv
    <3> QED BY <3>1 DEF Paired
  <2> QED BY <2>1, <2>2, <2>3
<1>8. Committed'
  BY <1>1, <1>2 DEF Committed, Accepted
<1>9. \A u \in Sessions \ {s} : (Working(u) /\ Holds(u))'
  BY <1>2, OthersRide
<1> QED BY <1>4, <1>5, <1>7, <1>8, <1>9, RInvFrom

LEMMA SaveRide ==
  ASSUME RInv, TInv', NEW s \in Sessions, Save(s)
  PROVE  RInv'
<1>1. Shape /\ Whole /\ Holds(s) /\ Working(s) /\ Committed /\ Paired
  BY DEF RInv, TInv, IInv, Typed
<1>2. /\ Apart(s) /\ pc'[s] = "update" /\ base'[s] = View(s) /\ pc[s] = "save"
      /\ UNCHANGED <<ride, holder, draft, decided, history, op, snap, choice, notes>>
  BY <1>1, SaveFrame
<1>3. View(s) = ride /\ holder # s
  BY <1>1, <1>2 DEF Holds, View
<1>4. Working(s)'
  BY <1>1, <1>2, <1>3 DEF Working, Committed, Shape
<1>5. Holds(s)'
  BY <1>2, <1>3 DEF Holds
<1>6. Paired'
  BY <1>1, <1>2, PairedStays
<1>7. Committed'
  BY <1>1, <1>2 DEF Committed, Accepted
<1>8. \A u \in Sessions \ {s} : (Working(u) /\ Holds(u))'
  BY <1>2, OthersRide
<1> QED BY <1>4, <1>5, <1>6, <1>7, <1>8, RInvFrom

\* The note of the step, when it is one that is recorded.
LEMMA NoteTraces ==
  ASSUME NEW o, o[1] \in Recorded, NEW from, from # o[2], NEW hist
  PROVE  Traced(o[2], hist \cup Note(o, from))
<1>1. <<from, o[2]>> \in Note(o, from)
  BY DEF Note
<1> QED BY <1>1 DEF Traced

LEMMA UpdateRide ==
  ASSUME RInv, TInv', NEW s \in Sessions, Update(s)
  PROVE  RInv'
<1> DEFINE o == op[s]
           p == snap[s]
           from == IF Twice(s) THEN First(s)["status"] ELSE p["status"]
<1>1. /\ Shape /\ Whole /\ Holds(s) /\ Working(s) /\ Committed /\ Paired /\ Chosen(s) /\ IsRow(p)
      /\ Serving(s)
  BY DEF RInv, TInv, IInv, Typed, Own
<1>2. /\ Apart(s) /\ pc'[s] = "commit" /\ pc[s] = "update" /\ RowFree(s)
      /\ holder' = s /\ draft' = Row(s) /\ notes'[s] = Note(o, from)
      /\ UNCHANGED <<ride, decided, history, op, snap, base, choice>>
  BY <1>1, UpdateFrame
<1>3. o \in Requests /\ o[1] \notin {"propose", "decide"} /\ Admits(o, p) /\ Sound(p)
  BY <1>1, <1>2 DEF Serving, Chosen, Working
<1>4. /\ Sound(Row(s)) /\ Leads(ride["status"], Row(s)["status"])
      /\ Row(s)["total"] = ride["total"] /\ Traced(Row(s)["status"], history \cup Note(o, from))
      /\ IF o[1] \in {"decide"} \cup Touching
         THEN Beside(o, p, Row(s)) ELSE Row(s) = Done(o, p)
  <2>1. CASE o[1] \in Touching
    <3>1. /\ Sound(Row(s)) /\ Leads(ride["status"], Row(s)["status"])
          /\ Row(s)["total"] = ride["total"] /\ Traced(Row(s)["status"], history)
          /\ Beside(o, p, Row(s))
      BY <1>2, <2>1, RowTouched
    <3>2. Traced(Row(s)["status"], history \cup Note(o, from))
      BY <3>1 DEF Traced
    <3> QED BY <2>1, <3>1, <3>2
  <2>2. CASE o[1] \notin Touching
    <3>1. /\ Row(s) = Done(o, p)
          /\ ride = p \/ ride = Done(o, p)
          /\ Twice(s) => First(s)["status"] = "in_progress"
      BY <1>2, <2>2, RowDone
    <3>2. Finishes(o, p)
      BY <1>1, <1>3, <2>2, AloneFinishes
    <3>3. Sound(Row(s)) /\ Leads(ride["status"], Row(s)["status"]) /\ Row(s)["total"] = ride["total"]
      BY <3>1, <3>2 DEF Finishes, Leads
    <3>4. Traced(Row(s)["status"], history \cup Note(o, from))
      <4>1. CASE Row(s)["status"] \in Running \cup Cancelled \cup {"requested"}
        BY <4>1 DEF Traced
      <4>2. CASE Row(s)["status"] = p["status"]
        BY <1>1, <3>1, <4>2 DEF Committed, Traced
      <4>3. CASE Row(s)["status"] # p["status"] /\ o[1] \in Recorded /\ o[2] = Row(s)["status"]
        <5>1. from # o[2]
          BY <3>1, <4>3 DEF Twice
        <5> HIDE DEF from
        <5> QED BY <4>3, <5>1, NoteTraces
      <4> QED BY <3>1, <3>2, <4>1, <4>2, <4>3 DEF Finishes
    <3> QED BY <1>3, <2>2, <3>1, <3>3, <3>4
  <2> QED BY <2>1, <2>2
<1> HIDE DEF from
<1>5. Working(s)'
  BY <1>1, <1>2 DEF Working
<1>6. Holds(s)'
  BY <1>2, <1>3, <1>4 DEF Holds
<1>7. Paired'
  BY <1>1, <1>2, PairedStays
<1>8. Committed'
  BY <1>1, <1>2 DEF Committed, Accepted
<1>9. \A u \in Sessions \ {s} : holder # u
  BY <1>2, RideAssumption DEF RowFree
<1>10. \A u \in Sessions \ {s} : (Working(u) /\ Holds(u))'
  BY <1>2, <1>9, OthersRide
<1> QED BY <1>5, <1>6, <1>7, <1>8, <1>10, RInvFrom

LEMMA DecideRide ==
  ASSUME RInv, TInv', NEW s \in Sessions, Decide(s)
  PROVE  RInv'
<1> DEFINE p == snap[s]
           n == Cardinality(Accepting(s))
<1>1. /\ Shape /\ Whole /\ Holds(s) /\ Working(s) /\ Committed /\ Paired /\ Chosen(s) /\ IsRow(p)
  BY DEF RInv, TInv, IInv, Typed, Own
<1>2. /\ Apart(s) /\ pc'[s] = "commit" /\ pc[s] = "decide" /\ RowFree(s)
      /\ holder' = s /\ draft' = [p EXCEPT !["total"] = n]
      /\ UNCHANGED <<ride, decided, history, op, snap, base, choice, notes>>
  BY <1>1, DecideFrame
<1> HIDE DEF n
<1>3. /\ op[s][1] = "decide" /\ Sound(p) /\ p["status"] \in Running
      /\ \A f \in Fields \ {"total"} : ride[f] = p[f]
  BY <1>1, <1>2 DEF Chosen, Working, Admits, Beside
<1>4. \A f \in Fields \ {"total"} : draft'[f] = p[f]
  BY <1>1, <1>2 DEF IsRow
<1>5. draft'["status"] = p["status"] /\ Sound(draft')
  BY <1>3, <1>4 DEF Sound, Fields, Running
<1>6. ride["status"] = p["status"]
  BY <1>3 DEF Fields
<1>7. Working(s)'
  BY <1>1, <1>2 DEF Working
<1>8. Holds(s)'
  <2>1. Beside(op[s], p, draft')
    BY <1>3, <1>4 DEF Beside, Touching, Once
  <2>2. Traced(draft'["status"], history \cup notes[s]) /\ Leads(ride["status"], draft'["status"])
    BY <1>3, <1>5, <1>6 DEF Traced, Leads
  <2> QED BY <1>2, <1>3, <1>5, <2>1, <2>2 DEF Holds
<1>9. Paired'
  BY <1>1, <1>2, PairedStays
<1>10. Committed'
  BY <1>1, <1>2 DEF Committed, Accepted
<1>11. \A u \in Sessions \ {s} : holder # u
  BY <1>2, RideAssumption DEF RowFree
<1>12. \A u \in Sessions \ {s} : (Working(u) /\ Holds(u))'
  BY <1>2, <1>11, OthersRide
<1> QED BY <1>7, <1>8, <1>9, <1>10, <1>12, RInvFrom

\* The commit of one handler is what the others beside it can go on from.
LEMMA Carried ==
  ASSUME RInv, NEW s \in Sessions, holder = s, NEW u \in Sessions \ {s}, pc[u] # "idle"
  PROVE  /\ Beside(op[u], snap[u], draft)
         /\ pc[u] = "update" /\ op[u][1] \in Once /\ base[u] # snap[u] => draft = base[u]
<1>1. /\ Working(s) /\ Working(u) /\ Holds(s) /\ Paired /\ pc[s] = "commit" /\ op[s][1] # "propose"
  BY DEF RInv, Holds
<1>2. /\ Beside(op[s], snap[s], ride) /\ Beside(op[u], snap[u], ride)
      /\ KeepsBeside(op[s][1], op[u][1])
  BY <1>1 DEF Working, Paired
<1>3. CASE op[u][1] = "propose"
  BY <1>3 DEF Beside, Touching, Once
<1>4. CASE op[s][1] = "decide" /\ op[u][1] = "decide"
  <2>1. Beside(op[s], snap[s], draft)
    BY <1>1, <1>4 DEF Holds
  <2>2. \A f \in Fields \ {"total"} : draft[f] = snap[u][f]
    BY <1>2, <1>4, <2>1 DEF Beside
  <2> QED BY <1>4, <2>2 DEF Beside, Touching, Once
<1>5. CASE op[s][1] \in Touching /\ op[u][1] \in Touching
  <2>1. Beside(op[s], snap[s], draft)
    BY <1>1, <1>5 DEF Holds
  <2>2. \/ draft = snap[u]
        \/ /\ snap[u]["status"] \in Running /\ draft["status"] \in Running
           /\ Stuck(draft) = Stuck(snap[u])
           /\ \A f \in {"driver", "coded", "used", "attempts", "total", "fare"} :
                 draft[f] = snap[u][f]
    BY <1>2, <1>5, <2>1 DEF Beside
  <2> QED BY <1>5, <2>2 DEF Beside, Touching, Once
<1>6. CASE op[s][1] \in Once /\ op[s][1] = op[u][1]
  <2>1. op[s] = op[u] /\ snap[s] = snap[u] /\ draft = Done(op[s], snap[s])
    BY <1>1, <1>6 DEF Paired, Holds, Once, Touching
  <2>2. pc[u] = "update" => Beside(op[u], snap[u], base[u])
    BY <1>1 DEF Working
  <2> QED BY <1>6, <2>1, <2>2 DEF Beside, Touching, Once
<1> QED BY <1>1, <1>2, <1>3, <1>4, <1>5, <1>6, Pairs

LEMMA CommitRide ==
  ASSUME RInv, TInv', NEW s \in Sessions, Commit(s)
  PROVE  RInv'
<1>1. /\ Shape /\ Whole /\ Holds(s) /\ Working(s) /\ Committed /\ Paired /\ Chosen(s) /\ Decides(s)
      /\ IInv
  BY DEF RInv, TInv, IInv, Typed
<1>2. /\ pc[s] = "commit" /\ Reset(s)
      /\ ride' = View(s) /\ holder' = IF holder = s THEN Nobody ELSE holder
      /\ draft' = IF holder = s THEN Opening ELSE draft
      /\ decided' = [x \in Supplements |-> IF x = choice[s][1] THEN choice[s][2] ELSE decided[x]]
      /\ history' = history \cup notes[s]
  BY DEF Commit
<1>3. /\ Apart(s) /\ pc'[s] = "idle" /\ op'[s] = NoRequest /\ snap'[s] = Opening
  BY <1>1, <1>2, ResetFrame
<1>4. (Working(s) /\ Holds(s))'
  BY <1>2, <1>3, RideAssumption DEF Working, Holds
<1>5. Paired'
  BY <1>1, <1>3, PairedStays
<1>6. op[s][1] # "decide" => Accepted' = Accepted
  BY <1>1, <1>2, CommitDecided DEF Accepted
<1>7. CASE holder # s
  <2>1. ride' = ride /\ op[s][1] = "propose" /\ holder' = holder /\ draft' = draft
    BY <1>1, <1>2, <1>7 DEF View, Working
  <2>2. Committed'
    BY <1>1, <1>2, <1>6, <2>1 DEF Committed, Traced
  <2>3. \A u \in Sessions \ {s} : (Working(u) /\ Holds(u))'
    BY <1>2, <1>3, <2>1, OthersRide
  <2> QED BY <1>4, <1>5, <2>2, <2>3, RInvFrom
<1>8. CASE holder = s
  <2>1. ride' = draft /\ holder' = Nobody
    BY <1>2, <1>8 DEF View
  <2>2. draft["total"] = Cardinality(Accepted')
    <3>1. CASE op[s][1] = "decide"
      <4>1. Accepted' = Accepting(s)
        BY <1>1, <1>2, <3>1 DEF Accepted, Accepting, Chosen
      <4> QED BY <1>1, <1>2, <3>1, <4>1 DEF Decides
    <3>2. CASE op[s][1] # "decide"
      BY <1>1, <1>6, <1>8, <3>2 DEF Holds, Committed
    <3> QED BY <3>1, <3>2
  <2>3. Committed'
    BY <1>1, <1>2, <1>8, <2>1, <2>2 DEF Committed, Holds
  <2>4. ASSUME NEW u \in Sessions \ {s}
        PROVE  (Working(u) /\ Holds(u))'
    <3>1. /\ Working(u) /\ pc'[u] = pc[u] /\ op'[u] = op[u] /\ snap'[u] = snap[u]
          /\ base'[u] = base[u]
      BY <1>3 DEF RInv, Apart
    <3>2. pc[u] # "idle" =>
            /\ Beside(op[u], snap[u], draft)
            /\ pc[u] = "update" /\ op[u][1] \in Once /\ base[u] # snap[u] => draft = base[u]
      BY <1>8, Carried
    <3>3. Working(u)'
      BY <1>8, <2>1, <3>1, <3>2 DEF Working
    <3>4. Holds(u)'
      BY <2>1, RideAssumption DEF Holds
    <3> QED BY <3>3, <3>4
  <2> QED BY <1>4, <1>5, <2>3, <2>4, RInvFrom
<1> QED BY <1>7, <1>8

LEMMA AbortRide ==
  ASSUME RInv, TInv', NEW s \in Sessions, Abort(s)
  PROVE  RInv'
<1>1. Shape /\ Whole /\ Committed /\ Paired
  BY DEF RInv, TInv, IInv, Typed
<1>2. /\ Reset(s) /\ holder' = IF holder = s THEN Nobody ELSE holder
      /\ draft' = IF holder = s THEN Opening ELSE draft
      /\ UNCHANGED <<ride, decided, history>>
  BY DEF Abort
<1>3. Apart(s) /\ pc'[s] = "idle"
  BY <1>1, <1>2, ResetFrame
<1>4. (Working(s) /\ Holds(s))'
  BY <1>2, <1>3, RideAssumption DEF Working, Holds
<1>5. Committed'
  BY <1>1, <1>2 DEF Committed, Accepted
<1>6. \A u \in Sessions \ {s} : holder' = u => holder = u
  BY <1>2, RideAssumption
<1>7. \A u \in Sessions \ {s} : (Working(u) /\ Holds(u))'
  BY <1>2, <1>3, <1>6, OthersRide
<1> QED BY <1>1, <1>3, <1>4, <1>5, <1>7, PairedStays, RInvFrom

LEMMA RideStutter ==
  ASSUME RInv, TInv', UNCHANGED vars
  PROVE  RInv'
<1>1. UNCHANGED <<ride, holder, draft, decided, history, pc, op, snap, base, notes>>
  BY DEF vars
<1>2. Committed'
  BY <1>1 DEF RInv, Committed, Accepted
<1>3. Paired'
  BY <1>1 DEF RInv, Paired
<1>4. \A s \in Sessions : (Working(s) /\ Holds(s))'
  BY <1>1 DEF RInv, Working, Holds
<1> QED BY <1>2, <1>3, <1>4 DEF RInv

LEMMA RideStep ==
  ASSUME RInv, [Next]_vars, overlaps = 0, overlaps' = 0
  PROVE  RInv'
<1>1. TInv'
  BY TypedStep DEF RInv
<1>2. ASSUME NEW s \in Sessions, NEW o \in Requests, Load(s, o)
      PROVE  RInv'
  BY <1>1, <1>2, LoadRide
<1>3. ASSUME NEW s \in Sessions, Save(s) \/ Update(s) \/ Decide(s) \/ Commit(s) \/ Abort(s)
      PROVE  RInv'
  BY <1>1, <1>3, SaveRide, UpdateRide, DecideRide, CommitRide, AbortRide
<1> QED BY <1>1, <1>2, <1>3, RideStutter DEF Next

LEMMA RideInit == Init => RInv
<1> SUFFICES ASSUME Init PROVE RInv
  OBVIOUS
<1>1. TInv
  BY InitInv, InitTyped DEF TInv, Init, Serving
<1>2. Accepted = {}
  BY DEF Init, Accepted
<1>3. /\ Opening["status"] = "requested" /\ Opening["timed"] = FALSE /\ Opening["fare"] = NoFare
      /\ Opening["total"] = 0
  BY DEF Opening, Fields
<1>4. Committed
  BY <1>2, <1>3, FS_EmptySet DEF Init, Committed, Sound, Traced, Running
<1>5. Paired /\ \A s \in Sessions : Working(s) /\ Holds(s)
  BY RideAssumption DEF Init, Paired, Working, Holds
<1> QED BY <1>1, <1>4, <1>5 DEF RInv

LEMMA RideInductive == Spec => [](overlaps = 0 => RInv)
<1> DEFINE Until == overlaps \in Nat /\ (overlaps = 0 => RInv)
<1>1. Init => Until
  BY RideInit DEF Init
<1>2. Until /\ [Next]_vars => Until'
  BY RideStep, OverlapsGrow
<1>3. Until => (overlaps = 0 => RInv)
  OBVIOUS
<1> QED BY <1>1, <1>2, <1>3, PTL DEF Spec

----------------------------------------------------------------------------
(* A completed ride is billed its waits and every accepted supplement, once: *)
(* whatever runs beside the completion, the fare it writes is of the waits   *)
(* and the total that are committed with it, and nothing is saved over it.   *)
THEOREM ExtrasAreBilled == Spec => []FareCoversExtras
<1>1. (overlaps = 0 => RInv) => FareCoversExtras
  BY DEF RInv, Committed, Sound, FareCoversExtras
<1> QED BY <1>1, RideInductive, PTL

(* A ride that runs, waits or is completed was started with the code of its  *)
(* passenger, within the attempts allowed: PATCH /status, which admits every *)
(* other step of the graph, opens no way around, and no save of an older row *)
(* takes the start back.                                                     *)
THEOREM RidesAreStarted == Spec => []StartedWithCode
<1>1. (overlaps = 0 => RInv) => StartedWithCode
  BY DEF RInv, Committed, Sound, StartedWithCode
<1> QED BY <1>1, RideInductive, PTL

(* ride_status_history has the step into every status whose handlers record  *)
(* it, a completion that stops a wait first included.                        *)
THEOREM AuditIsWhole == Spec => []StepIsRecorded
<1>1. (overlaps = 0 => RInv) => StepIsRecorded
  BY DEF RInv, Committed, Traced, StepIsRecorded
<1> QED BY <1>1, RideInductive, PTL

(* The committed status follows the graph of RideStates, although every      *)
(* handler checks the graph on a ride it has read before the lock: a commit  *)
(* maps to a step of the graph or leaves the status, and so does the rest.   *)
THEOREM StatusFollowsGraph == Spec => StateMachine
<1>1. Init => States!Init
  BY DEF Init, Opening, Fields, States!Init
<1>2. ASSUME overlaps = 0 => RInv, [Next]_vars, overlaps' = 0, overlaps = 0
      PROVE  [States!Next]_(ride["status"])
  <2>1. CASE ride' = ride
    BY <2>1
  <2>2. ASSUME NEW s \in Sessions, Commit(s), holder = s
        PROVE  [States!Next]_(ride["status"])
    <3>1. ride' = draft /\ Leads(ride["status"], draft["status"])
      BY <1>2, <2>2 DEF Commit, View, RInv, Holds
    <3> QED BY <3>1 DEF Leads, Allowed, States!Next
  <2>3. ASSUME NEW s \in Sessions, Commit(s), holder # s
        PROVE  ride' = ride
    BY <2>3 DEF Commit, View
  <2>4. ASSUME NEW s \in Sessions, NEW o \in Requests, Load(s, o)
        PROVE  ride' = ride
    BY <2>4 DEF Load
  <2>5. ASSUME NEW s \in Sessions, Save(s) \/ Update(s) \/ Decide(s) \/ Abort(s)
        PROVE  ride' = ride
    BY <2>5 DEF Save, Update, Decide, Abort
  <2>6. CASE UNCHANGED vars
    BY <2>6 DEF vars
  <2> QED BY <1>2, <2>1, <2>2, <2>3, <2>4, <2>5, <2>6 DEF Next
<1>3. ASSUME overlaps = 0 => RInv, overlaps \in Nat, [Next]_vars
      PROVE  [overlaps' = 0 => States!Next]_(ride["status"])
  BY <1>2, <1>3, OverlapsGrow
<1> QED BY <1>1, <1>3, RideInductive, Counted, PTL DEF Spec, StateMachine

----------------------------------------------------------------------------
(***************************************************************************)
(* The money of the rides: RideFigures, for any rides, tariffs and days.    *)
(* What a ride costs, how its fare is shared, and the figures made of it.   *)
(***************************************************************************)

LEMMA Scaled ==
  ASSUME NEW a \in Int, NEW b \in Int, a <= b, NEW c \in Nat
  PROVE  a * c <= b * c
OBVIOUS

LEMMA Unscaled ==
  ASSUME NEW a \in Int, NEW b \in Int, NEW c \in Nat \ {0}, c * a <= c * b
  PROVE  a <= b
OBVIOUS

\* m is n / d, rounded to a nearest number.
Nearly(m, n, d) == m \in Nat /\ 2 * (d * m) <= 2 * n + d /\ 2 * n <= 2 * (d * m) + d

LEMMA Rounded ==
  ASSUME NEW n \in Nat, NEW d \in Nat \ {0}
  PROVE  Nearly(NearestEven(n, d), n, d)
<1> DEFINE q == n \div d
           r == n % d
<1>1. q \in Nat /\ r \in Nat /\ n = d * q + r /\ r < d
  OBVIOUS
<1>2. NearestEven(n, d) = IF 2 * r < d \/ (2 * r = d /\ q % 2 = 0) THEN q ELSE q + 1
  BY DEF NearestEven
<1> HIDE DEF q, r
<1>3. d * (q + 1) = d * q + d /\ d * q \in Nat
  BY <1>1
<1>4. CASE 2 * r < d \/ (2 * r = d /\ q % 2 = 0)
  BY <1>1, <1>2, <1>4 DEF Nearly
<1>5. CASE ~(2 * r < d \/ (2 * r = d /\ q % 2 = 0))
  BY <1>1, <1>2, <1>3, <1>5 DEF Nearly
<1> QED BY <1>4, <1>5

\* A total, between whole numbers.
LEMMA TotalOf ==
  ASSUME NEW b \in Nat, NEW n1 \in Nat, NEW d1 \in Nat \ {0}, NEW n2 \in Nat, NEW d2 \in Nat \ {0},
         NEW c \in Nat, NEW s \in Nat, NEW km \in Nat, NEW time \in Nat
  PROVE  Nearly(TotalFare(b, <<n1, d1>>, <<n2, d2>>, c, s, km, time),
                (b * d1 * d2 + n1 * km * d2 + n2 * time * d1) * c * s, d1 * d2 * 100)
<1> DEFINE n == (b * d1 * d2 + n1 * km * d2 + n2 * time * d1) * c * s
           d == d1 * d2 * 100
<1>1. n \in Nat /\ d \in Nat \ {0}
  <2>1. d1 * d2 \in Nat \ {0} /\ b * d1 * d2 \in Nat /\ n1 * km * d2 \in Nat /\ n2 * time * d1 \in Nat
    OBVIOUS
  <2> DEFINE x == b * d1 * d2 + n1 * km * d2 + n2 * time * d1
  <2>2. x \in Nat
    BY <2>1
  <2> HIDE DEF x
  <2>3. x * c * s \in Nat
    BY <2>2
  <2> QED BY <2>1, <2>3 DEF x
<1>2. TotalFare(b, <<n1, d1>>, <<n2, d2>>, c, s, km, time) = NearestEven(n, d)
  BY DEF TotalFare
<1> HIDE DEF n, d
<1>3. Nearly(NearestEven(n, d), n, d)
  BY <1>1, Rounded
<1> QED BY <1>2, <1>3 DEF n, d

\* A quote, in whole numbers.  pk and pt are the exact amounts of its distance,
\* in tenths of a XOF, and of its time, in sixths.
Exact(q, comfort, km, time, pk, pt, least) ==
    /\ q.comfort = comfort /\ q.km = km /\ q.time = time
    /\ q.base \in Nat /\ q.fare \in Nat /\ q.distance \in Nat /\ q.duration \in Nat
    /\ q.surge \in 0 .. 8 /\ comfort * q.surge \in 0 .. 208
    /\ (least >= 5 => comfort * q.surge >= 100)
    /\ pk \in Nat /\ pt \in Nat
    /\ 10 * q.distance <= pk + 5 /\ 6 * q.duration <= pt + 3
    /\ (60 * q.base + 6 * pk + 10 * pt) * (comfort * q.surge) <= 6000 * q.fare + 3000
    /\ (time = 0 => q.duration = 0)

LEMMA QuoteIs ==
  ASSUME NEW rule \in Rules, NEW comfort \in {20, 23, 26}, NEW km \in Nat \ {0}, NEW time \in Nat
  PROVE  Exact(Quoted(rule, comfort, km, time), comfort, km, time,
               rule.perKm * km, rule.perMin * time, rule.surge)
<1> DEFINE b == rule.base
           k == rule.perKm
           u == rule.perMin
           s == AtMost(rule.surge, 8)
           pk == k * km
           pt == u * time
           f == TotalFare(b, <<k, 10>>, <<u, 6>>, comfort, s, km, time)
           q == Quoted(rule, comfort, km, time)
<1>1. b \in Nat /\ k \in Nat /\ u \in Nat /\ rule.surge \in Nat
  BY DEF Rules
<1>2. s \in 0 .. 8 /\ (rule.surge >= 5 => s >= 5)
  BY <1>1 DEF AtMost
<1>3. /\ q.base = b /\ q.comfort = comfort /\ q.surge = s /\ q.km = km /\ q.time = time
      /\ q.distance = NearestEven(pk, 10) /\ q.duration = NearestEven(pt, 6)
      /\ q.fare = f
  BY DEF Quoted, SurgeCap
<1> HIDE DEF q, b, k, u, s
<1>4. pk \in Nat /\ pt \in Nat
  BY <1>1
<1>5. Nearly(f, (b * 10 * 6 + k * km * 6 + u * time * 10) * comfort * s, 10 * 6 * 100)
  <2>1. comfort \in Nat /\ s \in Nat /\ 10 \in Nat \ {0} /\ 6 \in Nat \ {0}
    BY <1>2
  <2> HIDE DEF f
  <2> QED BY <1>1, <2>1, TotalOf DEF f
<1> HIDE DEF f
<1>6. (b * 10 * 6 + k * km * 6 + u * time * 10) * comfort * s
        = (60 * b + 6 * pk + 10 * pt) * (comfort * s)
  <2>1. b * 10 * 6 + k * km * 6 + u * time * 10 = 60 * b + 6 * pk + 10 * pt
    BY <1>1
  <2> DEFINE x == 60 * b + 6 * pk + 10 * pt
  <2>2. x \in Nat
    BY <1>1, <1>4
  <2> HIDE DEF x
  <2>3. x * comfort * s = x * (comfort * s)
    BY <1>2, <2>2
  <2> QED BY <2>1, <2>3 DEF x
<1>7. comfort * s \in 0 .. 208 /\ (rule.surge >= 5 => comfort * s >= 100)
  BY <1>2
<1> HIDE DEF pk, pt
<1>8. /\ q.distance \in Nat /\ 2 * (10 * q.distance) <= 2 * pk + 10
      /\ q.duration \in Nat /\ 2 * (6 * q.duration) <= 2 * pt + 6
  <2>1. Nearly(q.distance, pk, 10) /\ Nearly(q.duration, pt, 6)
    BY <1>3, <1>4, Rounded
  <2> QED BY <2>1 DEF Nearly
<1>9. time = 0 => q.duration = 0
  <2> SUFFICES ASSUME time = 0 PROVE q.duration = 0
    OBVIOUS
  <2>1. pt = 0
    BY <1>1 DEF pt
  <2> QED BY <1>8, <2>1
<1>10. (60 * b + 6 * pk + 10 * pt) * (comfort * s) <= 6000 * f + 3000
  <2> DEFINE n == (60 * b + 6 * pk + 10 * pt) * (comfort * s)
  <2>1. n \in Int /\ 2 * n <= 2 * (6000 * f) + 6000 /\ f \in Nat
    BY <1>1, <1>2, <1>4, <1>5, <1>6 DEF Nearly
  <2> HIDE DEF n
  <2>2. n <= 6000 * f + 3000
    BY <2>1
  <2> QED BY <2>2 DEF n
<1>11. Exact(q, comfort, km, time, pk, pt, rule.surge)
  BY <1>1, <1>2, <1>3, <1>4, <1>5, <1>7, <1>8, <1>9, <1>10 DEF Exact, Nearly
<1> QED BY <1>11 DEF q, k, u, pk, pt

\* Every offer is a quote of a rule.
LEMMA OfferIs ==
  ASSUME NEW q \in Offers
  PROVE  \E rule \in Rules, comfort \in {20, 23, 26}, km \in Nat \ {0}, time \in Nat :
            q = Quoted(rule, comfort, km, time)
<1>1. PICK e \in Estimates : q = Quoted(e[1], e[2], e[3], e[4])
  BY DEF Offers
<1>2. e \in Rules \X {20, 23, 26} \X (Nat \ {0}) \X Nat
  BY FiguresAssumption DEF ComfortLevels
<1>3. e[1] \in Rules /\ e[2] \in {20, 23, 26} /\ e[3] \in Nat \ {0} /\ e[4] \in Nat
  BY <1>2
<1> QED BY <1>1, <1>3

\* What the inferred prices make of a part of the way: at most the rounded
\* amounts of the quote, whole.
LEMMA PartOfTotal ==
  ASSUME NEW b \in Nat, NEW D \in Nat, NEW K \in Nat \ {0}, NEW T \in Nat, NEW L \in Nat \ {0},
         NEW x \in Nat, NEW km \in Nat, NEW time \in Nat, km <= K, T * time <= T * L
  PROVE  (b * K * L + D * km * L + T * time * K) * x <= K * L * ((b + D + T) * x)
<1>1. D * km * L <= D * K * L
  <2>1. km * (D * L) <= K * (D * L)
    <3>1. D * L \in Nat
      OBVIOUS
    <3> QED BY <3>1, Scaled
  <2> QED BY <2>1
<1>2. T * time * K <= T * L * K
  <2>1. T * time \in Int /\ T * L \in Int
    OBVIOUS
  <2> QED BY <2>1, Scaled
<1> DEFINE y == b * K * L + D * km * L + T * time * K
           z == K * L * (b + D + T)
<1>3. y <= z /\ y \in Int /\ z \in Int
  <2>1. z = b * K * L + D * K * L + T * L * K
    OBVIOUS
  <2> QED BY <1>1, <1>2, <2>1
<1>4. z * x = K * L * ((b + D + T) * x)
  OBVIOUS
<1> HIDE DEF y, z
<1>5. y * x <= z * x
  BY <1>3, Scaled
<1> QED BY <1>4, <1>5 DEF y

\* An early stop within the distance and the time of the quote: the base fare,
\* or the price of the quote but for the roundings and the default base fare.
LEMMA EarlyStopBound ==
  ASSUME NEW q \in Offers, NEW km \in Nat, NEW time \in Nat, km <= q.km, time <= q.time
  PROVE  \/ EarlyStopFare(q, km, time) = BaseOr(q)
         \/ 100 * (EarlyStopFare(q, km, time) - q.fare) <=
               100 + (1 + BaseOr(q) - q.base) * q.comfort * q.surge
<1>1. PICK rule \in Rules, comfort \in {20, 23, 26}, K \in Nat \ {0}, t \in Nat :
         q = Quoted(rule, comfort, K, t)
  BY OfferIs
<1> DEFINE b == q.base
           B == BaseOr(q)
           a == 1 + B - b
           D == q.distance
           T == q.duration
           F == q.fare
           s == q.surge
           x == comfort * s
           pk == rule.perKm * K
           pt == rule.perMin * t
           L == IF t > 0 THEN t ELSE 1
           m == ActualFare(q, km, time)
<1>2. /\ q.comfort = comfort /\ q.km = K /\ q.time = t
      /\ b \in Nat /\ F \in Nat /\ D \in Nat /\ T \in Nat /\ s \in 0 .. 8 /\ x \in 0 .. 208
      /\ pk \in Nat /\ pt \in Nat
      /\ 10 * D <= pk + 5 /\ 6 * T <= pt + 3
      /\ (60 * b + 6 * pk + 10 * pt) * x <= 6000 * F + 3000
      /\ (t = 0 => T = 0)
  <2>1. Exact(q, comfort, K, t, pk, pt, rule.surge)
    BY <1>1, QuoteIs
  <2> HIDE DEF pk, pt
  <2> QED BY <1>1, <2>1 DEF Exact
<1>3. L \in Nat \ {0} /\ B \in Nat /\ InferredPerKm(q) = <<D, K>>
      /\ InferredPerMin(q) = <<T, L>>
  BY <1>2 DEF BaseOr, DefaultBase, InferredPerKm, InferredPerMin
<1>4. m = TotalFare(B, <<D, K>>, <<T, L>>, comfort, s, km, time)
  BY <1>2, <1>3 DEF ActualFare
<1>5. EarlyStopFare(q, km, time) = IF B >= m THEN B ELSE m
  BY <1>3 DEF EarlyStopFare, AtLeast
<1>6. T * time <= T * L
  <2>1. CASE t = 0
    BY <1>2, <1>3, <2>1
  <2>2. CASE t > 0
    <3>1. time * T <= t * T
      BY <1>2, Scaled
    <3> QED BY <1>2, <2>2, <3>1
  <2> QED BY <1>2, <2>1, <2>2
<1>a. km <= K /\ a \in Int
  BY <1>2, <1>3
<1> HIDE DEF b, B, D, T, F, s, pk, pt, L, m
<1> DEFINE n == (B * K * L + D * km * L + T * time * K) * comfort * s
           w == (B + D + T) * x
<1>7. m \in Nat /\ 2 * ((K * L * 100) * m) <= 2 * n + K * L * 100
  <2>1. /\ comfort \in Nat /\ s \in Nat /\ B \in Nat /\ D \in Nat /\ T \in Nat
        /\ L \in Nat \ {0}
    BY <1>2, <1>3
  <2>2. Nearly(m, n, K * L * 100)
    BY <1>4, <2>1, TotalOf
  <2> HIDE DEF n
  <2> QED BY <2>2 DEF Nearly
<1>8. n <= K * L * w
  <2> DEFINE y == B * K * L + D * km * L + T * time * K
  <2>1. y \in Int
    BY <1>2, <1>3
  <2>2. y * x <= K * L * w
    BY <1>2, <1>3, <1>6, <1>a, PartOfTotal
  <2> HIDE DEF y
  <2>3. y * comfort * s = y * x
    BY <1>2, <2>1
  <2> QED BY <2>2, <2>3 DEF y
<1>9. 200 * m <= 2 * w + 100
  <2> DEFINE N == K * L
  <2>1. N \in Nat \ {0} /\ w \in Int /\ n \in Int
    BY <1>2, <1>3
  <2>2. 2 * ((N * 100) * m) <= 2 * n + N * 100 /\ n <= N * w
    BY <1>7, <1>8
  <2> HIDE DEF N, n, w
  <2>3. N * (200 * m) = 2 * ((N * 100) * m) /\ N * (2 * w + 100) = 2 * (N * w) + N * 100 /\ N * w \in Int
    BY <1>7, <2>1
  <2>4. N * (200 * m) <= N * (2 * w + 100)
    <3> DEFINE g == (N * 100) * m
    <3>1. g \in Int
      BY <1>7, <2>1
    <3> HIDE DEF g
    <3> QED BY <2>1, <2>2, <2>3, <3>1 DEF g
  <2> QED BY <1>7, <2>1, <2>4, Unscaled
<1>10. 60 * w <= 6000 * F + 3000 + 60 * (a * x)
  <2> DEFINE e == 60 * b + 6 * pk + 10 * pt
  <2>1. 60 * (B + D + T) <= e + 60 * a /\ e \in Int
    BY <1>2, <1>3
  <2>2. (60 * (B + D + T)) * x <= (e + 60 * a) * x
    BY <1>2, <1>3, <1>a, <2>1, Scaled
  <2>3. (60 * (B + D + T)) * x = 60 * w /\ e * x <= 6000 * F + 3000
    BY <1>2, <1>3
  <2> HIDE DEF e, w, a
  <2>4. (e + 60 * a) * x = e * x + 60 * (a * x) /\ e * x \in Int /\ a * x \in Int /\ w \in Int
    BY <1>2, <1>3, <1>a, <2>1 DEF w
  <2> DEFINE g == a * x
             h == e * x
             l == (e + 60 * a) * x
  <2>5. 60 * w <= l /\ l = h + 60 * g /\ h <= 6000 * F + 3000 /\ g \in Int /\ h \in Int
    BY <2>2, <2>3, <2>4
  <2> HIDE DEF g, h, l
  <2>6. 60 * w <= 6000 * F + 3000 + 60 * g
    BY <1>2, <2>4, <2>5
  <2> QED BY <2>6 DEF g
<1>11. 100 * (m - F) <= 100 + a * x
  <2>1. w \in Int /\ a * x \in Int
    BY <1>2, <1>3, <1>a
  <2> DEFINE z == a * x
  <2>2. 60 * w <= 6000 * F + 3000 + 60 * z /\ z \in Int
    BY <1>10, <2>1
  <2> HIDE DEF w, z
  <2>3. 100 * (m - F) <= 100 + z
    BY <1>2, <1>7, <1>9, <2>1, <2>2
  <2> QED BY <2>3 DEF z
<1>12. a * x = a * comfort * s
  <2> HIDE DEF a
  <2> QED BY <1>2, <1>a
<1>13. a * comfort * s = (1 + BaseOr(q) - q.base) * q.comfort * q.surge
  BY <1>2 DEF B, b, s
<1> HIDE DEF a, x
<1> QED BY <1>3, <1>5, <1>7, <1>11, <1>12, <1>13 DEF F, B

\* What an early stop is billed, rounded from a whole number that grows with the
\* way.
Bills(q, B, D, T, K, L, x) ==
    \A km, time \in Nat :
       EarlyStopFare(q, km, time)
         = AtLeast(B, NearestEven((B * K * L + D * km * L + T * time * K) * x, K * L * 100))

LEMMA FareOfWay ==
  ASSUME NEW q \in Offers
  PROVE  \E B \in Nat, D \in Nat, T \in Nat, K \in Nat \ {0}, L \in Nat \ {0}, x \in Nat :
            Bills(q, B, D, T, K, L, x)
<1>1. PICK rule \in Rules, comfort \in {20, 23, 26}, K \in Nat \ {0}, t \in Nat :
         q = Quoted(rule, comfort, K, t)
  BY OfferIs
<1> DEFINE B == BaseOr(q)
           D == q.distance
           T == q.duration
           s == q.surge
           x == comfort * s
           L == IF t > 0 THEN t ELSE 1
           pk == rule.perKm * K
           pt == rule.perMin * t
<1>2. /\ q.comfort = comfort /\ q.km = K /\ q.time = t /\ q.base \in Nat
      /\ D \in Nat /\ T \in Nat /\ s \in Nat /\ x \in Nat /\ (t = 0 => T = 0)
  <2>1. Exact(q, comfort, K, t, pk, pt, rule.surge)
    BY <1>1, QuoteIs
  <2> HIDE DEF pk, pt
  <2> QED BY <2>1 DEF Exact
<1>3. L \in Nat \ {0} /\ B \in Nat /\ InferredPerKm(q) = <<D, K>> /\ InferredPerMin(q) = <<T, L>>
  BY <1>2 DEF BaseOr, DefaultBase, InferredPerKm, InferredPerMin
<1>4. ASSUME NEW km \in Nat, NEW time \in Nat
      PROVE  EarlyStopFare(q, km, time)
               = AtLeast(B, NearestEven((B * K * L + D * km * L + T * time * K) * x, K * L * 100))
  <2> DEFINE y == B * K * L + D * km * L + T * time * K
  <2>1. ActualFare(q, km, time) = TotalFare(B, <<D, K>>, <<T, L>>, comfort, s, km, time)
    BY <1>2, <1>3 DEF ActualFare
  <2>2. TotalFare(B, <<D, K>>, <<T, L>>, comfort, s, km, time) = NearestEven(y * comfort * s, K * L * 100)
    BY DEF TotalFare
  <2>3. y \in Int
    BY <1>2, <1>3
  <2> HIDE DEF y
  <2>4. y * comfort * s = y * x
    BY <1>2, <2>3
  <2> HIDE DEF x, s, B, D, T, L
  <2> QED BY <2>1, <2>2, <2>4 DEF EarlyStopFare, B, y
<1>5. Bills(q, B, D, T, K, L, x)
  BY <1>4 DEF Bills
<1>6. B \in Nat /\ D \in Nat /\ T \in Nat /\ L \in Nat \ {0} /\ x \in Nat
  BY <1>2, <1>3
<1> HIDE DEF B, D, T, x, L
<1> QED BY <1>5, <1>6

\* Rounding keeps the order.
LEMMA RoundedGrows ==
  ASSUME NEW n \in Nat, NEW m \in Nat, NEW d \in Nat \ {0}, n <= m
  PROVE  NearestEven(n, d) <= NearestEven(m, d)
<1> DEFINE u == NearestEven(n, d)
           v == NearestEven(m, d)
<1>1. Nearly(u, n, d) /\ Nearly(v, m, d)
  BY Rounded
<1>2. CASE n = m
  <2>1. u \in Int
    BY <1>1 DEF Nearly
  <2> HIDE DEF u, v
  <2>2. u = v
    BY <1>2 DEF u, v
  <2> QED BY <2>1, <2>2 DEF u, v
<1>3. CASE n < m
  <2> HIDE DEF u, v
  <2>1. /\ u \in Nat /\ v \in Nat /\ d * u \in Nat /\ d * v \in Nat
        /\ 2 * (d * u) <= 2 * n + d /\ 2 * m <= 2 * (d * v) + d
    BY <1>1 DEF Nearly
  <2>2. ASSUME v + 1 <= u PROVE FALSE
    <3>1. d * (v + 1) <= d * u
      BY <2>1, <2>2, Scaled
    <3>2. d * (v + 1) = d * v + d
      BY <2>1
    <3> DEFINE g == d * u
               h == d * v
    <3>3. g \in Nat /\ h \in Nat /\ h + d <= g /\ 2 * g <= 2 * n + d /\ 2 * m <= 2 * h + d
      BY <2>1, <3>1, <3>2
    <3> HIDE DEF g, h
    <3> QED BY <1>3, <3>3
  <2> QED BY <2>1, <2>2 DEF u, v
<1> QED BY <1>2, <1>3

\* A shorter way costs no more.
LEMMA ShorterCostsNoMore ==
  ASSUME NEW q \in Offers, NEW km \in Nat, NEW time \in Nat, NEW km2 \in Nat, NEW time2 \in Nat,
         km <= km2, time <= time2
  PROVE  EarlyStopFare(q, km, time) <= EarlyStopFare(q, km2, time2)
<1>1. PICK B \in Nat, D \in Nat, T \in Nat, K \in Nat \ {0}, L \in Nat \ {0}, x \in Nat :
            Bills(q, B, D, T, K, L, x)
  BY FareOfWay
<1> DEFINE y == B * K * L + D * km * L + T * time * K
           z == B * K * L + D * km2 * L + T * time2 * K
           d == K * L * 100
<1>2. y <= z /\ y \in Nat /\ z \in Nat /\ d \in Nat \ {0}
  <2>1. D * L \in Nat /\ T * K \in Nat /\ B * K * L \in Nat
    OBVIOUS
  <2>2. km * (D * L) <= km2 * (D * L) /\ time * (T * K) <= time2 * (T * K)
    BY <2>1, Scaled
  <2>3. /\ D * km * L = km * (D * L) /\ D * km2 * L = km2 * (D * L)
        /\ T * time * K = time * (T * K) /\ T * time2 * K = time2 * (T * K)
        /\ km * (D * L) \in Nat /\ km2 * (D * L) \in Nat
        /\ time * (T * K) \in Nat /\ time2 * (T * K) \in Nat
    BY <2>1
  <2>4. K * L * 100 \in Nat \ {0}
    OBVIOUS
  <2> DEFINE f1 == km * (D * L)
             f2 == km2 * (D * L)
             g1 == time * (T * K)
             g2 == time2 * (T * K)
             h == B * K * L
  <2>5. y = h + f1 + g1 /\ z = h + f2 + g2
    BY <2>3
  <2>6. f1 <= f2 /\ g1 <= g2 /\ h \in Nat /\ f1 \in Nat /\ f2 \in Nat /\ g1 \in Nat /\ g2 \in Nat
    BY <2>1, <2>2, <2>3
  <2> HIDE DEF y, z, f1, f2, g1, g2, h
  <2> QED BY <2>4, <2>5, <2>6 DEF d
<1>3. /\ EarlyStopFare(q, km, time) = AtLeast(B, NearestEven(y * x, d))
      /\ EarlyStopFare(q, km2, time2) = AtLeast(B, NearestEven(z * x, d))
  BY <1>1 DEF Bills
<1> HIDE DEF y, z, d
<1>4. y * x <= z * x /\ y * x \in Nat /\ z * x \in Nat
  BY <1>2, Scaled
<1>5. NearestEven(y * x, d) <= NearestEven(z * x, d)
  BY <1>2, <1>4, RoundedGrows
<1>6. NearestEven(y * x, d) \in Nat /\ NearestEven(z * x, d) \in Nat
  BY <1>2, <1>4, Rounded DEF Nearly
<1> HIDE DEF NearestEven
<1> QED BY <1>3, <1>5, <1>6 DEF AtLeast

LEMMA CommissionIs ==
  ASSUME NEW f \in Nat
  PROVE  Commission(f) \in Nat
<1>1. f * CommissionPercent \in Nat
  BY TariffAssumption
<1> QED BY <1>1, Rounded DEF Commission, Nearly

LEMMA PreRideFeeIs ==
  ASSUME NEW seconds \in Nat
  PROVE  PreRideFee(seconds) \in Nat
<1>1. AtLeast(0, seconds - FreeSeconds) \in Nat /\ MinutePrice \in Nat
  BY TariffAssumption DEF AtLeast
<1>2. MinutePrice * AtLeast(0, seconds - FreeSeconds) \in Nat
  BY <1>1
<1> QED BY <1>2, Rounded DEF PreRideFee, Nearly

LEMMA OfferTypes ==
  ASSUME NEW q \in Offers
  PROVE  /\ q.fare \in Nat /\ q.commission \in Int /\ q.payout \in Int
         /\ \A km \in Nat, time \in Nat : EarlyStopFare(q, km, time) \in Nat
<1>1. PICK rule \in Rules, comfort \in {20, 23, 26}, K \in Nat \ {0}, t \in Nat :
         q = Quoted(rule, comfort, K, t)
  BY OfferIs
<1> DEFINE pk == rule.perKm * K
           pt == rule.perMin * t
           L == IF t > 0 THEN t ELSE 1
<1>2. Exact(q, comfort, K, t, pk, pt, rule.surge)
  BY <1>1, QuoteIs
<1> HIDE DEF pk, pt
<1>3. /\ q.comfort = comfort /\ q.km = K /\ q.time = t
      /\ q.base \in Nat /\ q.fare \in Nat /\ q.distance \in Nat /\ q.duration \in Nat
      /\ q.surge \in Nat /\ (t = 0 => q.duration = 0)
  BY <1>2 DEF Exact
<1>4. q.commission = Commission(q.fare) /\ q.payout = q.fare - Commission(q.fare)
  BY <1>1 DEF Quoted
<1>5. q.commission \in Int /\ q.payout \in Int
  BY <1>3, <1>4, CommissionIs
<1>6. ASSUME NEW km \in Nat, NEW time \in Nat
      PROVE  EarlyStopFare(q, km, time) \in Nat
  <2> DEFINE b == BaseOr(q)
             m == ActualFare(q, km, time)
  <2>1. L \in Nat \ {0} /\ b \in Nat /\ InferredPerKm(q) = <<q.distance, K>>
        /\ InferredPerMin(q) = <<q.duration, L>>
    BY <1>3 DEF BaseOr, DefaultBase, InferredPerKm, InferredPerMin
  <2>2. m = TotalFare(b, <<q.distance, K>>, <<q.duration, L>>, comfort, q.surge, km, time)
    BY <1>3, <2>1 DEF ActualFare
  <2>3. EarlyStopFare(q, km, time) = IF b >= m THEN b ELSE m
    BY DEF EarlyStopFare, AtLeast
  <2> HIDE DEF b, m, L
  <2>4. m \in Nat
    <3> DEFINE D == q.distance
               T == q.duration
               s == q.surge
               n == (b * K * L + D * km * L + T * time * K) * comfort * s
    <3>1. /\ comfort \in Nat /\ s \in Nat /\ b \in Nat /\ D \in Nat /\ T \in Nat
          /\ L \in Nat \ {0}
          /\ m = TotalFare(b, <<D, K>>, <<T, L>>, comfort, s, km, time)
      BY <1>3, <2>1, <2>2
    <3> HIDE DEF D, T, s
    <3>2. Nearly(m, n, K * L * 100)
      BY <3>1, TotalOf
    <3> HIDE DEF n
    <3> QED BY <3>2 DEF Nearly
  <2> QED BY <2>1, <2>3, <2>4
<1> QED BY <1>3, <1>5, <1>6

----------------------------------------------------------------------------
(* The rides, their fares and the events of their drivers. *)

\* The events of the ledger a ride calls for.
Outcome(trip) ==
    IF trip = Nothing THEN <<>>
    ELSE IF trip.status = "completed" THEN <<"ride_completed">>
    ELSE IF trip.status = "cancelled_by_driver" /\ trip.driver # NoDriver /\ ~trip.noShow
    THEN <<"ride_cancelled_by_driver">> ELSE <<>>

\* The amounts of a ride: a completed one is shared whole, and what was told of
\* an early stop is the price of the way it was told for.
Settled(trip) ==
    /\ quotes[trip.quote] # Nothing
    /\ trip.noShow => trip.status = "cancelled_by_driver"
    /\ trip.status = "completed" =>
          /\ trip.commission = Commission(trip.fare)
          /\ trip.payout = trip.fare - Commission(trip.fare)
    /\ trip.early => trip.status = "completed"
    /\ trip.asked # Nothing =>
          /\ trip.status = "in_progress" /\ trip.asked \in Asks
          /\ trip.asked.told = EarlyStopFare(Locked(trip), trip.asked.way[1], trip.asked.way[2])
                                  + trip.preRide + trip.asked.extras

\* What a transaction will have written when it commits.
Ledgered(r) ==
    written[r] # Nothing =>
        Outcome(written[r].row) = IF written[r].event = "none" THEN priority[r]
                                  ELSE Append(priority[r], written[r].event)

FiguresInv ==
    /\ now \in Nat
    /\ quotes \in [Quotes -> QuoteRows \cup {Nothing}]
    /\ rides \in [Rides -> RideRows \cup {Nothing}]
    /\ written \in [Rides -> Drafts \cup {Nothing}]
    /\ priority = [r \in Rides |-> priority[r]]
    /\ \A r \in Rides :
          /\ rides[r] # Nothing => Settled(rides[r])
          /\ written[r] # Nothing => Settled(written[r].row)
          /\ priority[r] = Outcome(rides[r]) /\ Ledgered(r)

LEMMA FiguresInitially == FiguresInit => FiguresInv
<1> SUFFICES ASSUME FiguresInit PROVE FiguresInv
  OBVIOUS
<1>1. /\ \A r \in Rides : rides[r] = Nothing /\ written[r] = Nothing /\ priority[r] = <<>>
      /\ priority = [r \in Rides |-> priority[r]] /\ now \in Nat
  BY DEF FiguresInit
<1>2. /\ quotes \in [Quotes -> QuoteRows \cup {Nothing}]
      /\ rides \in [Rides -> RideRows \cup {Nothing}]
      /\ written \in [Rides -> Drafts \cup {Nothing}]
  BY DEF FiguresInit
<1> QED BY <1>1, <1>2 DEF FiguresInv, Outcome, Ledgered

\* A step that leaves rides, quotes and ledger alone.
LEMMA FiguresFrame ==
  ASSUME FiguresInv, UNCHANGED <<quotes, rides, written, priority>>, now' \in Nat
  PROVE  FiguresInv'
BY DEF FiguresInv, Settled, Ledgered, Outcome, Locked

\* Quotes come, and what they lock stays.
LEMMA SettledStays ==
  ASSUME NEW trip, Settled(trip), trip.quote \in Quotes,
         \A q \in Quotes : quotes[q] # Nothing => quotes'[q] # Nothing /\ quotes'[q].offer = quotes[q].offer
  PROVE  /\ quotes'[trip.quote] # Nothing
         /\ trip.noShow => trip.status = "cancelled_by_driver"
         /\ trip.status = "completed" =>
               /\ trip.commission = Commission(trip.fare)
               /\ trip.payout = trip.fare - Commission(trip.fare)
         /\ trip.early => trip.status = "completed"
         /\ trip.asked # Nothing =>
               /\ trip.status = "in_progress" /\ trip.asked \in Asks
               /\ trip.asked.told = EarlyStopFare(quotes'[trip.quote].offer,
                                                   trip.asked.way[1], trip.asked.way[2])
                                       + trip.preRide + trip.asked.extras
BY DEF Settled, Locked

\* A handler that writes a ride of which all this is true.
LEMMA FiguresWrite ==
  ASSUME FiguresInv, NEW r \in Rides, NEW row \in RideRows,
         NEW told \in Events, Write(r, row, told), Settled(row),
         Outcome(row) = IF told = "none" THEN priority[r] ELSE Append(priority[r], told)
  PROVE  FiguresInv'
<1> DEFINE d == [row |-> row, event |-> told]
<1>1. /\ written' = [written EXCEPT ![r] = d] /\ d \in Drafts
      /\ UNCHANGED <<now, quotes, rides, priority>>
  BY DEF Write, Drafts
<1>2. d.row = row /\ d.event = told
  OBVIOUS
<1> HIDE DEF d
<1>3. /\ written' \in [Rides -> Drafts \cup {Nothing}] /\ written'[r] = d
      /\ \A u \in Rides \ {r} : written'[u] = written[u]
  BY <1>1 DEF FiguresInv
<1>4. ASSUME NEW u \in Rides PROVE Ledgered(u)'
  <2>1. CASE u = r
    BY <1>1, <1>2, <1>3, <2>1 DEF Ledgered, Outcome
  <2>2. CASE u # r
    BY <1>1, <1>3, <2>2 DEF Ledgered, Outcome, FiguresInv
  <2> QED BY <2>1, <2>2
<1>5. ASSUME NEW u \in Rides, written'[u] # Nothing PROVE Settled(written[u].row)'
  <2>1. CASE u = r
    BY <1>1, <1>2, <1>3, <2>1 DEF Settled, Locked
  <2>2. CASE u # r
    BY <1>1, <1>3, <1>5, <2>2 DEF Settled, Locked, FiguresInv
  <2> QED BY <2>1, <2>2
<1>6. ASSUME NEW u \in Rides
      PROVE  (rides'[u] # Nothing => Settled(rides[u])') /\ priority'[u] = Outcome(rides[u])'
  BY <1>1 DEF Settled, Locked, FiguresInv, Outcome
<1> QED BY <1>1, <1>3, <1>4, <1>5, <1>6 DEF FiguresInv

LEMMA FiguresAbort ==
  ASSUME FiguresInv, NEW r \in Rides, AbortRow(r)
  PROVE  FiguresInv'
<1>1. /\ written' \in [Rides -> Drafts \cup {Nothing}]
      /\ UNCHANGED <<now, quotes, rides, priority>>
      /\ \A u \in Rides : written'[u] = Nothing \/ written'[u] = written[u]
  BY DEF AbortRow, FiguresInv
<1> QED BY <1>1 DEF FiguresInv, Settled, Ledgered, Outcome, Locked

\* A step of the quotes leaves the rides settled.
LEMMA FiguresQuotes ==
  ASSUME FiguresInv, NEW q \in Quotes, NEW offer \in Offers,
         CreateQuote(q, offer)
  PROVE  FiguresInv'
<1> DEFINE new == [offer |-> offer, expires |-> now + QuoteTtl, ride |-> Nothing]
<1>1. /\ quotes' = [quotes EXCEPT ![q] = new] /\ quotes[q] = Nothing
      /\ UNCHANGED <<now, rides, written, priority>>
  BY DEF CreateQuote
<1>2. new \in QuoteRows
  BY FiguresAssumption DEF QuoteRows, FiguresInv
<1> HIDE DEF new
<1>3. /\ quotes' \in [Quotes -> QuoteRows \cup {Nothing}]
      /\ \A x \in Quotes : quotes[x] # Nothing => quotes'[x] # Nothing /\ quotes'[x].offer = quotes[x].offer
  BY <1>1, <1>2 DEF FiguresInv
<1>4. ASSUME NEW u \in Rides, rides[u] # Nothing PROVE Settled(rides[u])'
  <2>1. Settled(rides[u]) /\ rides[u].quote \in Quotes
    BY <1>4 DEF FiguresInv, RideRows
  <2> QED BY <1>1, <1>3, <2>1, SettledStays DEF Settled, Locked
<1>5. ASSUME NEW u \in Rides, written[u] # Nothing PROVE Settled(written[u].row)'
  <2>1. Settled(written[u].row) /\ written[u].row.quote \in Quotes
    BY <1>5 DEF FiguresInv, Drafts, RideRows
  <2> QED BY <1>1, <1>3, <2>1, SettledStays DEF Settled, Locked
<1>6. ASSUME NEW u \in Rides PROVE priority'[u] = Outcome(rides[u])' /\ Ledgered(u)'
  BY <1>1 DEF FiguresInv, Outcome, Ledgered
<1> QED BY <1>1, <1>3, <1>4, <1>5, <1>6 DEF FiguresInv

LEMMA FiguresCommit ==
  ASSUME FiguresInv, NEW r \in Rides, CommitRow(r)
  PROVE  FiguresInv'
<1> DEFINE row == written[r].row
           told == written[r].event
           q == row.quote
<1>1. /\ written[r] # Nothing /\ UNCHANGED now
      /\ rides' = [rides EXCEPT ![r] = row] /\ quotes' = [quotes EXCEPT ![q].ride = r]
      /\ priority' = IF told = "none" THEN priority
                     ELSE [priority EXCEPT ![r] = Append(priority[r], told)]
      /\ written' = [written EXCEPT ![r] = Nothing]
  BY DEF CommitRow
<1>2. row \in RideRows /\ q \in Quotes /\ Settled(row) /\ row # Nothing
      /\ Outcome(row) = IF told = "none" THEN priority[r] ELSE Append(priority[r], told)
  BY FiguresAssumption, <1>1 DEF FiguresInv, Ledgered, Drafts, RideRows
<1>3. quotes[q] \in QuoteRows
  BY <1>2 DEF Settled, FiguresInv
<1> HIDE DEF row, told, q
<1>4. /\ rides' \in [Rides -> RideRows \cup {Nothing}] /\ rides'[r] = row
      /\ written' \in [Rides -> Drafts \cup {Nothing}] /\ written'[r] = Nothing
      /\ \A u \in Rides \ {r} : rides'[u] = rides[u] /\ written'[u] = written[u]
  BY <1>1, <1>2 DEF FiguresInv
<1>5. /\ priority' = [u \in Rides |-> priority'[u]] /\ priority'[r] = Outcome(row)
      /\ \A u \in Rides \ {r} : priority'[u] = priority[u]
  <2>1. priority = [u \in Rides |-> priority[u]]
    BY DEF FiguresInv
  <2> HIDE DEF Outcome
  <2> QED BY <1>1, <1>2, <2>1
<1>6. /\ quotes' \in [Quotes -> QuoteRows \cup {Nothing}]
      /\ \A x \in Quotes : quotes[x] # Nothing => quotes'[x] # Nothing /\ quotes'[x].offer = quotes[x].offer
  <2> DEFINE new == [quotes[q] EXCEPT !.ride = r]
  <2>1. new \in QuoteRows /\ new.offer = quotes[q].offer /\ new # Nothing
    BY FiguresAssumption, <1>3 DEF QuoteRows
  <2>2. quotes' = [quotes EXCEPT ![q] = new]
    BY <1>1
  <2> HIDE DEF new
  <2> QED BY <1>2, <2>1, <2>2 DEF FiguresInv
<1>7. ASSUME NEW u \in Rides, rides'[u] # Nothing PROVE Settled(rides[u])'
  <2>1. Settled(rides'[u]) /\ rides'[u].quote \in Quotes
    <3>1. CASE u = r
      BY <1>2, <1>4, <3>1 DEF q
    <3>2. CASE u # r
      <4>1. rides'[u] = rides[u] /\ rides[u] # Nothing
        BY <1>4, <1>7, <3>2
      <4> QED BY <4>1 DEF FiguresInv, RideRows
    <3> QED BY <3>1, <3>2
  <2> QED BY <1>6, <2>1, SettledStays DEF Settled, Locked
<1>8. ASSUME NEW u \in Rides, written'[u] # Nothing PROVE Settled(written[u].row)'
  <2>1. u # r /\ written'[u] = written[u]
    BY <1>4, <1>8
  <2>2. Settled(written[u].row) /\ written[u].row.quote \in Quotes
    BY <1>8, <2>1 DEF FiguresInv, Drafts, RideRows
  <2> QED BY <1>6, <2>1, <2>2, SettledStays DEF Settled, Locked
<1>9. ASSUME NEW u \in Rides PROVE priority'[u] = Outcome(rides[u])' /\ Ledgered(u)'
  <2>1. CASE u = r
    BY <1>4, <1>5, <2>1 DEF Outcome, Ledgered
  <2>2. CASE u # r
    BY <1>4, <1>5, <2>2 DEF FiguresInv, Outcome, Ledgered
  <2> QED BY <2>1, <2>2
<1> QED BY <1>1, <1>4, <1>5, <1>6, <1>7, <1>8, <1>9 DEF FiguresInv

\* The ride a handler loads.
LEMMA Loaded ==
  ASSUME FiguresInv, NEW r \in Rides, NEW statuses, Loads(r, statuses)
  PROVE  /\ rides[r] \in RideRows /\ rides[r] # Nothing /\ rides[r].status \in statuses
         /\ Settled(rides[r]) /\ priority[r] = Outcome(rides[r])
BY DEF Loads, FiguresInv

\* A handler that ends nothing, before the end of a ride.
LEMMA OngoingWrites ==
  ASSUME FiguresInv, NEW r \in Rides, Loads(r, Active),
         NEW row \in RideRows, Write(r, row, "none"),
         row.quote = rides[r].quote, row.early = rides[r].early,
         row.asked = rides[r].asked,
         \/ row.preRide = rides[r].preRide /\ row.status = "in_progress"
         \/ rides[r].status # "in_progress",
         \/ row.status \in Active /\ row.noShow = rides[r].noShow
         \/ row.status = "cancelled_by_driver" /\ row.noShow
  PROVE  FiguresInv'
<1>1. /\ rides[r].status \in Active /\ Settled(rides[r])
      /\ rides[r] # Nothing /\ priority[r] = Outcome(rides[r])
  BY Loaded
<1>2. ~rides[r].early /\ priority[r] = <<>>
  BY <1>1 DEF Settled, Active, Outcome
<1>3. Settled(row)
  BY <1>1, <1>2 DEF Settled, Active, Locked
<1>4. Outcome(row) = <<>> /\ "none" \in Events
  BY DEF Outcome, Events, Active
<1> QED BY <1>2, <1>3, <1>4, FiguresWrite

LEMMA FiguresRequest ==
  ASSUME FiguresInv, NEW r \in Rides, NEW q \in Quotes, RequestRide(r, q)
  PROVE  FiguresInv'
<1> DEFINE row == [quote |-> q, status |-> "requested", driver |-> NoDriver,
                   requested |-> now, completed |-> Nothing, preRide |-> 0, extras |-> 0,
                   measured |-> Nothing, early |-> FALSE, noShow |-> FALSE, asked |-> Nothing,
                   fare |-> 0, commission |-> quotes[q].offer.commission,
                   payout |-> quotes[q].offer.payout, stars |-> 0]
<1>1. Write(r, row, "none") /\ rides[r] = Nothing /\ quotes[q] # Nothing
  BY DEF RequestRide
<1>2. quotes[q].offer \in Offers
  BY <1>1 DEF FiguresInv, QuoteRows
<1>3. quotes[q].offer.commission \in Int /\ quotes[q].offer.payout \in Int
  BY <1>2, OfferTypes
<1>4. row \in RideRows
  BY <1>3 DEF FiguresInv, RideRows, AllStatuses, Active
<1>5. row.quote = q /\ row.status = "requested" /\ row.early = FALSE /\ row.noShow = FALSE
      /\ row.asked = Nothing
  OBVIOUS
<1> HIDE DEF row
<1>6. Settled(row)
  BY <1>1, <1>5 DEF Settled
<1>7. Outcome(row) = <<>> /\ priority[r] = <<>> /\ "none" \in Events
  BY <1>1, <1>5 DEF Outcome, FiguresInv, Events
<1> QED BY <1>1, <1>4, <1>6, <1>7, FiguresWrite

LEMMA FiguresArrive ==
  ASSUME FiguresInv, NEW r \in Rides, NEW d \in Drivers, Arrive(r, d)
  PROVE  FiguresInv'
<1> DEFINE row == [rides[r] EXCEPT !.status = "arrived", !.driver = d]
<1>1. Loads(r, {"requested"}) /\ Write(r, row, "none")
  BY DEF Arrive
<1>2. rides[r] \in RideRows /\ Loads(r, Active)
  BY <1>1, Loaded DEF Loads, Active
<1>3. row \in RideRows /\ row.status = "arrived" /\ row.quote = rides[r].quote
      /\ row.early = rides[r].early /\ row.noShow = rides[r].noShow
      /\ row.asked = rides[r].asked /\ rides[r].status # "in_progress"
  BY <1>1, <1>2 DEF RideRows, AllStatuses, Active, Loads
<1> HIDE DEF row
<1> QED BY <1>1, <1>2, <1>3, OngoingWrites DEF Active

LEMMA FiguresStart ==
  ASSUME FiguresInv, NEW r \in Rides, NEW seconds \in ArrivalWaits, Start(r, seconds)
  PROVE  FiguresInv'
<1> DEFINE fee == PreRideFee(seconds)
           row == [rides[r] EXCEPT !.status = "in_progress", !.preRide = fee]
<1>1. Loads(r, {"arrived"}) /\ Write(r, row, "none")
  BY DEF Start
<1>2. rides[r] \in RideRows /\ Loads(r, Active)
  BY <1>1, Loaded DEF Loads, Active
<1>3. fee \in Nat
  BY FiguresAssumption, PreRideFeeIs
<1> HIDE DEF fee
<1>4. row \in RideRows /\ row.status = "in_progress" /\ row.quote = rides[r].quote
      /\ row.early = rides[r].early /\ row.noShow = rides[r].noShow
      /\ row.asked = rides[r].asked /\ rides[r].status # "in_progress"
  BY <1>1, <1>2, <1>3 DEF RideRows, AllStatuses, Active, Loads
<1> HIDE DEF row
<1> QED BY <1>1, <1>2, <1>4, OngoingWrites DEF Active

LEMMA FiguresExtra ==
  ASSUME FiguresInv, NEW r \in Rides, NEW amount \in Extras, AddExtra(r, amount)
  PROVE  FiguresInv'
<1> DEFINE row == [rides[r] EXCEPT !.extras = rides[r].extras + amount]
<1>1. Loads(r, {"in_progress"}) /\ Write(r, row, "none")
  BY DEF AddExtra
<1>2. rides[r] \in RideRows /\ Loads(r, Active)
      /\ rides[r].status = "in_progress"
  BY <1>1, Loaded DEF Loads, Active
<1>3. row \in RideRows /\ row.status = "in_progress" /\ row.quote = rides[r].quote
      /\ row.early = rides[r].early /\ row.noShow = rides[r].noShow
      /\ row.asked = rides[r].asked /\ row.preRide = rides[r].preRide
  BY FiguresAssumption, <1>2 DEF RideRows
<1> HIDE DEF row
<1> QED BY <1>1, <1>2, <1>3, OngoingWrites DEF Active

LEMMA FiguresNoShow ==
  ASSUME FiguresInv, NEW r \in Rides, NoShow(r)
  PROVE  FiguresInv'
<1> DEFINE row == [rides[r] EXCEPT !.status = "cancelled_by_driver", !.noShow = TRUE]
<1>1. Loads(r, {"arrived"}) /\ Write(r, row, "none")
  BY DEF NoShow
<1>2. rides[r] \in RideRows /\ Loads(r, Active)
  BY <1>1, Loaded DEF Loads, Active
<1>3. row \in RideRows /\ row.status = "cancelled_by_driver" /\ row.noShow
      /\ row.quote = rides[r].quote /\ row.early = rides[r].early
      /\ row.asked = rides[r].asked /\ rides[r].status # "in_progress"
  BY <1>1, <1>2 DEF RideRows, AllStatuses, CancelledStatuses, Loads
<1> HIDE DEF row
<1> QED BY <1>1, <1>2, <1>3, OngoingWrites DEF Active

LEMMA FiguresCancel ==
  ASSUME FiguresInv, NEW r \in Rides, NEW ended \in CancelledStatuses,
         Cancel(r, ended)
  PROVE  FiguresInv'
<1> DEFINE row == [rides[r] EXCEPT !.status = ended, !.asked = Nothing]
           told == CancelOutcome(ended, rides[r].driver)
<1>1. Loads(r, Active) /\ Write(r, row, told)
  BY DEF Cancel, Ended
<1>2. /\ rides[r] \in RideRows /\ rides[r].status \in Active
      /\ rides[r] # Nothing /\ Settled(rides[r]) /\ priority[r] = Outcome(rides[r])
  BY <1>1, Loaded
<1>3. /\ row \in RideRows /\ row.status = ended /\ row.quote = rides[r].quote
      /\ row.early = rides[r].early /\ row.driver = rides[r].driver /\ row.noShow = rides[r].noShow
      /\ row.asked = Nothing
  BY <1>2 DEF RideRows, AllStatuses
<1>4. /\ told = IF ended = "cancelled_by_driver" /\ rides[r].driver # NoDriver
                 THEN "ride_cancelled_by_driver" ELSE "none"
      /\ told \in Events
  BY DEF CancelOutcome, Events
<1> HIDE DEF row, told
<1>5. ~rides[r].early /\ ~rides[r].noShow /\ priority[r] = <<>> /\ ended # "completed"
  BY <1>2 DEF Settled, Active, CancelledStatuses, Outcome
<1>6. Settled(row)
  BY <1>2, <1>3, <1>5 DEF Settled
<1>7. Outcome(row) = IF told = "none" THEN priority[r] ELSE Append(priority[r], told)
  <2>1. row # Nothing /\ Append(<<>>, told) = <<told>>
    BY FiguresAssumption, <1>3
  <2> QED BY <1>3, <1>4, <1>5, <2>1 DEF Outcome
<1> QED BY <1>1, <1>3, <1>4, <1>6, <1>7, FiguresWrite

\* A ride that is billed.
LEMMA BilledIs ==
  ASSUME FiguresInv, NEW trip \in RideRows, NEW fare \in Nat
  PROVE  LET row == BilledTotal(trip, fare)
             total == fare + trip.preRide + trip.extras
         IN  /\ row \in RideRows /\ row.status = "completed" /\ row.quote = trip.quote
             /\ row.fare = total /\ row.commission = Commission(total)
             /\ row.payout = total - Commission(total)
             /\ row.early = trip.early /\ row.noShow = trip.noShow
             /\ row.preRide = trip.preRide /\ row.extras = trip.extras
             /\ row.asked = Nothing
<1> DEFINE total == fare + trip.preRide + trip.extras
           c == Commission(total)
<1>1. trip.preRide \in Nat /\ trip.extras \in Nat /\ now \in Nat
  BY DEF RideRows, FiguresInv
<1>2. total \in Nat
  BY <1>1
<1>3. c \in Nat /\ total - c \in Int
  BY <1>2, CommissionIs
<1> HIDE DEF total, c
<1>4. BilledTotal(trip, fare) =
         [trip EXCEPT !.status = "completed", !.asked = Nothing, !.completed = now,
                      !.fare = total, !.commission = c, !.payout = total - c]
  BY DEF BilledTotal, Ended, RideRows, total, c
<1> DEFINE row == [trip EXCEPT !.status = "completed", !.asked = Nothing, !.completed = now,
                                !.fare = total, !.commission = c, !.payout = total - c]
<1>5. row \in RideRows
  <2>1. /\ "completed" \in AllStatuses /\ now \in Nat \cup {Nothing}
        /\ total \in Nat /\ c \in Int /\ total - c \in Int
    BY <1>1, <1>2, <1>3 DEF AllStatuses
  <2> DEFINE p == total - c
  <2> HIDE DEF p
  <2>2. p \in Int
    BY <2>1 DEF p
  <2>3. [trip EXCEPT !.status = "completed", !.asked = Nothing, !.completed = now,
                   !.fare = total] \in RideRows
    BY <2>1 DEF RideRows
  <2> DEFINE half == [trip EXCEPT !.status = "completed", !.asked = Nothing, !.completed = now,
                                 !.fare = total]
  <2>4. row = [half EXCEPT !.commission = c, !.payout = p]
    BY DEF RideRows, p
  <2> HIDE DEF half, row
  <2> QED BY <2>1, <2>2, <2>3, <2>4 DEF half, RideRows
<1>6. /\ row.status = "completed" /\ row.quote = trip.quote
      /\ row.fare = total /\ row.commission = c /\ row.payout = total - c
      /\ row.early = trip.early /\ row.noShow = trip.noShow
      /\ row.preRide = trip.preRide /\ row.extras = trip.extras
      /\ row.asked = Nothing
  BY DEF RideRows
<1>7. BilledTotal(trip, fare) = row
  BY <1>4
<1> HIDE DEF row
<1> QED BY <1>5, <1>6, <1>7 DEF total, c

\* The row that ends a ride in progress, and its event.
LEMMA FiguresEnd ==
  ASSUME FiguresInv, NEW r \in Rides, Loads(r, {"in_progress"}),
         NEW row \in RideRows, Write(r, row, "ride_completed"),
         Settled(row), row.status = "completed"
  PROVE  FiguresInv'
<1>1. rides[r].status = "in_progress" /\ rides[r] # Nothing /\ priority[r] = Outcome(rides[r])
  BY Loaded
<1>2. priority[r] = <<>> /\ row # Nothing /\ "ride_completed" \in Events
  BY FiguresAssumption, <1>1 DEF Outcome, Events
<1>3. Outcome(row) = Append(priority[r], "ride_completed")
  BY <1>2 DEF Outcome
<1> QED BY <1>2, <1>3, FiguresWrite

LEMMA FiguresComplete ==
  ASSUME FiguresInv, NEW r \in Rides, NEW measured, Complete(r, measured)
  PROVE  FiguresInv'
<1> DEFINE fare == Locked(rides[r]).fare
           row == BilledTotal(rides[r], fare)
<1>1. Loads(r, {"in_progress"}) /\ Write(r, row, "ride_completed")
  BY DEF Complete, CompletionFare
<1>2. rides[r] \in RideRows /\ rides[r].status = "in_progress" /\ Settled(rides[r])
  BY <1>1, Loaded
<1>3. fare \in Nat
  <2>1. rides[r].quote \in Quotes /\ quotes[rides[r].quote] # Nothing
    BY <1>2 DEF Settled, RideRows
  <2>2. Locked(rides[r]) \in Offers
    BY <2>1 DEF Locked, FiguresInv, QuoteRows
  <2> QED BY <2>2, OfferTypes
<1> HIDE DEF fare
<1>4. /\ row \in RideRows /\ row.status = "completed" /\ row.quote = rides[r].quote
      /\ row.commission = Commission(row.fare)
      /\ row.payout = row.fare - Commission(row.fare)
      /\ row.early = rides[r].early /\ row.noShow = rides[r].noShow /\ row.asked = Nothing
  BY <1>2, <1>3, BilledIs
<1> HIDE DEF row
<1>5. Settled(row)
  BY <1>2, <1>4 DEF Settled
<1> QED BY <1>1, <1>4, <1>5, FiguresEnd

LEMMA LockedIs ==
  ASSUME FiguresInv, NEW r \in Rides, rides[r] # Nothing
  PROVE  Locked(rides[r]) \in Offers /\ rides[r].quote \in Quotes
<1>1. rides[r].quote \in Quotes /\ quotes[rides[r].quote] # Nothing
  BY DEF FiguresInv, Settled, RideRows
<1> QED BY <1>1 DEF Locked, FiguresInv, QuoteRows

LEMMA FiguresAsk ==
  ASSUME FiguresInv, NEW r \in Rides, NEW way \in Driven, AskEarlyStop(r, way)
  PROVE  FiguresInv'
<1> DEFINE e == EarlyStopFare(Locked(rides[r]), way[1], way[2])
           told == e + rides[r].preRide + rides[r].extras
           ask == [until |-> now + EarlyStopTtl, way |-> way, extras |-> rides[r].extras, told |-> told]
           row == [rides[r] EXCEPT !.asked = ask]
<1>1. Loads(r, {"in_progress"}) /\ Write(r, row, "none")
  BY DEF AskEarlyStop, Provisional
<1>2. /\ rides[r] \in RideRows /\ rides[r].status = "in_progress" /\ Settled(rides[r])
      /\ rides[r] # Nothing /\ priority[r] = Outcome(rides[r])
  BY <1>1, Loaded
<1>3. e \in Nat /\ rides[r].preRide \in Nat /\ rides[r].extras \in Nat /\ now + EarlyStopTtl \in Nat
  <2>1. way[1] \in Nat /\ way[2] \in Nat
    BY FiguresAssumption
  <2> QED BY <1>2, <2>1, LockedIs, OfferTypes, FiguresAssumption DEF RideRows, FiguresInv
<1>4. e = EarlyStopFare(quotes[rides[r].quote].offer, way[1], way[2])
  BY DEF Locked
<1> HIDE DEF e
<1>5. ask \in Asks /\ ask.way = way /\ ask.extras = rides[r].extras
      /\ ask.told = e + rides[r].preRide + rides[r].extras
  BY <1>3 DEF Asks
<1> HIDE DEF ask
<1>6. /\ row \in RideRows /\ row.status = "in_progress" /\ row.quote = rides[r].quote
      /\ row.early = rides[r].early /\ row.noShow = rides[r].noShow /\ row.asked = ask
      /\ row.preRide = rides[r].preRide /\ row.extras = rides[r].extras
  BY <1>2, <1>5 DEF RideRows
<1> HIDE DEF row
<1>7. Settled(row)
  BY <1>2, <1>4, <1>5, <1>6 DEF Settled, Locked
<1>8. Outcome(row) = priority[r] /\ "none" \in Events
  BY FiguresAssumption, <1>2, <1>6 DEF Outcome, Events
<1> QED BY <1>1, <1>6, <1>7, <1>8, FiguresWrite

\* The row an early stop writes.
LEMMA EarlyRow ==
  ASSUME FiguresInv, NEW r \in Rides, NEW measured \in Driven, ConfirmEarlyStop(r, measured)
  PROVE  \E row \in RideRows :
            /\ Loads(r, {"in_progress"}) /\ Write(r, row, "ride_completed")
            /\ row.status = "completed" /\ row.quote = rides[r].quote /\ row.early
            /\ row.measured = measured /\ row.asked = Nothing /\ row.noShow = rides[r].noShow
            /\ row.preRide = rides[r].preRide /\ row.extras = rides[r].extras
            /\ row.fare = EarlyStopFare(Locked(rides[r]), measured[1], measured[2])
                            + rides[r].preRide + rides[r].extras
            /\ row.commission = Commission(row.fare)
            /\ row.payout = row.fare - Commission(row.fare)
<1> DEFINE fare == EarlyStopFare(Locked(rides[r]), measured[1], measured[2])
           bill == BilledTotal(rides[r], fare)
           row == [bill EXCEPT !.measured = measured, !.early = TRUE]
<1>1. Loads(r, {"in_progress"}) /\ Write(r, row, "ride_completed")
  BY DEF ConfirmEarlyStop
<1>2. rides[r] \in RideRows /\ rides[r].status = "in_progress" /\ rides[r] # Nothing
  BY <1>1, Loaded
<1>3. fare \in Nat
  <2>1. measured[1] \in Nat /\ measured[2] \in Nat
    BY FiguresAssumption
  <2> QED BY <1>2, <2>1, LockedIs, OfferTypes
<1> HIDE DEF fare
<1>5. /\ bill \in RideRows /\ bill.status = "completed" /\ bill.quote = rides[r].quote
      /\ bill.fare = fare + rides[r].preRide + rides[r].extras
      /\ bill.commission = Commission(bill.fare)
      /\ bill.payout = bill.fare - Commission(bill.fare)
      /\ bill.noShow = rides[r].noShow
      /\ bill.preRide = rides[r].preRide /\ bill.extras = rides[r].extras
      /\ bill.asked = Nothing
  BY <1>2, <1>3, BilledIs
<1> HIDE DEF bill
<1>6. /\ row \in RideRows /\ row.status = bill.status /\ row.quote = bill.quote
      /\ row.fare = bill.fare /\ row.commission = bill.commission /\ row.payout = bill.payout
      /\ row.noShow = bill.noShow /\ row.preRide = bill.preRide /\ row.extras = bill.extras
      /\ row.measured = measured /\ row.early /\ row.asked = Nothing
  BY <1>5 DEF RideRows
<1> HIDE DEF row
<1> QED BY <1>1, <1>5, <1>6 DEF fare

LEMMA FiguresEarly ==
  ASSUME FiguresInv, NEW r \in Rides, NEW measured \in Driven,
         ConfirmEarlyStop(r, measured)
  PROVE  FiguresInv'
<1>1. PICK row \in RideRows :
         /\ Loads(r, {"in_progress"}) /\ Write(r, row, "ride_completed")
         /\ row.status = "completed" /\ row.quote = rides[r].quote /\ row.early
         /\ row.asked = Nothing /\ row.noShow = rides[r].noShow
         /\ row.commission = Commission(row.fare)
         /\ row.payout = row.fare - Commission(row.fare)
  BY EarlyRow
<1>2. Settled(rides[r]) /\ rides[r].status = "in_progress"
  BY <1>1, Loaded
<1>3. Settled(row)
  BY <1>1, <1>2 DEF Settled
<1> QED BY <1>1, <1>3, FiguresEnd

LEMMA FiguresRate ==
  ASSUME FiguresInv, NEW r \in Rides, NEW stars \in Stars, Rate(r, stars)
  PROVE  FiguresInv'
<1> DEFINE row == [rides[r] EXCEPT !.stars = stars]
<1>1. Loads(r, {"completed"}) /\ Write(r, row, "none")
  BY DEF Rate
<1>2. /\ rides[r] \in RideRows /\ rides[r].status = "completed" /\ Settled(rides[r])
      /\ priority[r] = Outcome(rides[r]) /\ rides[r] # Nothing
  BY <1>1, Loaded
<1>3. stars \in 0..5
  BY FiguresAssumption
<1>4. /\ row \in RideRows /\ row.status = "completed" /\ row.quote = rides[r].quote
      /\ row.fare = rides[r].fare /\ row.commission = rides[r].commission
      /\ row.payout = rides[r].payout /\ row.noShow = rides[r].noShow
      /\ row.preRide = rides[r].preRide /\ row.extras = rides[r].extras
      /\ row.measured = rides[r].measured /\ row.early = rides[r].early
      /\ row.asked = rides[r].asked
  BY <1>2, <1>3 DEF RideRows
<1> HIDE DEF row
<1>5. Settled(row)
  BY <1>2, <1>4 DEF Settled, Locked
<1>6. Outcome(row) = priority[r] /\ "none" \in Events
  BY FiguresAssumption, <1>2, <1>4 DEF Outcome, Events
<1> QED BY <1>1, <1>4, <1>5, <1>6, FiguresWrite

LEMMA FiguresStep == FiguresInv /\ [FiguresNext]_figureVars => FiguresInv'
<1> SUFFICES ASSUME FiguresInv, [FiguresNext]_figureVars PROVE FiguresInv'
  OBVIOUS
<1>1. CASE UNCHANGED figureVars
  BY <1>1, FiguresFrame DEF figureVars, FiguresInv
<1>2. CASE Tick
  BY <1>2, FiguresFrame DEF Tick, FiguresInv
<1>3. ASSUME NEW r \in Rides, Handle(r) PROVE FiguresInv'
  BY <1>3, FiguresCommit, FiguresAbort, FiguresRequest, FiguresArrive, FiguresStart, FiguresExtra,
     FiguresAsk, FiguresComplete, FiguresEarly, FiguresCancel, FiguresNoShow, FiguresRate DEF Handle
<1>4. CASE \E figure \in Figures : Calculate(figure[1], figure[2])
  BY <1>4, FiguresFrame DEF Calculate, FiguresInv
<1>5. CASE Store
  BY <1>5, FiguresFrame DEF Store, FiguresInv
<1> QED BY <1>1, <1>2, <1>3, <1>4, <1>5, FiguresQuotes DEF FiguresNext

LEMMA FiguresAlways == FiguresSpec => []FiguresInv
<1>1. FiguresInit => FiguresInv
  BY FiguresInitially
<1>2. FiguresInv /\ [FiguresNext]_figureVars => FiguresInv'
  BY FiguresStep
<1> QED BY <1>1, <1>2, PTL DEF FiguresSpec

\* For any rides and drivers, the ledger of priorities holds one event of a
\* completed ride and one of a ride its driver cancelled, and no other.
THEOREM LedgerFollowsOutcome ==
  FiguresSpec => []PriorityFollowsOutcome
<1>1. FiguresInv => PriorityFollowsOutcome
  BY DEF FiguresInv, Outcome, PriorityFollowsOutcome, Finished, Taken
<1> QED BY <1>1, FiguresAlways, PTL

\* For any rides, fares and rate, the commissions and the shares of the drivers
\* make the fares of each day.
THEOREM SharesMakeFares ==
  FiguresSpec => []FinanceAddsUp
<1>1. FiguresInv => FinanceAddsUp
  <2> SUFFICES ASSUME FiguresInv PROVE FinanceAddsUp
    OBVIOUS
  <2>1. ASSUME NEW r \in Rides, rides[r] # Nothing, rides[r].status = "completed"
        PROVE  /\ rides[r].commission = Commission(rides[r].fare)
               /\ rides[r].commission + rides[r].payout = rides[r].fare
    <3>1. /\ rides[r].commission = Commission(rides[r].fare)
          /\ rides[r].payout = rides[r].fare - Commission(rides[r].fare)
          /\ rides[r].fare \in Nat
      BY <2>1 DEF FiguresInv, Settled, RideRows
    <3>2. Commission(rides[r].fare) \in Nat
      BY <3>1, CommissionIs
    <3> QED BY <3>1, <3>2
  <2>2. ASSUME NEW day \in Days
        PROVE  Shared(day) = Aggregate(day, "completed_fare_total_xof")
    <3>1. ASSUME NEW r \in Rides
          PROVE  Split(rides[r], day) = Share(rides[r], day, "completed_fare_total_xof")
      BY <2>1 DEF Split, Share, DayOf
    <3>2. [r \in Rides |-> Split(rides[r], day)]
             = [r \in Rides |-> Share(rides[r], day, "completed_fare_total_xof")]
      BY <3>1
    <3> QED BY <3>2 DEF Shared, Aggregate
  <2> QED BY <2>1, <2>2 DEF FinanceAddsUp, Finished, Taken
<1> QED BY <1>1, FiguresAlways, PTL

\* Only the confirmation of an early stop writes a ride stopped early.
LEMMA OnlyConfirmed ==
  ASSUME FiguresInv, [FiguresNext]_figureVars, NEW r \in Rides, written'[r] # written[r],
         written'[r] # Nothing, written'[r].row.early, ~ rides[r].early
  PROVE  \E measured \in Driven : ConfirmEarlyStop(r, measured)
<1>1. ASSUME NEW x \in Rides, x # r, Handle(x) PROVE FALSE
  <2>1. written'[r] = written[r]
    <3>1. \E d : written' = [written EXCEPT ![x] = d]
      BY <1>1 DEF Handle, CommitRow, AbortRow, RequestRide, Arrive, Start, AddExtra, AskEarlyStop,
                  Complete, ConfirmEarlyStop, Cancel, NoShow, Rate, Write
    <3> QED BY <1>1, <3>1 DEF FiguresInv
  <2> QED BY <2>1
<1>2. Handle(r)
  <2>1. ASSUME UNCHANGED written PROVE FALSE
    BY <2>1
  <2> QED BY <1>1, <2>1 DEF FiguresNext, figureVars, Tick, CreateQuote, Calculate, Store
<1>3. ASSUME NEW row, NEW told, Write(r, row, told) PROVE row.early
  <2>1. written'[r] = [row |-> row, event |-> told]
    BY <1>3 DEF Write, FiguresInv
  <2> QED BY <2>1
<1>4. ASSUME CommitRow(r) \/ AbortRow(r) PROVE FALSE
  BY <1>4 DEF CommitRow, AbortRow, FiguresInv
<1>5. ASSUME NEW q \in Quotes, RequestRide(r, q) PROVE FALSE
  BY <1>3, <1>5 DEF RequestRide
<1>6. ASSUME rides[r] \in RideRows,
             \/ \E d \in Drivers : Arrive(r, d)
             \/ \E seconds \in ArrivalWaits : Start(r, seconds)
             \/ \E amount \in Extras : AddExtra(r, amount)
             \/ \E way \in Driven : AskEarlyStop(r, way)
             \/ NoShow(r)
             \/ \E stars \in Stars : Rate(r, stars)
      PROVE  FALSE
  <2>1. ASSUME NEW d, Write(r, [rides[r] EXCEPT !.status = "arrived", !.driver = d], "none")
        PROVE  FALSE
    <3>1. [rides[r] EXCEPT !.status = "arrived", !.driver = d].early = rides[r].early
      BY <1>6 DEF RideRows
    <3> QED BY <1>3, <2>1, <3>1
  <2>2. ASSUME NEW fee, Write(r, [rides[r] EXCEPT !.status = "in_progress", !.preRide = fee], "none")
        PROVE  FALSE
    <3>1. [rides[r] EXCEPT !.status = "in_progress", !.preRide = fee].early = rides[r].early
      BY <1>6 DEF RideRows
    <3> QED BY <1>3, <2>2, <3>1
  <2>3. ASSUME NEW x, Write(r, [rides[r] EXCEPT !.extras = x], "none") PROVE FALSE
    <3>1. [rides[r] EXCEPT !.extras = x].early = rides[r].early
      BY <1>6 DEF RideRows
    <3> QED BY <1>3, <2>3, <3>1
  <2>4. ASSUME NEW x, Write(r, [rides[r] EXCEPT !.asked = x], "none") PROVE FALSE
    <3>1. [rides[r] EXCEPT !.asked = x].early = rides[r].early
      BY <1>6 DEF RideRows
    <3> QED BY <1>3, <2>4, <3>1
  <2>5. ASSUME Write(r, [rides[r] EXCEPT !.status = "cancelled_by_driver", !.noShow = TRUE], "none")
        PROVE  FALSE
    <3>1. [rides[r] EXCEPT !.status = "cancelled_by_driver", !.noShow = TRUE].early = rides[r].early
      BY <1>6 DEF RideRows
    <3> QED BY <1>3, <2>5, <3>1
  <2>6. ASSUME NEW x, Write(r, [rides[r] EXCEPT !.stars = x], "none") PROVE FALSE
    <3>1. [rides[r] EXCEPT !.stars = x].early = rides[r].early
      BY <1>6 DEF RideRows
    <3> QED BY <1>3, <2>6, <3>1
  <2> HIDE DEF Write
  <2> QED BY <1>6, <2>1, <2>2, <2>3, <2>4, <2>5, <2>6
          DEF Arrive, Start, AddExtra, AskEarlyStop, NoShow, Rate
<1>7. ASSUME rides[r] \in RideRows, NEW ended \in CancelledStatuses, Cancel(r, ended) PROVE FALSE
  <2>1. Ended(rides[r], ended).early = rides[r].early
    BY <1>7 DEF Ended, RideRows
  <2> QED BY <1>3, <1>7, <2>1 DEF Cancel
<1>8. ASSUME NEW measured \in Measures, Complete(r, measured) PROVE FALSE
  <2>1. Loads(r, {"in_progress"})
        /\ Write(r, BilledTotal(rides[r], Locked(rides[r]).fare), "ride_completed")
    BY <1>8 DEF Complete, CompletionFare
  <2>2. rides[r] \in RideRows /\ rides[r] # Nothing
    BY <2>1, Loaded
  <2>3. BilledTotal(rides[r], Locked(rides[r]).fare).early = rides[r].early
    BY <2>2, LockedIs, OfferTypes, BilledIs
  <2> QED BY <1>3, <2>1, <2>3
<1>9. ASSUME NEW statuses, Loads(r, statuses) PROVE rides[r] \in RideRows /\ rides[r] # Nothing
  BY <1>9, Loaded
<1>10. CASE rides[r] \in RideRows /\ rides[r] # Nothing
  BY <1>2, <1>4, <1>5, <1>6, <1>7, <1>8, <1>10 DEF Handle
<1>11. CASE ~(rides[r] \in RideRows /\ rides[r] # Nothing)
  <2>1. \A statuses : ~Loads(r, statuses)
    BY <1>9, <1>11
  <2> QED BY <1>2, <1>4, <1>5, <2>1 DEF Handle, Arrive, Start, AddExtra, AskEarlyStop, Complete,
             ConfirmEarlyStop, Cancel, NoShow, Rate
<1> QED BY <1>10, <1>11

\* For any tariff, surge and way, a ride stopped within the distance and the
\* time of its quote costs the base fare, or the quote but for the roundings and
\* the default base fare; and within the way the passenger was told an amount
\* for, no more than this amount and the extras added since.
THEOREM EarlyStopIsCheap == FiguresSpec => EarlyStopCostsNoMore
<1> DEFINE Cheap ==
      \A r \in Rides :
          (written'[r] # written[r] /\ written'[r] # Nothing
             /\ written'[r].row.early /\ ~ rides[r].early) =>
            EarlyStopRight(written'[r].row, rides[r].asked)
<1>1. FiguresInv /\ [FiguresNext]_figureVars => Cheap
  <2> SUFFICES ASSUME FiguresInv, [FiguresNext]_figureVars, NEW r \in Rides,
                      written'[r] # written[r], written'[r] # Nothing,
                      written'[r].row.early, ~ rides[r].early
               PROVE  EarlyStopRight(written'[r].row, rides[r].asked)
    OBVIOUS
  <2>1. PICK measured \in Driven : ConfirmEarlyStop(r, measured)
    BY OnlyConfirmed
  <2>2. PICK row \in RideRows :
           /\ Loads(r, {"in_progress"}) /\ Write(r, row, "ride_completed")
           /\ row.quote = rides[r].quote /\ row.measured = measured
           /\ row.preRide = rides[r].preRide /\ row.extras = rides[r].extras
           /\ row.fare = EarlyStopFare(Locked(rides[r]), measured[1], measured[2])
                           + rides[r].preRide + rides[r].extras
    BY <2>1, EarlyRow
  <2>3. written'[r].row = row
    BY <2>2 DEF Write, FiguresInv
  <2>4. rides[r] \in RideRows /\ rides[r] # Nothing /\ Settled(rides[r])
    BY <2>2, Loaded
  <2> DEFINE q == Locked(rides[r])
             e == EarlyStopFare(q, measured[1], measured[2])
             asked == rides[r].asked
  <2>5. q \in Offers /\ measured[1] \in Nat /\ measured[2] \in Nat
    BY <2>4, LockedIs, FiguresAssumption
  <2>6. e \in Nat /\ q.fare \in Nat /\ rides[r].preRide \in Nat /\ rides[r].extras \in Nat
    BY <2>4, <2>5, OfferTypes DEF RideRows
  <2>7. Locked(row) = q
    BY <2>2 DEF Locked
  <2>8. row.fare - row.preRide - row.extras = e
    BY <2>2, <2>6
  <2>9. ASSUME Within(measured, <<q.km, q.time>>)
        PROVE  \/ e = BaseOr(q)
               \/ 100 * (e - q.fare) <= 100 + (1 + BaseOr(q) - q.base) * q.comfort * q.surge
    <3> HIDE DEF q
    <3>1. measured[1] <= q.km /\ measured[2] <= q.time
      BY <2>9 DEF Within
    <3> QED BY <2>5, <3>1, EarlyStopBound
  <2>10. ASSUME Within(measured, asked.way) PROVE row.fare <= asked.told + row.extras - asked.extras
    <3>1. asked # Nothing
      BY <2>1 DEF ConfirmEarlyStop
    <3>2. /\ asked \in Asks
          /\ asked.told = EarlyStopFare(q, asked.way[1], asked.way[2]) + rides[r].preRide + asked.extras
      BY <2>4, <3>1 DEF Settled
    <3>3. asked.way[1] \in Nat /\ asked.way[2] \in Nat /\ asked.extras \in Nat
      BY <3>2, FiguresAssumption DEF Asks
    <3> DEFINE f == EarlyStopFare(q, asked.way[1], asked.way[2])
    <3>4. f \in Nat /\ e <= f
      <4> HIDE DEF q, asked
      <4>1. measured[1] <= asked.way[1] /\ measured[2] <= asked.way[2]
        BY <2>10 DEF Within
      <4> QED BY <2>5, <3>3, <4>1, OfferTypes, ShorterCostsNoMore
    <3> HIDE DEF f, e, asked
    <3>5. row.fare = e + rides[r].preRide + row.extras
      BY <2>2 DEF e
    <3>6. asked.told = f + rides[r].preRide + asked.extras
      BY <3>2 DEF f, asked
    <3>7. row.extras \in Nat
      BY DEF RideRows
    <3> QED BY <2>6, <3>3, <3>4, <3>5, <3>6, <3>7
  <2> HIDE DEF q, e, asked
  <2> QED BY <2>2, <2>3, <2>7, <2>8, <2>9, <2>10 DEF EarlyStopRight, asked
<1> QED BY <1>1, FiguresAlways, PTL DEF FiguresSpec, EarlyStopCostsNoMore

----------------------------------------------------------------------------
(* Sums over the rides. *)

LEMMA LeastNat ==
  ASSUME NEW T, T \subseteq Nat, T # {}
  PROVE  \E x \in T : \A y \in T : x <= y
<1>1. PICK x \in T : \A y \in T : ~(<<y, x>> \in OpToRel(<, Nat))
  BY WFMin, NatLessThanWellFounded
<1>2. \A y \in T : ~(y < x)
  BY <1>1 DEF OpToRel
<1> QED BY <1>2

\* SumFunction takes the elements of a set one after the other.
Picked(s) == CHOOSE x \in s : TRUE
Summed(f, g) ==
    [s \in SUBSET DOMAIN f |-> IF s = {} THEN 0 ELSE f[Picked(s)] + g[s \ {Picked(s)}]]

LEMMA SumUnfolds ==
  ASSUME NEW f
  PROVE  SumFunction(f) = (CHOOSE g : g = Summed(f, g))[DOMAIN f]
BY DEF SumFunction, SumFunctionOnSet, FoldFunction, FoldFunctionOnSet,
       MapThenFoldSet, Summed, Picked

\* The subsets of up to n elements.
Upto(S, n) == {s \in SUBSET S : Cardinality(s) <= n}
\* g sums f over those subsets.
Sums(f, g, n) ==
    /\ g \in [Upto(DOMAIN f, n) -> Int]
    /\ \A s \in Upto(DOMAIN f, n) :
          g[s] = IF s = {} THEN 0 ELSE f[Picked(s)] + g[s \ {Picked(s)}]

\* Taking an element from a finite set.
LEMMA PickedIs ==
  ASSUME NEW S, IsFiniteSet(S), NEW s \in SUBSET S, s # {}
  PROVE  /\ Picked(s) \in s /\ s \ {Picked(s)} \in SUBSET S
         /\ Cardinality(s) \in Nat /\ Cardinality(s \ {Picked(s)}) = Cardinality(s) - 1
         /\ Cardinality(s \ {Picked(s)}) \in Nat
<1>1. Picked(s) \in s
  BY DEF Picked
<1>2. IsFiniteSet(s) /\ IsFiniteSet(s \ {Picked(s)})
  BY FS_Subset
<1> QED BY <1>1, <1>2, FS_RemoveElement, FS_CardinalityType

LEMMA SumsBegin ==
  ASSUME NEW S, IsFiniteSet(S), NEW f \in [S -> Int]
  PROVE  \E g : Sums(f, g, 0)
<1> DEFINE g == [s \in Upto(S, 0) |-> 0]
<1>1. \A s \in Upto(S, 0) : s = {}
  <2> SUFFICES ASSUME NEW s \in Upto(S, 0) PROVE s = {}
    OBVIOUS
  <2>1. s \in SUBSET S /\ Cardinality(s) <= 0 /\ IsFiniteSet(s)
    BY FS_Subset DEF Upto
  <2> QED BY <2>1, FS_CardinalityType, FS_EmptySet
<1>2. Sums(f, g, 0)
  BY <1>1 DEF Sums
<1> QED BY <1>2

LEMMA SumsGrow ==
  ASSUME NEW S, IsFiniteSet(S), NEW f \in [S -> Int], NEW n \in Nat, NEW g, Sums(f, g, n)
  PROVE  \E h : Sums(f, h, n + 1)
<1> DEFINE h == [s \in Upto(S, n + 1) |-> IF s = {} THEN 0 ELSE f[Picked(s)] + g[s \ {Picked(s)}]]
<1>1. \A s \in Upto(S, n + 1) : s # {} =>
         /\ Picked(s) \in S /\ s \ {Picked(s)} \in Upto(S, n)
         /\ s \ {Picked(s)} \in Upto(S, n + 1)
  <2> SUFFICES ASSUME NEW s \in Upto(S, n + 1), s # {}
               PROVE  /\ Picked(s) \in S /\ s \ {Picked(s)} \in Upto(S, n)
                      /\ s \ {Picked(s)} \in Upto(S, n + 1)
    OBVIOUS
  <2>1. s \in SUBSET S /\ Cardinality(s) <= n + 1
    BY DEF Upto
  <2>2. /\ Picked(s) \in s /\ s \ {Picked(s)} \in SUBSET S
        /\ Cardinality(s) \in Nat /\ Cardinality(s \ {Picked(s)}) = Cardinality(s) - 1
    BY <2>1, PickedIs
  <2> QED BY <2>1, <2>2 DEF Upto
<1>2. /\ DOMAIN f = S /\ g \in [Upto(S, n) -> Int]
      /\ \A s \in Upto(S, n) : g[s] = IF s = {} THEN 0 ELSE f[Picked(s)] + g[s \ {Picked(s)}]
  BY DEF Sums
<1>3. h \in [Upto(S, n + 1) -> Int]
  BY <1>1, <1>2
<1>4. \A s \in Upto(S, n) : s \in Upto(S, n + 1) => h[s] = g[s]
  BY <1>2
<1>5. \A s \in Upto(S, n + 1) : h[s] = IF s = {} THEN 0 ELSE f[Picked(s)] + h[s \ {Picked(s)}]
  BY <1>1, <1>4
<1>6. Sums(f, h, n + 1)
  BY <1>2, <1>3, <1>5 DEF Sums
<1> QED BY <1>6

LEMMA SumsExist ==
  ASSUME NEW S, IsFiniteSet(S), NEW f \in [S -> Int], NEW n \in Nat
  PROVE  \E g : Sums(f, g, n)
<1> DEFINE T == {k \in Nat : ~\E g : Sums(f, g, k)}
<1> SUFFICES ASSUME T # {} PROVE FALSE
  OBVIOUS
<1>1. PICK k \in T : \A j \in T : k <= j
  <2>1. T \subseteq Nat
    OBVIOUS
  <2> HIDE DEF T
  <2> QED BY <2>1, LeastNat
<1>2. k \in Nat /\ ~\E g : Sums(f, g, k)
  OBVIOUS
<1>3. k # 0
  BY <1>2, SumsBegin
<1>4. k - 1 \in Nat /\ k - 1 \notin T
  BY <1>1, <1>2, <1>3
<1>5. PICK g : Sums(f, g, k - 1)
  BY <1>4
<1>6. \E h : Sums(f, h, (k - 1) + 1)
  BY <1>4, <1>5, SumsGrow
<1> QED BY <1>2, <1>6

\* What holds of the empty set, and of a set once it holds of it without an
\* element, holds of every subset of a finite set.
LEMMA OneByOne ==
  ASSUME NEW S, IsFiniteSet(S), NEW Good, {} \in Good,
         \A s \in SUBSET S : s # {} /\ s \ {Picked(s)} \in Good => s \in Good
  PROVE  \A s \in SUBSET S : s \in Good
<1> DEFINE T == {Cardinality(s) : s \in {x \in SUBSET S : x \notin Good}}
<1> SUFFICES ASSUME T # {} PROVE FALSE
  OBVIOUS
<1>1. T \subseteq Nat
  BY FS_Subset, FS_CardinalityType
<1>2. PICK k \in T : \A j \in T : k <= j
  <2> HIDE DEF T
  <2> QED BY <1>1, LeastNat
<1>3. PICK s \in SUBSET S : s \notin Good /\ k = Cardinality(s)
  OBVIOUS
<1>4. s # {}
  BY <1>3
<1>5. /\ s \ {Picked(s)} \in SUBSET S /\ k \in Nat
      /\ Cardinality(s \ {Picked(s)}) = k - 1
  BY <1>3, <1>4, PickedIs
<1>6. s \ {Picked(s)} \in Good
  <2>1. CASE s \ {Picked(s)} \notin Good
    <3>1. k - 1 \in T
      BY <1>5, <2>1
    <3> HIDE DEF T
    <3> QED BY <1>2, <1>5, <3>1
  <2> QED BY <2>1
<1> QED BY <1>3, <1>4, <1>6

\* The sum of f, with the sums over the subsets it is made of.
LEMMA SumRecurs ==
  ASSUME NEW S, IsFiniteSet(S), NEW f \in [S -> Int]
  PROVE  \E g \in [SUBSET S -> Int] : SumFunction(f) = g[S] /\ g = Summed(f, g)
<1>1. Cardinality(S) \in Nat /\ Upto(S, Cardinality(S)) = SUBSET S
  BY FS_CardinalityType, FS_Subset DEF Upto
<1>2. DOMAIN f = S
  OBVIOUS
<1>3. PICK e : Sums(f, e, Cardinality(S))
  BY <1>1, SumsExist
<1>4. e \in [SUBSET S -> Int]
  BY <1>1, <1>2, <1>3 DEF Sums
<1>5. \A s \in SUBSET S : e[s] = IF s = {} THEN 0 ELSE f[Picked(s)] + e[s \ {Picked(s)}]
  BY <1>1, <1>2, <1>3 DEF Sums
<1>6. e = Summed(f, e)
  BY <1>2, <1>4, <1>5 DEF Summed
<1> DEFINE g == CHOOSE x : x = Summed(f, x)
<1>7. g = Summed(f, g)
  BY <1>6
<1>8. SumFunction(f) = g[S]
  BY <1>2, SumUnfolds
<1> HIDE DEF g
<1>9. /\ g = [s \in SUBSET S |-> g[s]]
      /\ \A s \in SUBSET S : g[s] = IF s = {} THEN 0 ELSE f[Picked(s)] + g[s \ {Picked(s)}]
  BY <1>2, <1>7 DEF Summed
<1> DEFINE Good == {s \in SUBSET S : g[s] \in Int}
<1>10. {} \in Good
  <2>1. {} \in SUBSET S
    OBVIOUS
  <2>2. g[{}] = 0
    BY <1>9, <2>1, Zenon
  <2> QED BY <2>1, <2>2
<1>11. ASSUME NEW s \in SUBSET S, s # {}, s \ {Picked(s)} \in Good PROVE s \in Good
  <2>1. Picked(s) \in S
    BY <1>11, PickedIs
  <2>2. g[s] = f[Picked(s)] + g[s \ {Picked(s)}] /\ g[s \ {Picked(s)}] \in Int
    BY <1>9, <1>11
  <2> QED BY <2>1, <2>2
<1>12. \A s \in SUBSET S : s \in Good
  <2> HIDE DEF Good
  <2> QED BY <1>10, <1>11, OneByOne
<1> QED BY <1>7, <1>8, <1>9, <1>12

\* A sum of greater numbers is greater.
LEMMA SumGrows ==
  ASSUME NEW S, IsFiniteSet(S), NEW f \in [S -> Int], NEW h \in [S -> Int],
         \A x \in S : f[x] <= h[x]
  PROVE  /\ SumFunction(f) \in Int /\ SumFunction(h) \in Int
         /\ SumFunction(f) <= SumFunction(h)
<1>1. PICK g1 \in [SUBSET S -> Int] : SumFunction(f) = g1[S] /\ g1 = Summed(f, g1)
  BY SumRecurs
<1>2. PICK g2 \in [SUBSET S -> Int] : SumFunction(h) = g2[S] /\ g2 = Summed(h, g2)
  BY SumRecurs
<1>3. \A s \in SUBSET S : /\ g1[s] = IF s = {} THEN 0 ELSE f[Picked(s)] + g1[s \ {Picked(s)}]
                          /\ g2[s] = IF s = {} THEN 0 ELSE h[Picked(s)] + g2[s \ {Picked(s)}]
  BY <1>1, <1>2 DEF Summed
<1> DEFINE Good == {s \in SUBSET S : g1[s] <= g2[s]}
<1>4. {} \in Good
  <2>1. {} \in SUBSET S
    OBVIOUS
  <2>2. g1[{}] = 0 /\ g2[{}] = 0
    BY <1>3, <2>1, Zenon
  <2> QED BY <2>1, <2>2
<1>5. ASSUME NEW s \in SUBSET S, s # {}, s \ {Picked(s)} \in Good PROVE s \in Good
  <2>1. Picked(s) \in S
    BY <1>5, PickedIs
  <2> QED BY <1>3, <1>5, <2>1
<1>6. \A s \in SUBSET S : s \in Good
  <2> HIDE DEF Good
  <2> QED BY <1>4, <1>5, OneByOne
<1> QED BY <1>1, <1>2, <1>6

\* The sum of two functions is the sum of their sums.
LEMMA SumAdds ==
  ASSUME NEW S, IsFiniteSet(S), NEW f \in [S -> Int], NEW h \in [S -> Int]
  PROVE  SumFunction([x \in S |-> f[x] + h[x]])
            = SumFunction(f) + SumFunction(h)
<1> DEFINE t == [x \in S |-> f[x] + h[x]]
<1>0. t \in [S -> Int] /\ \A x \in S : t[x] = f[x] + h[x]
  OBVIOUS
<1> HIDE DEF t
<1>1. PICK g1 \in [SUBSET S -> Int] : SumFunction(f) = g1[S] /\ g1 = Summed(f, g1)
  BY SumRecurs
<1>2. PICK g2 \in [SUBSET S -> Int] : SumFunction(h) = g2[S] /\ g2 = Summed(h, g2)
  BY SumRecurs
<1>3. PICK g3 \in [SUBSET S -> Int] : SumFunction(t) = g3[S] /\ g3 = Summed(t, g3)
  BY <1>0, SumRecurs
<1>4. \A s \in SUBSET S : /\ g1[s] = IF s = {} THEN 0 ELSE f[Picked(s)] + g1[s \ {Picked(s)}]
                          /\ g2[s] = IF s = {} THEN 0 ELSE h[Picked(s)] + g2[s \ {Picked(s)}]
                          /\ g3[s] = IF s = {} THEN 0 ELSE t[Picked(s)] + g3[s \ {Picked(s)}]
  BY <1>0, <1>1, <1>2, <1>3 DEF Summed
<1> DEFINE Good == {s \in SUBSET S : g3[s] = g1[s] + g2[s]}
<1>5. {} \in Good
  <2>1. {} \in SUBSET S
    OBVIOUS
  <2>2. g1[{}] = 0 /\ g2[{}] = 0 /\ g3[{}] = 0
    BY <1>4, <2>1, Zenon
  <2> QED BY <2>1, <2>2
<1>6. ASSUME NEW s \in SUBSET S, s # {}, s \ {Picked(s)} \in Good PROVE s \in Good
  <2>1. Picked(s) \in S
    BY <1>6, PickedIs
  <2> QED BY <1>0, <1>4, <1>6, <2>1
<1>7. \A s \in SUBSET S : s \in Good
  <2> HIDE DEF Good
  <2> QED BY <1>5, <1>6, OneByOne
<1> QED BY <1>1, <1>2, <1>3, <1>7 DEF t

----------------------------------------------------------------------------
(* The figures of the days that are over. *)

\* What a page shows of a day that was over is made of what each ride gave it
\* then, low, and of what the transactions then open had to add, more: a ride
\* gives it no less and no more, as it is and as a transaction has it.
Accounted(rows, drafts, p, shown) ==
    shown.at >= (p[1] + 1) * DayLength =>
        \E low, more \in [Rides -> Int] :
            /\ shown.value = SumFunction(low) /\ shown.unseen = SumFunction(more)
            /\ \A r \in Rides :
                  /\ Share(rows[r], p[1], p[2]) \in low[r]..(low[r] + more[r])
                  /\ drafts[r] # Nothing =>
                        Share(drafts[r].row, p[1], p[2]) \in low[r]..(low[r] + more[r])

\* A transaction keeps the request of a ride and the fare of a completed one.
Carries(trip, row) ==
    trip # Nothing =>
        /\ row.requested = trip.requested
        /\ trip.status = "completed" =>
              row.status = "completed" /\ row.completed = trip.completed /\ row.fare = trip.fare

\* What it adds is of this instant.
Dated(trip, row) ==
    /\ trip = Nothing => row.requested = now
    /\ row.status = "completed" => row.completed = now \/ (trip # Nothing /\ trip.status = "completed")
    /\ row.status # "completed" => row.completed = IF trip = Nothing THEN Nothing ELSE trip.completed

\* Nobody rates a ride before its end, and it ends with the driver it had.
Driving(trip, row) ==
    IF trip = Nothing THEN row.stars = 0 /\ row.status \in Active
    ELSE /\ trip.status # "completed" => row.stars = trip.stars
         /\ row.status # trip.status => trip.status \in Active
         /\ row.status \in EligibleStatuses => row.driver = trip.driver

PagesInv ==
    /\ pages = [p \in Days \X Metrics |-> pages[p]]
    /\ \A r \in Rides : written[r] # Nothing => Carries(rides[r], written[r].row)
    /\ \A p \in Days \X Metrics : pages[p] # Nothing =>
          /\ pages[p].shown.at \in Nat /\ pages[p].shown.at <= now
          /\ Accounted(rides, written, p, pages[p].shown)
    /\ \/ reader = Idle
       \/ /\ reader.step = "store" /\ reader.page \in Days \X Metrics
          /\ reader.shown.at \in Nat /\ reader.shown.at <= now
          /\ Accounted(rides, written, reader.page, reader.shown)

LEMMA PagesInit == FiguresInit => PagesInv
BY DEF FiguresInit, PagesInv

\* An instant after the end of a day is of another day.
LEMMA LaterDay ==
  ASSUME NEW t \in Nat, NEW day \in Nat, t >= (day + 1) * DayLength
  PROVE  Day(t) # day
<1>1. DayLength \in Nat \ {0}
  BY FiguresAssumption
<1> DEFINE q == t \div DayLength
           m == t % DayLength
<1>2. q \in Nat /\ m \in Nat /\ t = DayLength * q + m /\ m < DayLength
  BY <1>1
<1> HIDE DEF q, m
<1>3. ASSUME q = day PROVE FALSE
  <2>1. (day + 1) * DayLength = DayLength * day + DayLength /\ DayLength * day \in Nat
    BY <1>1
  <2> QED BY <1>1, <1>2, <1>3, <2>1
<1> QED BY <1>3 DEF q, Day

\* What a transaction writes changes no figure of a day that is over.
LEMMA OverIsOver ==
  ASSUME now \in Nat, NEW trip, NEW row, row # Nothing, Carries(trip, row), Dated(trip, row),
         NEW day \in Nat, NEW metric \in Metrics, now >= (day + 1) * DayLength
  PROVE  Share(row, day, metric) = Share(trip, day, metric)
<1>1. Day(now) # day
  BY LaterDay
<1>2. CASE metric = "rides_requested"
  BY <1>1, <1>2 DEF Share, DayOf, Carries, Dated
<1>3. CASE metric = "completed_fare_total_xof"
  BY <1>1, <1>3 DEF Share, DayOf, Carries, Dated
<1> QED BY <1>2, <1>3 DEF Metrics

\* It never takes anything from one.
LEMMA SharesRise ==
  ASSUME NEW trip \in RideRows \cup {Nothing}, NEW row \in RideRows,
         Carries(trip, row), NEW day, NEW metric \in Metrics
  PROVE  /\ Share(row, day, metric) \in Nat /\ Share(trip, day, metric) \in Nat
         /\ Share(trip, day, metric) <= Share(row, day, metric)
<1>1. row # Nothing /\ row.fare \in Nat /\ (trip # Nothing => trip.fare \in Nat)
  BY FiguresAssumption DEF RideRows
<1>2. CASE metric = "rides_requested"
  BY <1>1, <1>2 DEF Share, DayOf, Carries
<1>3. CASE metric = "completed_fare_total_xof"
  BY <1>1, <1>3 DEF Share, DayOf, Carries
<1> QED BY <1>2, <1>3 DEF Metrics

\* What is accounted for stays so while rides and transactions stay.
LEMMA PagesFrame ==
  ASSUME now \in Nat, PagesInv, UNCHANGED <<rides, written, pages, reader>>, now' \in Nat, now' >= now
  PROVE  PagesInv'
<1>1. ASSUME NEW p \in Days \X Metrics, pages'[p] # Nothing
      PROVE  /\ pages'[p].shown.at \in Nat /\ pages'[p].shown.at <= now'
             /\ Accounted(rides', written', p, pages'[p].shown)
  BY <1>1 DEF PagesInv
<1> QED BY <1>1 DEF PagesInv, Idle

\* A transaction commits, aborts or writes: each ride gives what it gave, or
\* what the transaction open on it would have made it give.
LEMMA AccountedStays ==
  ASSUME now \in Nat, NEW p \in Days \X Metrics, NEW shown,
         shown.at \in Nat, shown.at <= now, Accounted(rides, written, p, shown),
         \A r \in Rides :
            /\ rides'[r] = rides[r] \/ (written[r] # Nothing /\ rides'[r] = written[r].row)
            /\ \/ written'[r] = Nothing \/ written'[r] = written[r]
               \/ /\ written'[r].row # Nothing
                  /\ Carries(rides[r], written'[r].row) /\ Dated(rides[r], written'[r].row)
  PROVE  Accounted(rides', written', p, shown)
<1> SUFFICES ASSUME shown.at >= (p[1] + 1) * DayLength
             PROVE  \E low, more \in [Rides -> Int] :
                      /\ shown.value = SumFunction(low)
                      /\ shown.unseen = SumFunction(more)
                      /\ \A r \in Rides :
                            /\ Share(rides'[r], p[1], p[2]) \in low[r]..(low[r] + more[r])
                            /\ written'[r] # Nothing =>
                                  Share(written'[r].row, p[1], p[2]) \in low[r]..(low[r] + more[r])
  BY DEF Accounted
<1>1. PICK low \in [Rides -> Int], more \in [Rides -> Int] :
         /\ shown.value = SumFunction(low) /\ shown.unseen = SumFunction(more)
         /\ \A r \in Rides :
               /\ Share(rides[r], p[1], p[2]) \in low[r]..(low[r] + more[r])
               /\ written[r] # Nothing =>
                     Share(written[r].row, p[1], p[2]) \in low[r]..(low[r] + more[r])
  BY DEF Accounted
<1>2. p[1] \in Nat /\ p[2] \in Metrics /\ DayLength \in Nat
  BY FiguresAssumption DEF Days
<1>3. now >= (p[1] + 1) * DayLength
  <2> DEFINE e == (p[1] + 1) * DayLength
  <2>1. e \in Nat /\ shown.at >= e
    BY <1>2
  <2> HIDE DEF e
  <2>2. now >= e
    BY <2>1
  <2> QED BY <2>2 DEF e
<1>4. ASSUME NEW r \in Rides
      PROVE  /\ Share(rides'[r], p[1], p[2]) \in low[r]..(low[r] + more[r])
             /\ written'[r] # Nothing =>
                   Share(written'[r].row, p[1], p[2]) \in low[r]..(low[r] + more[r])
  <2>1. Share(rides'[r], p[1], p[2]) \in low[r]..(low[r] + more[r])
    BY <1>1
  <2>2. ASSUME written'[r].row # Nothing, Carries(rides[r], written'[r].row), Dated(rides[r], written'[r].row)
        PROVE  Share(written'[r].row, p[1], p[2]) = Share(rides[r], p[1], p[2])
    BY <1>2, <1>3, <2>2, OverIsOver
  <2>3. written'[r] # Nothing =>
           Share(written'[r].row, p[1], p[2]) \in low[r]..(low[r] + more[r])
    BY <1>1, <2>2
  <2> QED BY <2>1, <2>3
<1> QED BY <1>1, <1>4

LEMMA PagesRides ==
  ASSUME now \in Nat, PagesInv, UNCHANGED <<now, pages, reader>>,
         \A r \in Rides :
            /\ rides'[r] = rides[r] \/ (written[r] # Nothing /\ rides'[r] = written[r].row)
            /\ \/ written'[r] = Nothing \/ (written'[r] = written[r] /\ rides'[r] = rides[r])
               \/ /\ written'[r].row # Nothing /\ rides'[r] = rides[r]
                  /\ Carries(rides[r], written'[r].row) /\ Dated(rides[r], written'[r].row)
  PROVE  PagesInv'
<1>1. ASSUME NEW r \in Rides, written'[r] # Nothing PROVE Carries(rides'[r], written'[r].row)
  BY <1>1 DEF PagesInv
<1>2. ASSUME NEW p \in Days \X Metrics, pages[p] # Nothing
      PROVE  Accounted(rides', written', p, pages[p].shown)
  BY <1>2, AccountedStays DEF PagesInv
<1>3. ASSUME reader # Idle PROVE Accounted(rides', written', reader.page, reader.shown)
  BY <1>3, AccountedStays DEF PagesInv
<1>4. pages' = pages /\ reader' = reader /\ now' = now
  OBVIOUS
<1>5. ASSUME NEW p \in Days \X Metrics, pages'[p] # Nothing
      PROVE  /\ pages'[p].shown.at \in Nat /\ pages'[p].shown.at <= now'
             /\ Accounted(rides', written', p, pages'[p].shown)
  BY <1>2, <1>4, <1>5 DEF PagesInv
<1> QED BY <1>1, <1>3, <1>4, <1>5 DEF PagesInv, Idle

LEMMA PagesTick ==
  ASSUME FiguresInv, PagesInv, Tick
  PROVE  PagesInv'
<1>1. /\ now \in Nat /\ now' = now + 1 /\ UNCHANGED <<rides, written, reader>>
      /\ pages' = [p \in Days \X Metrics |-> pages'[p]]
      /\ \A p \in Days \X Metrics : pages'[p] = Nothing \/ pages'[p] = pages[p]
  BY DEF Tick, FiguresInv, PagesInv
<1>2. ASSUME NEW p \in Days \X Metrics, pages'[p] # Nothing
      PROVE  /\ pages'[p].shown.at \in Nat /\ pages'[p].shown.at <= now'
             /\ Accounted(rides', written', p, pages'[p].shown)
  BY <1>1, <1>2 DEF PagesInv
<1> QED BY <1>1, <1>2 DEF PagesInv, Idle

LEMMA PagesCommit ==
  ASSUME FiguresInv, PagesInv, NEW r \in Rides, CommitRow(r) \/ AbortRow(r)
  PROVE  PagesInv'
<1>1. /\ now \in Nat /\ UNCHANGED <<now, pages, reader>> /\ written'[r] = Nothing
      /\ rides'[r] = rides[r] \/ (written[r] # Nothing /\ rides'[r] = written[r].row)
      /\ \A u \in Rides \ {r} : rides'[u] = rides[u] /\ written'[u] = written[u]
  BY DEF CommitRow, AbortRow, FiguresInv
<1> QED BY <1>1, PagesRides

LEMMA PagesWrite ==
  ASSUME FiguresInv, FiguresInv', PagesInv, NEW r \in Rides, NEW row, NEW told,
         Write(r, row, told), Carries(rides[r], row), Dated(rides[r], row)
  PROVE  PagesInv'
<1>1. /\ now \in Nat /\ UNCHANGED <<now, rides, pages, reader>>
      /\ written'[r] = [row |-> row, event |-> told]
      /\ \A u \in Rides \ {r} : written'[u] = written[u]
  BY DEF Write, FiguresInv
<1>2. written'[r].row = row
  BY <1>1
<1>3. written'[r] = Nothing \/ written'[r].row # Nothing
  BY FiguresAssumption DEF FiguresInv, Drafts
<1> QED BY <1>1, <1>2, <1>3, PagesRides

\* A handler of r writes.
Records(r) ==
    \E row, told : /\ Write(r, row, told) /\ Carries(rides[r], row)
                   /\ Dated(rides[r], row) /\ Driving(rides[r], row)

\* A handler that finds a ride carries its past, and is dated of this instant.
LEMMA FindsAndRecords ==
  ASSUME NEW r \in Rides, NEW found, Loads(r, found), NEW row, NEW told,
         Write(r, row, told), row.requested = rides[r].requested,
         \/ /\ rides[r].status \in Active /\ row.status # "completed"
            /\ row.completed = rides[r].completed /\ row.stars = rides[r].stars
            /\ row.status = "arrived" \/ row.driver = rides[r].driver
         \/ /\ rides[r].status \in Active /\ row.status = "completed" /\ row.completed = now
            /\ row.stars = rides[r].stars /\ row.driver = rides[r].driver
         \/ /\ rides[r].status = "completed" /\ row.status = "completed"
            /\ row.completed = rides[r].completed /\ row.fare = rides[r].fare
            /\ row.driver = rides[r].driver
  PROVE  Records(r)
<1>1. Carries(rides[r], row) /\ Dated(rides[r], row) /\ Driving(rides[r], row)
  BY DEF Loads, Carries, Dated, Driving, Active, EligibleStatuses
<1> QED BY <1>1 DEF Records

LEMMA HandlersRecord ==
  ASSUME FiguresInv, NEW r \in Rides, Handle(r),
         ~CommitRow(r), ~AbortRow(r)
  PROVE  Records(r)
<1>1. ASSUME NEW q \in Quotes, RequestRide(r, q) PROVE Records(r)
  BY <1>1 DEF RequestRide, Carries, Dated, Driving, Active, Records
<1>2. ASSUME NEW d \in Drivers, Arrive(r, d) PROVE Records(r)
  <2> DEFINE row == [rides[r] EXCEPT !.status = "arrived", !.driver = d]
  <2>1. Loads(r, {"requested"}) /\ Write(r, row, "none")
    BY <1>2 DEF Arrive
  <2>2. rides[r] \in RideRows /\ rides[r].status = "requested"
    BY <2>1, Loaded
  <2>3. /\ row.status = "arrived" /\ row.requested = rides[r].requested
        /\ row.completed = rides[r].completed /\ row.stars = rides[r].stars
    BY <2>2 DEF RideRows
  <2> HIDE DEF row
  <2> QED BY <2>1, <2>2, <2>3, FindsAndRecords DEF Active
<1>3. ASSUME NEW seconds \in ArrivalWaits, Start(r, seconds) PROVE Records(r)
  <2> DEFINE row == [rides[r] EXCEPT !.status = "in_progress", !.preRide = PreRideFee(seconds)]
  <2>1. Loads(r, {"arrived"}) /\ Write(r, row, "none")
    BY <1>3 DEF Start
  <2>2. rides[r] \in RideRows /\ rides[r].status = "arrived"
    BY <2>1, Loaded
  <2>3. /\ row.status = "in_progress" /\ row.requested = rides[r].requested
        /\ row.completed = rides[r].completed /\ row.stars = rides[r].stars
        /\ row.driver = rides[r].driver
    BY <2>2 DEF RideRows
  <2> HIDE DEF row
  <2> QED BY <2>1, <2>2, <2>3, FindsAndRecords DEF Active
<1>4. ASSUME NEW amount \in Extras, AddExtra(r, amount) PROVE Records(r)
  <2> DEFINE row == [rides[r] EXCEPT !.extras = rides[r].extras + amount]
  <2>1. Loads(r, {"in_progress"}) /\ Write(r, row, "none")
    BY <1>4 DEF AddExtra
  <2>2. rides[r] \in RideRows /\ rides[r].status = "in_progress"
    BY <2>1, Loaded
  <2>3. /\ row.status = "in_progress" /\ row.requested = rides[r].requested
        /\ row.completed = rides[r].completed /\ row.stars = rides[r].stars
        /\ row.driver = rides[r].driver
    BY <2>2 DEF RideRows
  <2> HIDE DEF row
  <2> QED BY <2>1, <2>2, <2>3, FindsAndRecords DEF Active
<1>5. ASSUME NoShow(r) PROVE Records(r)
  <2> DEFINE row == [rides[r] EXCEPT !.status = "cancelled_by_driver", !.noShow = TRUE]
  <2>1. Loads(r, {"arrived"}) /\ Write(r, row, "none")
    BY <1>5 DEF NoShow
  <2>2. rides[r] \in RideRows /\ rides[r].status = "arrived"
    BY <2>1, Loaded
  <2>3. /\ row.status = "cancelled_by_driver" /\ row.requested = rides[r].requested
        /\ row.completed = rides[r].completed /\ row.stars = rides[r].stars
        /\ row.driver = rides[r].driver
    BY <2>2 DEF RideRows
  <2> HIDE DEF row
  <2> QED BY <2>1, <2>2, <2>3, FindsAndRecords DEF Active
<1>6. ASSUME NEW measured, Complete(r, measured) PROVE Records(r)
  <2> DEFINE row == BilledTotal(rides[r], CompletionFare(rides[r], measured))
  <2>1. Loads(r, {"in_progress"}) /\ Write(r, row, "ride_completed")
    BY <1>6 DEF Complete
  <2>2. rides[r] \in RideRows /\ rides[r].status = "in_progress"
    BY <2>1, Loaded
  <2>3. /\ row.completed = now /\ row.requested = rides[r].requested /\ row.status = "completed"
        /\ row.stars = rides[r].stars /\ row.driver = rides[r].driver
    BY <2>2 DEF BilledTotal, Ended, RideRows
  <2> HIDE DEF row
  <2> QED BY <2>1, <2>2, <2>3, FindsAndRecords DEF Active
<1>7. ASSUME NEW measured \in Driven, ConfirmEarlyStop(r, measured) PROVE Records(r)
  <2> DEFINE fare == EarlyStopFare(Locked(rides[r]), measured[1], measured[2])
             row == [BilledTotal(rides[r], fare) EXCEPT !.measured = measured, !.early = TRUE]
  <2>1. Loads(r, {"in_progress"}) /\ Write(r, row, "ride_completed")
    BY <1>7 DEF ConfirmEarlyStop
  <2>2. rides[r] \in RideRows /\ rides[r].status = "in_progress"
    BY <2>1, Loaded
  <2> HIDE DEF fare
  <2>3. /\ row.completed = now /\ row.requested = rides[r].requested /\ row.status = "completed"
        /\ row.stars = rides[r].stars /\ row.driver = rides[r].driver
    BY <2>2 DEF BilledTotal, Ended, RideRows
  <2> HIDE DEF row
  <2> QED BY <2>1, <2>2, <2>3, FindsAndRecords DEF Active
<1>8. ASSUME NEW over \in CancelledStatuses, Cancel(r, over) PROVE Records(r)
  <2> DEFINE row == [rides[r] EXCEPT !.status = over, !.asked = Nothing]
  <2>1. /\ Loads(r, Active)
        /\ Write(r, row, CancelOutcome(over, rides[r].driver))
    BY <1>8 DEF Cancel, Ended
  <2>2. rides[r] \in RideRows /\ rides[r].status \in Active
    BY <2>1, Loaded
  <2>3. /\ row.status = over /\ row.requested = rides[r].requested
        /\ row.completed = rides[r].completed /\ row.stars = rides[r].stars
        /\ row.driver = rides[r].driver
    BY <2>2 DEF RideRows
  <2> HIDE DEF row
  <2>4. row.status # "completed"
    BY <2>3 DEF CancelledStatuses
  <2> QED BY <2>1, <2>2, <2>3, <2>4, FindsAndRecords
<1>10. ASSUME NEW way \in Driven, AskEarlyStop(r, way) PROVE Records(r)
  <2> DEFINE ask == [until |-> now + EarlyStopTtl, way |-> way, extras |-> rides[r].extras,
                     told |-> Provisional(rides[r], way)]
             row == [rides[r] EXCEPT !.asked = ask]
  <2>1. Loads(r, {"in_progress"}) /\ Write(r, row, "none")
    BY <1>10 DEF AskEarlyStop
  <2>2. rides[r] \in RideRows /\ rides[r].status = "in_progress"
    BY <2>1, Loaded
  <2> HIDE DEF ask
  <2>3. /\ row.status = "in_progress" /\ row.requested = rides[r].requested
        /\ row.completed = rides[r].completed /\ row.stars = rides[r].stars
        /\ row.driver = rides[r].driver
    BY <2>2 DEF RideRows
  <2> HIDE DEF row
  <2> QED BY <2>1, <2>2, <2>3, FindsAndRecords DEF Active
<1>9. ASSUME NEW stars \in Stars, Rate(r, stars) PROVE Records(r)
  <2> DEFINE row == [rides[r] EXCEPT !.stars = stars]
  <2>1. Loads(r, {"completed"}) /\ Write(r, row, "none")
    BY <1>9 DEF Rate
  <2>2. rides[r] \in RideRows /\ rides[r].status = "completed"
    BY <2>1, Loaded
  <2>3. /\ row.completed = rides[r].completed /\ row.fare = rides[r].fare
        /\ row.status = rides[r].status /\ row.requested = rides[r].requested
        /\ row.driver = rides[r].driver
    BY <2>2 DEF RideRows
  <2> HIDE DEF row
  <2> QED BY <2>1, <2>2, <2>3, FindsAndRecords
<1> QED BY <1>1, <1>2, <1>3, <1>4, <1>5, <1>6, <1>7, <1>8, <1>9, <1>10 DEF Handle

LEMMA PagesCalculate ==
  ASSUME FiguresInv, PagesInv, NEW day \in Days, NEW metric \in Metrics,
         Calculate(day, metric)
  PROVE  PagesInv'
<1> DEFINE p == <<day, metric>>
           low == [r \in Rides |-> Share(rides[r], day, metric)]
           more == [r \in Rides |-> IF written[r] = Nothing THEN 0
                                    ELSE Share(written[r].row, day, metric)
                                            - Share(rides[r], day, metric)]
           shown == [value |-> Aggregate(day, metric), at |-> now,
                     unseen |-> Unseen(day, metric)]
<1>1. /\ UNCHANGED <<now, rides, written, pages>>
      /\ reader' = [step |-> "store", page |-> p, shown |-> shown]
  BY DEF Calculate
<1>2. shown.value = SumFunction(low) /\ shown.unseen = SumFunction(more) /\ shown.at = now
  BY DEF Aggregate, Unseen
<1>3. p \in Days \X Metrics /\ p[1] = day /\ p[2] = metric /\ now \in Nat
  BY DEF FiguresInv
<1>4. ASSUME NEW r \in Rides
      PROVE  /\ low[r] = Share(rides[r], day, metric) /\ low[r] \in Int /\ more[r] \in Nat
             /\ written[r] # Nothing =>
                   Share(written[r].row, day, metric) = low[r] + more[r]
  <2>1. CASE written[r] = Nothing
    <3>1. Share(rides[r], day, metric) \in Nat
      BY DEF Share, FiguresInv, RideRows
    <3> QED BY <2>1, <3>1
  <2>2. CASE written[r] # Nothing
    <3>1. /\ rides[r] \in RideRows \cup {Nothing} /\ written[r].row \in RideRows
          /\ Carries(rides[r], written[r].row)
      BY <2>2 DEF FiguresInv, PagesInv, Drafts
    <3>2. /\ Share(written[r].row, day, metric) \in Nat
          /\ Share(rides[r], day, metric) \in Nat
          /\ Share(rides[r], day, metric) <= Share(written[r].row, day, metric)
      BY <3>1, SharesRise
    <3> QED BY <2>2, <3>2
  <2> QED BY <2>1, <2>2
<1>5. low \in [Rides -> Int] /\ more \in [Rides -> Int]
  <2>1. \A r \in Rides : low[r] \in Int /\ more[r] \in Int
    BY <1>4
  <2> QED BY <2>1
<1> HIDE DEF low, more, shown, p
<1>6. \A r \in Rides :
         /\ Share(rides[r], day, metric) \in low[r]..(low[r] + more[r])
         /\ written[r] # Nothing =>
               Share(written[r].row, day, metric) \in low[r]..(low[r] + more[r])
  BY <1>4
<1>7. Accounted(rides, written, p, shown)
  BY <1>2, <1>3, <1>5, <1>6 DEF Accounted
<1>8. reader'.step = "store" /\ reader'.page = p /\ reader'.shown = shown
  BY <1>1
<1>9. ASSUME NEW u \in Days \X Metrics, pages'[u] # Nothing
      PROVE  /\ pages'[u].shown.at \in Nat /\ pages'[u].shown.at <= now'
             /\ Accounted(rides', written', u, pages'[u].shown)
  BY <1>1, <1>9 DEF PagesInv
<1>10. /\ reader'.shown.at \in Nat /\ reader'.shown.at <= now'
       /\ Accounted(rides', written', reader'.page, reader'.shown)
  BY <1>1, <1>2, <1>3, <1>7, <1>8
<1> QED BY <1>1, <1>3, <1>8, <1>9, <1>10 DEF PagesInv

LEMMA PagesStore ==
  ASSUME FiguresInv, PagesInv, Store
  PROVE  PagesInv'
<1>1. PICK until :
         /\ UNCHANGED <<now, rides, written>> /\ reader' = Idle
         /\ \/ pages' = [pages EXCEPT ![reader.page] = [shown |-> reader.shown, until |-> until]]
            \/ UNCHANGED pages
  BY DEF Store
<1>2. /\ reader.page \in Days \X Metrics
      /\ reader.shown.at \in Nat /\ reader.shown.at <= now
      /\ Accounted(rides, written, reader.page, reader.shown)
  BY DEF PagesInv, Store, Idle
<1>3. pages' = [p \in Days \X Metrics |-> pages'[p]]
  BY <1>1, <1>2 DEF PagesInv
<1>4. \A p \in Days \X Metrics :
         pages'[p] = pages[p] \/ (p = reader.page /\ pages'[p].shown = reader.shown)
  <2> DEFINE new == [shown |-> reader.shown, until |-> until]
  <2>1. new.shown = reader.shown
    OBVIOUS
  <2>2. pages' = [pages EXCEPT ![reader.page] = new] \/ UNCHANGED pages
    BY <1>1
  <2> HIDE DEF new
  <2>3. pages = [p \in Days \X Metrics |-> pages[p]]
    BY DEF PagesInv
  <2> QED BY <1>2, <2>1, <2>2, <2>3
<1>5. ASSUME NEW p \in Days \X Metrics, pages'[p] # Nothing
      PROVE  /\ pages'[p].shown.at \in Nat /\ pages'[p].shown.at <= now'
             /\ Accounted(rides', written', p, pages'[p].shown)
  BY <1>1, <1>2, <1>4, <1>5 DEF PagesInv
<1> QED BY <1>1, <1>3, <1>5 DEF PagesInv, Idle

LEMMA PagesNext ==
  FiguresInv /\ FiguresInv' /\ PagesInv /\ [FiguresNext]_figureVars => PagesInv'
<1> SUFFICES ASSUME FiguresInv, FiguresInv', PagesInv, [FiguresNext]_figureVars
             PROVE  PagesInv'
  OBVIOUS
<1>0. now \in Nat
  BY DEF FiguresInv
<1>1. CASE UNCHANGED figureVars
  BY <1>0, <1>1, PagesFrame DEF figureVars
<1>2. ASSUME NEW r \in Rides, Handle(r) PROVE PagesInv'
  <2>1. CASE CommitRow(r) \/ AbortRow(r)
    BY <2>1, PagesCommit
  <2>2. CASE ~CommitRow(r) /\ ~AbortRow(r)
    <3>1. Records(r)
      BY <1>2, <2>2, HandlersRecord
    <3> QED BY <3>1, PagesWrite DEF Records
  <2> QED BY <2>1, <2>2
<1>3. ASSUME NEW q \in Quotes, NEW offer \in Offers, CreateQuote(q, offer)
      PROVE  PagesInv'
  BY <1>0, <1>3, PagesFrame DEF CreateQuote
<1>4. ASSUME NEW figure \in Figures, Calculate(figure[1], figure[2]) PROVE PagesInv'
  <2>1. figure[1] \in Days /\ figure[2] \in Metrics
    BY FiguresAssumption
  <2> QED BY <1>4, <2>1, PagesCalculate
<1> QED BY <1>1, <1>2, <1>3, <1>4, PagesTick, PagesStore DEF FiguresNext

----------------------------------------------------------------------------
(* The dates and the ratings of the rides. *)

\* A completed ride, and no other, has the date of its end and may be rated.
Timed(row, t) ==
    /\ row.requested <= t
    /\ (row.completed # Nothing) <=> (row.status = "completed")
    /\ row.completed # Nothing => row.requested <= row.completed /\ row.completed <= t
    /\ row.status # "completed" => row.stars = 0

TimesInv ==
    /\ now <= MaxTime
    /\ \A r \in Rides :
          /\ rides[r] # Nothing => Timed(rides[r], now)
          /\ written[r] # Nothing => Timed(written[r].row, now) /\ Driving(rides[r], written[r].row)

LEMMA TimesInit == FiguresInit => TimesInv
BY FiguresAssumption DEF FiguresInit, TimesInv

\* Time passes, and the dates stay.
LEMMA TimedStays ==
  ASSUME NEW row \in RideRows, NEW t \in Nat, NEW u \in Nat, t <= u, Timed(row, t)
  PROVE  Timed(row, u)
<1>1. row.requested \in Nat /\ (row.completed # Nothing => row.completed \in Nat)
  BY DEF RideRows
<1> QED BY <1>1 DEF Timed

LEMMA TimesFrame ==
  ASSUME FiguresInv, TimesInv, UNCHANGED <<rides, written>>, now' \in Nat, now <= now', now' <= MaxTime
  PROVE  TimesInv'
<1>1. ASSUME NEW r \in Rides, rides[r] # Nothing PROVE Timed(rides[r], now')
  BY <1>1, TimedStays DEF FiguresInv, TimesInv
<1>2. ASSUME NEW r \in Rides, written[r] # Nothing PROVE Timed(written[r].row, now')
  BY <1>2, TimedStays DEF FiguresInv, Drafts, TimesInv
<1>3. rides' = rides /\ written' = written
  OBVIOUS
<1>4. ASSUME NEW r \in Rides, written[r] # Nothing PROVE Driving(rides[r], written[r].row)
  BY <1>4 DEF TimesInv
<1> QED BY <1>1, <1>2, <1>3, <1>4 DEF TimesInv

\* What a handler writes has its dates.
LEMMA TimedRow ==
  ASSUME FiguresInv, NEW row \in RideRows,
         NEW trip \in RideRows \cup {Nothing}, trip # Nothing => Timed(trip, now),
         Carries(trip, row), Dated(trip, row), Driving(trip, row)
  PROVE  Timed(row, now)
<1>1. /\ now \in Nat /\ row.requested \in Nat /\ Nothing \notin Nat
      /\ trip # Nothing => trip.requested \in Nat
  BY FiguresAssumption DEF FiguresInv, RideRows
<1>2. CASE trip = Nothing
  BY <1>1, <1>2 DEF Timed, Carries, Dated, Driving, Active
<1>3. CASE trip # Nothing
  BY <1>1, <1>3 DEF Timed, Carries, Dated, Driving
<1> QED BY <1>2, <1>3

LEMMA TimesRecords ==
  ASSUME FiguresInv, FiguresInv', TimesInv, NEW r \in Rides, Records(r)
  PROVE  TimesInv'
<1>1. PICK row, told : /\ Write(r, row, told) /\ Carries(rides[r], row)
                       /\ Dated(rides[r], row) /\ Driving(rides[r], row)
  BY DEF Records
<1>2. /\ UNCHANGED <<now, rides>> /\ written'[r] = [row |-> row, event |-> told]
      /\ \A u \in Rides \ {r} : written'[u] = written[u]
  BY <1>1 DEF Write, FiguresInv
<1>3. written'[r].row = row
  BY <1>2
<1>4. ASSUME written'[r] # Nothing PROVE Timed(row, now)
  <2>1. /\ row \in RideRows /\ rides[r] \in RideRows \cup {Nothing}
        /\ rides[r] # Nothing => Timed(rides[r], now)
    BY <1>3, <1>4 DEF FiguresInv, Drafts, TimesInv
  <2> QED BY <1>1, <2>1, TimedRow
<1>5. ASSUME NEW u \in Rides, written'[u] # Nothing
      PROVE  Timed(written'[u].row, now) /\ Driving(rides[u], written'[u].row)
  <2>1. CASE u = r
    BY <1>1, <1>3, <1>4, <1>5, <2>1
  <2>2. CASE u # r
    BY <1>2, <1>5, <2>2 DEF TimesInv
  <2> QED BY <2>1, <2>2
<1>6. now' = now /\ rides' = rides
  BY <1>2
<1> QED BY <1>5, <1>6 DEF TimesInv

LEMMA TimesCommit ==
  ASSUME FiguresInv, TimesInv, NEW r \in Rides, CommitRow(r) \/ AbortRow(r)
  PROVE  TimesInv'
<1>1. /\ now' = now /\ written'[r] = Nothing
      /\ rides'[r] = rides[r] \/ (written[r] # Nothing /\ rides'[r] = written[r].row)
      /\ \A u \in Rides \ {r} : rides'[u] = rides[u] /\ written'[u] = written[u]
  BY DEF CommitRow, AbortRow, FiguresInv
<1>2. ASSUME NEW u \in Rides
      PROVE  /\ rides'[u] # Nothing => Timed(rides'[u], now)
             /\ written'[u] # Nothing =>
                   Timed(written'[u].row, now) /\ Driving(rides'[u], written'[u].row)
  <2>1. CASE u = r
    BY <1>1, <2>1 DEF TimesInv
  <2>2. CASE u # r
    BY <1>1, <2>2 DEF TimesInv
  <2> QED BY <2>1, <2>2
<1> QED BY <1>1, <1>2 DEF TimesInv

LEMMA TimesNext ==
  FiguresInv /\ FiguresInv' /\ TimesInv /\ [FiguresNext]_figureVars => TimesInv'
<1> SUFFICES ASSUME FiguresInv, FiguresInv', TimesInv, [FiguresNext]_figureVars
             PROVE  TimesInv'
  OBVIOUS
<1>0. now \in Nat /\ now <= MaxTime /\ MaxTime \in Nat
  BY FiguresAssumption DEF FiguresInv, TimesInv
<1>1. CASE UNCHANGED figureVars
  BY <1>0, <1>1, TimesFrame DEF figureVars
<1>2. CASE Tick
  BY <1>0, <1>2, TimesFrame DEF Tick
<1>3. ASSUME NEW r \in Rides, Handle(r) PROVE TimesInv'
  BY <1>3, HandlersRecord, TimesRecords, TimesCommit
<1>4. ASSUME NEW q \in Quotes, NEW offer \in Offers, CreateQuote(q, offer)
      PROVE  TimesInv'
  BY <1>0, <1>4, TimesFrame DEF CreateQuote
<1>5. ASSUME NEW figure \in Figures, Calculate(figure[1], figure[2])
      PROVE  TimesInv'
  BY <1>0, <1>5, TimesFrame DEF Calculate
<1>6. CASE Store
  BY <1>0, <1>6, TimesFrame DEF Store
<1> QED BY <1>1, <1>2, <1>3, <1>4, <1>5, <1>6 DEF FiguresNext

LEMMA FiguresAll ==
  FiguresSpec => [](FiguresInv /\ PagesInv /\ TimesInv)
<1>1. FiguresInit => PagesInv /\ TimesInv
  BY PagesInit, TimesInit
<1>2. FiguresInv /\ FiguresInv' /\ PagesInv /\ [FiguresNext]_figureVars => PagesInv'
  BY PagesNext
<1>3. FiguresInv /\ FiguresInv' /\ TimesInv /\ [FiguresNext]_figureVars => TimesInv'
  BY TimesNext
<1> QED BY <1>1, <1>2, <1>3, FiguresAlways, PTL DEF FiguresSpec

\* For any rides, quotes and days, every state is made of rows of their kinds;
\* a ride has the date of its end when it is completed, after its request.
THEOREM FiguresTyping ==
  FiguresSpec => []FiguresTypeOK
<1>1. FiguresInv /\ PagesInv /\ TimesInv => FiguresTypeOK
  <2> SUFFICES ASSUME FiguresInv, PagesInv, TimesInv PROVE FiguresTypeOK
    OBVIOUS
  <2>1. now \in 0..MaxTime
    BY FiguresAssumption DEF FiguresInv, TimesInv
  <2>2. ASSUME NEW r \in Rides, rides[r] # Nothing
        PROVE  /\ (rides[r].completed # Nothing) <=> (rides[r].status = "completed")
               /\ rides[r].completed # Nothing => rides[r].completed \in rides[r].requested..now
    <3>1. /\ Timed(rides[r], now) /\ rides[r].requested \in Nat /\ now \in Nat
          /\ rides[r].completed # Nothing => rides[r].completed \in Nat
      BY <2>2 DEF FiguresInv, TimesInv, RideRows
    <3> QED BY <3>1 DEF Timed
  <2>3. ASSUME NEW p \in DOMAIN pages, pages[p] # Nothing PROVE pages[p].shown.at \in 0..now
    <3>1. now \in Nat /\ pages[p].shown.at \in Nat /\ pages[p].shown.at <= now
      BY <2>3 DEF PagesInv, FiguresInv
    <3> QED BY <3>1
  <2>4. reader.step \in {"idle", "store"}
    BY DEF PagesInv, Idle
  <2> QED BY <2>1, <2>2, <2>3, <2>4 DEF FiguresInv, FiguresTypeOK
<1> QED BY <1>1, FiguresAll, PTL

\* For any rides, days and lives of the pages, a figure calculated after the
\* end of its day stays right while it is shown.
THEOREM ShownFiguresStand ==
  FiguresSpec => []FinalFiguresStand
<1>1. FiguresInv /\ PagesInv => FinalFiguresStand
  <2> SUFFICES ASSUME FiguresInv, PagesInv PROVE FinalFiguresStand
    OBVIOUS
  <2>1. ASSUME NEW p \in Days \X Metrics, NEW shown,
               shown.at >= (p[1] + 1) * DayLength, Accounted(rides, written, p, shown)
        PROVE  Aggregate(p[1], p[2]) \in shown.value..(shown.value + shown.unseen)
    <3> DEFINE f == [r \in Rides |-> Share(rides[r], p[1], p[2])]
    <3>1. PICK low \in [Rides -> Int], more \in [Rides -> Int] :
             /\ shown.value = SumFunction(low) /\ shown.unseen = SumFunction(more)
             /\ \A r \in Rides : Share(rides[r], p[1], p[2]) \in low[r]..(low[r] + more[r])
      BY <2>1 DEF Accounted
    <3> DEFINE high == [r \in Rides |-> low[r] + more[r]]
    <3>2. IsFiniteSet(Rides)
      BY FiguresAssumption DEF IsFiniteSet, IsFiniteSet
    <3>3. /\ f \in [Rides -> Int] /\ high \in [Rides -> Int]
          /\ \A r \in Rides : low[r] <= f[r] /\ f[r] <= high[r]
      BY <3>1
    <3>4. SumFunction(high) = shown.value + shown.unseen
      BY <3>1, <3>2, SumAdds
    <3>5. Aggregate(p[1], p[2]) = SumFunction(f)
      BY DEF Aggregate
    <3> HIDE DEF f, high
    <3>6. /\ SumFunction(low) <= SumFunction(f)
          /\ SumFunction(f) <= SumFunction(high)
          /\ SumFunction(f) \in Int /\ SumFunction(low) \in Int
          /\ SumFunction(high) \in Int
      BY <3>2, <3>3, SumGrows
    <3>7. shown.unseen \in Int
      BY <3>1, <3>2, SumGrows
    <3> QED BY <3>1, <3>4, <3>5, <3>6, <3>7
  <2>2. ASSUME NEW p \in DOMAIN pages, pages[p] # Nothing,
               pages[p].shown.at >= (p[1] + 1) * DayLength
        PROVE  Aggregate(p[1], p[2])
                  \in pages[p].shown.value..(pages[p].shown.value + pages[p].shown.unseen)
    <3>1. p \in Days \X Metrics /\ Accounted(rides, written, p, pages[p].shown)
      BY <2>2 DEF PagesInv
    <3> QED BY <2>1, <2>2, <3>1
  <2>3. ASSUME reader.step = "store", reader.shown.at >= (reader.page[1] + 1) * DayLength
        PROVE  Aggregate(reader.page[1], reader.page[2])
                  \in reader.shown.value..(reader.shown.value + reader.shown.unseen)
    <3>1. /\ reader.page \in Days \X Metrics
          /\ Accounted(rides, written, reader.page, reader.shown)
      BY <2>3 DEF PagesInv, Idle
    <3> QED BY <2>1, <2>3, <3>1
  <2> QED BY <2>2, <2>3 DEF FinalFiguresStand
<1> QED BY <1>1, FiguresAll, PTL

----------------------------------------------------------------------------
(* The scores of the drivers. *)

\* Of two quotients, the greater is not rounded below the other.
LEMMA RoundsInOrder ==
  ASSUME NEW a \in Int, NEW b \in Nat \ {0}, NEW c \in Int, NEW d \in Nat \ {0}, a * d <= c * b
  PROVE  /\ NearestEven(a, b) \in Int /\ NearestEven(c, d) \in Int
         /\ NearestEven(a, b) <= NearestEven(c, d)
<1> DEFINE q1 == a \div b
           r1 == a % b
           q2 == c \div d
           r2 == c % d
<1>1. /\ q1 \in Int /\ r1 \in Nat /\ a = b * q1 + r1 /\ r1 < b
      /\ q2 \in Int /\ r2 \in Nat /\ c = d * q2 + r2 /\ r2 < d
  OBVIOUS
<1>2. /\ NearestEven(a, b) = IF 2 * r1 < b \/ (2 * r1 = b /\ q1 % 2 = 0) THEN q1 ELSE q1 + 1
      /\ NearestEven(c, d) = IF 2 * r2 < d \/ (2 * r2 = d /\ q2 % 2 = 0) THEN q2 ELSE q2 + 1
  BY DEF NearestEven
<1> HIDE DEF q1, r1, q2, r2
<1> DEFINE bd == b * d
<1>3. bd \in Nat \ {0} /\ bd * q1 + r1 * d <= bd * q2 + r2 * b
  BY <1>1
<1>4. r1 * d \in Nat /\ r2 * b \in Nat /\ r2 * b < bd
  BY <1>1
<1>5. q1 <= q2
  <2> SUFFICES ASSUME q2 + 1 <= q1 PROVE FALSE
    BY <1>1
  <2>1. bd * (q2 + 1) <= bd * q1 /\ bd * (q2 + 1) = bd * q2 + bd
    BY <1>1, <1>3
  <2> HIDE DEF bd
  <2> QED BY <1>1, <1>3, <1>4, <2>1
<1>6. CASE q1 < q2
  BY <1>1, <1>2, <1>6
<1>7. CASE q1 = q2
  <2>1. r1 * d <= r2 * b
    BY <1>1, <1>3, <1>7
  <2>2. ASSUME 2 * r1 > b PROVE 2 * r2 > d
    <3> SUFFICES ASSUME 2 * r2 <= d PROVE FALSE
      BY <1>1
    <3>1. (2 * r1) * d > b * d /\ (2 * r2) * b <= d * b
      BY <1>1, <2>2
    <3> QED BY <1>1, <2>1, <3>1
  <2>3. ASSUME 2 * r1 = b PROVE 2 * r2 >= d
    <3> SUFFICES ASSUME 2 * r2 < d PROVE FALSE
      BY <1>1
    <3>1. (2 * r1) * d = b * d /\ (2 * r2) * b < d * b
      BY <1>1, <2>3
    <3> QED BY <1>1, <2>1, <3>1
  <2> QED BY <1>1, <1>2, <1>7, <2>2, <2>3
<1> QED BY <1>1, <1>2, <1>5, <1>6, <1>7

LEMMA SameCardinality ==
  ASSUME NEW S
  PROVE  Cardinality(S) = Cardinality(S)
BY DEF Cardinality, Cardinality

\* The parts of a score: its rating stays, one more ride is completed.
LEMMA OneMoreDone ==
  ASSUME NEW p \in Int, NEW q \in Nat, NEW c \in Nat, NEW n \in Nat, c <= n
  PROVE  (p * n + q * c) * (n + 1) <= (p * (n + 1) + q * (c + 1)) * n
<1>1. (p * n + q * c) * (n + 1) = p * (n * (n + 1)) + q * (c * n) + q * c
  OBVIOUS
<1>2. (p * (n + 1) + q * (c + 1)) * n = p * (n * (n + 1)) + q * (c * n) + q * n
  OBVIOUS
<1>3. q * c <= q * n
  OBVIOUS
<1> DEFINE x == p * (n * (n + 1))
           y == q * (c * n)
           z == q * c
           w == q * n
<1>4. x \in Int /\ y \in Nat /\ z \in Nat /\ w \in Nat
  OBVIOUS
<1> HIDE DEF x, y, z, w
<1>5. x + y + z <= x + y + w
  BY <1>3, <1>4 DEF z, w
<1> QED BY <1>1, <1>2, <1>5 DEF x, y, z, w

\* One more is not.
LEMMA OneMoreLost ==
  ASSUME NEW p \in Int, NEW q \in Nat, NEW c \in Nat, NEW n \in Nat
  PROVE  (p * (n + 1) + q * c) * n <= (p * n + q * c) * (n + 1)
<1>1. (p * n + q * c) * (n + 1) = p * (n * (n + 1)) + q * (c * n) + q * c
  OBVIOUS
<1>2. (p * (n + 1) + q * c) * n = p * (n * (n + 1)) + q * (c * n)
  OBVIOUS
<1> DEFINE x == p * (n * (n + 1))
           y == q * (c * n)
           z == q * c
<1>3. x \in Int /\ y \in Nat /\ z \in Nat
  OBVIOUS
<1> HIDE DEF x, y, z
<1>4. x + y <= x + y + z
  BY <1>3
<1> QED BY <1>1, <1>2, <1>4 DEF x, y, z

\* A factor of both sides.
LEMMA WithFactor ==
  ASSUME NEW a \in Int, NEW c \in Int, NEW m \in Nat, NEW n \in Nat, NEW s \in Nat, a * n <= c * m
  PROVE  a * (s * n) <= c * (s * m)
<1>1. a * (s * n) = (a * n) * s /\ c * (s * m) = (c * m) * s
  OBVIOUS
<1>2. a * n \in Int /\ c * m \in Int
  OBVIOUS
<1> DEFINE u == a * n
           v == c * m
<1> HIDE DEF u, v
<1>3. u * s <= v * s
  BY <1>2, Scaled DEF u, v
<1> QED BY <1>1, <1>3 DEF u, v

\* What a score is the quotient of.
Weighted(s, t, n, c, k) == 10 * (7 * s * n + 10 * t * c + 5 * t * (n - k))
\* Its rounding.
Graded(a, b) == AtLeast(100, AtMost(500, NearestEven(a, b)))

LEMMA GradesInOrder ==
  ASSUME NEW a \in Int, NEW b \in Nat \ {0}, NEW c \in Int, NEW d \in Nat \ {0}, a * d <= c * b
  PROVE  Graded(a, b) <= Graded(c, d)
<1>1. /\ NearestEven(a, b) \in Int /\ NearestEven(c, d) \in Int
      /\ NearestEven(a, b) <= NearestEven(c, d)
  BY RoundsInOrder
<1> QED BY <1>1 DEF Graded, AtLeast, AtMost

LEMMA WeightedIs ==
  ASSUME NEW s \in Int, NEW t \in Nat, NEW n \in Nat, NEW c \in Nat, NEW k \in Nat, n = c + k
  PROVE  Weighted(s, t, n, c, k) = (70 * s) * n + (150 * t) * c /\ Weighted(s, t, n, c, k) \in Int
<1>1. n - k = c
  OBVIOUS
<1>2. 5 * t * (n - k) = 5 * t * c
  BY <1>1
<1>3. 10 * (7 * s * n + 10 * t * c + 5 * t * c) = (70 * s) * n + (150 * t) * c
  OBVIOUS
<1>4. (70 * s) * n + (150 * t) * c \in Int
  OBVIOUS
<1> QED BY <1>2, <1>3, <1>4 DEF Weighted

LEMMA WeightedRises ==
  ASSUME NEW s \in Int, NEW t \in Nat \ {0}, NEW n \in Nat \ {0}, NEW c \in Nat, NEW k \in Nat, n = c + k
  PROVE  /\ Graded(Weighted(s, t, n, c, k), t * n) <= Graded(Weighted(s, t, n + 1, c + 1, k), t * (n + 1))
         /\ Graded(Weighted(s, t, n + 1, c, k + 1), t * (n + 1)) <= Graded(Weighted(s, t, n, c, k), t * n)
<1> DEFINE p == 70 * s
           q == 150 * t
           w == Weighted(s, t, n, c, k)
           up == Weighted(s, t, n + 1, c + 1, k)
           down == Weighted(s, t, n + 1, c, k + 1)
<1>1. w = p * n + q * c /\ w \in Int
  BY WeightedIs
<1>2. up = p * (n + 1) + q * (c + 1) /\ up \in Int
  BY WeightedIs
<1>3. down = p * (n + 1) + q * c /\ down \in Int
  BY WeightedIs
<1>4. p \in Int /\ q \in Nat /\ t * n \in Nat \ {0} /\ t * (n + 1) \in Nat \ {0} /\ c <= n
  OBVIOUS
<1> HIDE DEF p, q, w, up, down
<1>5. w * (n + 1) <= up * n /\ down * n <= w * (n + 1)
  BY <1>1, <1>2, <1>3, <1>4, OneMoreDone, OneMoreLost
<1>6. w * (t * (n + 1)) <= up * (t * n)
  BY <1>1, <1>2, <1>5, WithFactor
<1>7. down * (t * n) <= w * (t * (n + 1))
  BY <1>1, <1>3, <1>5, WithFactor
<1>8. Graded(w, t * n) <= Graded(up, t * (n + 1))
  BY <1>1, <1>2, <1>4, <1>6, GradesInOrder
<1>9. Graded(down, t * (n + 1)) <= Graded(w, t * n)
  BY <1>1, <1>3, <1>4, <1>7, GradesInOrder
<1> QED BY <1>8, <1>9 DEF w, up, down

\* The first eligible ride of a driver.
LEMMA FirstWeighted ==
  ASSUME NEW s \in Int, NEW t \in Nat \ {0}
  PROVE  /\ Graded(Weighted(s, t, 1, 0, 0), t * 1) <= Graded(Weighted(s, t, 1, 1, 0), t * 1)
         /\ Graded(Weighted(s, t, 1, 0, 1), t * 1) <= Graded(Weighted(s, t, 1, 0, 0), t * 1)
<1> DEFINE w == Weighted(s, t, 1, 0, 0)
           up == Weighted(s, t, 1, 1, 0)
           down == Weighted(s, t, 1, 0, 1)
<1>1. w \in Int /\ up \in Int /\ down \in Int /\ down <= w /\ w <= up /\ t * 1 = t
  BY DEF Weighted
<1> HIDE DEF w, up, down
<1>2. w * t <= up * t /\ down * t <= w * t
  BY <1>1, Scaled
<1>3. Graded(w, t) <= Graded(up, t) /\ Graded(down, t) <= Graded(w, t)
  BY <1>1, <1>2, GradesInOrder
<1> QED BY <1>1, <1>3 DEF w, up, down

\* One more completed ride does not lower a score, one more cancelled ride
\* does not raise it.
LEMMA ScoreMoves ==
  ASSUME NEW c \in Nat, NEW k \in Nat, NEW s \in Int, NEW t \in Nat
  PROVE  /\ Score(c + k, c, k, <<s, t>>) <= Score(c + k + 1, c + 1, k, <<s, t>>)
         /\ Score(c + k + 1, c, k + 1, <<s, t>>) <= Score(c + k, c, k, <<s, t>>)
<1> DEFINE s1 == IF t = 0 THEN 5 ELSE s
           t1 == IF t = 0 THEN 1 ELSE t
<1>1. s1 \in Int /\ t1 \in Nat \ {0}
  OBVIOUS
<1>2. ASSUME NEW e \in Nat, NEW c1 \in Nat, NEW k1 \in Nat
      PROVE  LET n == IF e = 0 THEN 1 ELSE e
             IN  Score(e, c1, k1, <<s, t>>) = Graded(Weighted(s1, t1, n, c1, k1), t1 * n)
  <2>1. AtLeast(1, e) = IF e = 0 THEN 1 ELSE e
    BY DEF AtLeast
  <2> DEFINE stars == IF <<s, t>>[2] = 0 THEN <<5, 1>> ELSE <<s, t>>
  <2>2. stars[1] = s1 /\ stars[2] = t1
    OBVIOUS
  <2> HIDE DEF s1, t1
  <2>3. Score(e, c1, k1, <<s, t>>)
           = Graded(10 * (7 * stars[1] * AtLeast(1, e) + 10 * stars[2] * c1
                            + 5 * stars[2] * (AtLeast(1, e) - k1)),
                    stars[2] * AtLeast(1, e))
    BY DEF Score, Graded
  <2> HIDE DEF stars
  <2> QED BY <2>1, <2>2, <2>3 DEF Weighted
<1> HIDE DEF s1, t1
<1>3. CASE c + k = 0
  <2>1. c = 0 /\ k = 0 /\ c + k + 1 = 1 /\ c + 1 = 1 /\ k + 1 = 1 /\ c + k = 0
    BY <1>3
  <2>2. /\ Score(0, 0, 0, <<s, t>>) = Graded(Weighted(s1, t1, 1, 0, 0), t1 * 1)
        /\ Score(1, 1, 0, <<s, t>>) = Graded(Weighted(s1, t1, 1, 1, 0), t1 * 1)
        /\ Score(1, 0, 1, <<s, t>>) = Graded(Weighted(s1, t1, 1, 0, 1), t1 * 1)
    BY <1>2
  <2>3. /\ Score(0, 0, 0, <<s, t>>) <= Score(1, 1, 0, <<s, t>>)
        /\ Score(1, 0, 1, <<s, t>>) <= Score(0, 0, 0, <<s, t>>)
    BY <1>1, <2>2, FirstWeighted
  <2> QED BY <2>1, <2>3
<1>4. CASE c + k # 0
  <2> DEFINE n == c + k
  <2>1. n \in Nat \ {0} /\ n + 1 \in Nat /\ n + 1 # 0 /\ c + 1 \in Nat /\ k + 1 \in Nat
    BY <1>4
  <2>2. n = c + k
    OBVIOUS
  <2> HIDE DEF n
  <2>3. /\ Score(n, c, k, <<s, t>>) = Graded(Weighted(s1, t1, n, c, k), t1 * n)
        /\ Score(n + 1, c + 1, k, <<s, t>>) = Graded(Weighted(s1, t1, n + 1, c + 1, k), t1 * (n + 1))
        /\ Score(n + 1, c, k + 1, <<s, t>>) = Graded(Weighted(s1, t1, n + 1, c, k + 1), t1 * (n + 1))
    BY <1>2, <2>1, Zenon
  <2>4. /\ Score(n, c, k, <<s, t>>) <= Score(n + 1, c + 1, k, <<s, t>>)
        /\ Score(n + 1, c, k + 1, <<s, t>>) <= Score(n, c, k, <<s, t>>)
    BY <1>1, <2>1, <2>2, <2>3, WeightedRises
  <2> QED BY <2>4 DEF n
<1> QED BY <1>3, <1>4

\* The rides of a driver that count, and what passengers have said of them.
RidesOf(rows, d, ended) ==
    {x \in Rides : rows[x] # Nothing /\ rows[x].driver = d /\ rows[x].status \in ended}
Rated(rows, d) == {x \in RidesOf(rows, d, {"completed"}) : rows[x].stars > 0}
Rating(rows, d) ==
    <<SumFunction([x \in Rated(rows, d) |-> rows[x].stars]), Cardinality(Rated(rows, d))>>
ScoreIn(rows, d) ==
    Score(Cardinality(RidesOf(rows, d, EligibleStatuses)),
                  Cardinality(RidesOf(rows, d, {"completed"})),
                  Cardinality(RidesOf(rows, d, {"cancelled_by_driver"})), Rating(rows, d))

LEMMA ScoreIsIn ==
  ASSUME NEW d
  PROVE  DriverScore(d) = ScoreIn(rides, d)
<1>1. \A ended : Of(d, ended) = RidesOf(rides, d, ended)
  BY DEF Of, RidesOf
<1>2. {x \in Of(d, {"completed"}) : rides[x].stars > 0} = Rated(rides, d)
  BY <1>1 DEF Rated
<1> DEFINE f == [x \in Rated(rides, d) |-> rides[x].stars]
<1>3. DriverScore(d)
         = Score(Cardinality(Of(d, EligibleStatuses)),
                         Cardinality(Of(d, {"completed"})),
                         Cardinality(Of(d, {"cancelled_by_driver"})),
                         <<SumFunction(f), Cardinality(Rated(rides, d))>>)
  BY <1>2 DEF DriverScore
<1>4. Rating(rides, d) = <<SumFunction(f), Cardinality(Rated(rides, d))>>
  BY DEF Rating
<1> HIDE DEF f
<1> QED BY <1>1, <1>3, <1>4, SameCardinality DEF ScoreIn

\* Every eligible ride is completed or cancelled, and not both.
LEMMA RidesCounted ==
  ASSUME NEW rows \in [Rides -> RideRows \cup {Nothing}], NEW d
  PROVE  LET c == Cardinality(RidesOf(rows, d, {"completed"}))
             k == Cardinality(RidesOf(rows, d, {"cancelled_by_driver"}))
         IN  /\ c \in Nat /\ k \in Nat
             /\ Cardinality(RidesOf(rows, d, EligibleStatuses)) = c + k
             /\ \E s \in Int, t \in Nat : Rating(rows, d) = <<s, t>>
<1> DEFINE done == RidesOf(rows, d, {"completed"})
           lost == RidesOf(rows, d, {"cancelled_by_driver"})
           rated == Rated(rows, d)
           f == [x \in rated |-> rows[x].stars]
<1>1. IsFiniteSet(Rides)
  BY FiguresAssumption DEF IsFiniteSet, IsFiniteSet
<1>2. done \in SUBSET Rides /\ lost \in SUBSET Rides /\ rated \in SUBSET Rides
  BY DEF RidesOf, Rated
<1>3. RidesOf(rows, d, EligibleStatuses) = done \cup lost /\ done \cap lost = {}
  BY DEF RidesOf, EligibleStatuses
<1>4. f \in [rated -> Int]
  BY DEF Rated, RidesOf, RideRows
<1>5. Rating(rows, d) = <<SumFunction(f), Cardinality(rated)>>
  BY DEF Rating
<1> HIDE DEF done, lost, rated, f
<1>6. IsFiniteSet(done) /\ IsFiniteSet(lost) /\ IsFiniteSet(rated)
  BY <1>1, <1>2, FS_Subset
<1>7. Cardinality(done) \in Nat /\ Cardinality(lost) \in Nat /\ Cardinality(rated) \in Nat
  BY <1>6, FS_CardinalityType
<1>8. Cardinality(done \cup lost) = Cardinality(done) + Cardinality(lost)
  <2>1. Cardinality(done \cup lost) = Cardinality(done) + Cardinality(lost) - Cardinality(done \cap lost)
    BY <1>6, FS_Union
  <2>2. Cardinality(done \cap lost) = 0
    BY <1>3, FS_EmptySet
  <2> QED BY <1>7, <2>1, <2>2
<1>9. SumFunction(f) \in Int
  <2>1. \A x \in rated : f[x] <= f[x]
    BY <1>4
  <2> QED BY <1>4, <1>6, <2>1, SumGrows
<1> QED BY <1>3, <1>5, <1>7, <1>8, <1>9 DEF done, lost

\* A score was one number and is another once a ride has a status.
Rightly(ended, was, is) ==
    CASE ended = "completed"           -> is >= was
      [] ended = "cancelled_by_driver" -> is <= was
      [] OTHER                         -> is = was

\* A ride under way changes, and no other.
LEMMA OneRideMoves ==
  ASSUME NEW rows \in [Rides -> RideRows \cup {Nothing}],
         NEW next \in [Rides -> RideRows \cup {Nothing}], NEW r \in Rides, NEW d,
         \A u \in Rides \ {r} : next[u] = rows[u],
         rows[r] # Nothing, rows[r].status \in Active,
         next[r] # Nothing, next[r].driver = d, next[r].stars = 0
  PROVE  Rightly(next[r].status, ScoreIn(rows, d), ScoreIn(next, d))
<1> DEFINE done == RidesOf(rows, d, {"completed"})
           lost == RidesOf(rows, d, {"cancelled_by_driver"})
           c == Cardinality(done)
           k == Cardinality(lost)
<1>1. /\ r \notin RidesOf(rows, d, {"completed"}) /\ r \notin RidesOf(rows, d, {"cancelled_by_driver"})
      /\ r \notin RidesOf(rows, d, EligibleStatuses)
  BY DEF RidesOf, Active, EligibleStatuses
<1>2. Rated(next, d) = Rated(rows, d)
  <2>1. r \notin Rated(rows, d) /\ r \notin Rated(next, d)
    BY <1>1 DEF Rated
  <2> QED BY <2>1 DEF Rated, RidesOf
<1>3. Rating(next, d) = Rating(rows, d)
  <2>1. \A x \in Rated(rows, d) : next[x] = rows[x]
    BY <1>1 DEF Rated, RidesOf
  <2> QED BY <1>2, <2>1 DEF Rating
<1>4. /\ c \in Nat /\ k \in Nat /\ Cardinality(RidesOf(rows, d, EligibleStatuses)) = c + k
      /\ Cardinality(RidesOf(next, d, EligibleStatuses))
            = Cardinality(RidesOf(next, d, {"completed"})) + Cardinality(RidesOf(next, d, {"cancelled_by_driver"}))
  BY RidesCounted
<1>5. PICK s \in Int, t \in Nat : Rating(rows, d) = <<s, t>>
  BY RidesCounted
<1>6. ScoreIn(rows, d) = Score(c + k, c, k, <<s, t>>)
  BY <1>4, <1>5 DEF ScoreIn
<1>7. IsFiniteSet(done) /\ IsFiniteSet(lost)
  <2>1. IsFiniteSet(Rides)
    BY FiguresAssumption DEF IsFiniteSet, IsFiniteSet
  <2>2. done \in SUBSET Rides /\ lost \in SUBSET Rides
    BY DEF RidesOf
  <2> HIDE DEF done, lost
  <2> QED BY <2>1, <2>2, FS_Subset
<1>8. CASE next[r].status = "completed"
  <2>1. /\ RidesOf(next, d, {"completed"}) = done \cup {r}
        /\ RidesOf(next, d, {"cancelled_by_driver"}) = lost
    BY <1>1, <1>8 DEF RidesOf
  <2>2. Cardinality(done \cup {r}) = c + 1
    <3> HIDE DEF done
    <3> QED BY <1>1, <1>7, FS_AddElement DEF done
  <2>3. ScoreIn(next, d) = Score(c + 1 + k, c + 1, k, <<s, t>>)
    BY <1>3, <1>4, <1>5, <2>1, <2>2 DEF ScoreIn
  <2> HIDE DEF c, k
  <2>4. c + 1 + k = c + k + 1
    BY <1>4
  <2>5. Score(c + k, c, k, <<s, t>>) <= Score(c + k + 1, c + 1, k, <<s, t>>)
    BY <1>4, ScoreMoves
  <2>6. ScoreIn(rows, d) <= ScoreIn(next, d)
    BY <1>6, <2>3, <2>4, <2>5
  <2> QED BY <1>8, <2>6 DEF Rightly
<1>9. CASE next[r].status = "cancelled_by_driver"
  <2>1. /\ RidesOf(next, d, {"completed"}) = done
        /\ RidesOf(next, d, {"cancelled_by_driver"}) = lost \cup {r}
    BY <1>1, <1>9 DEF RidesOf
  <2>2. Cardinality(lost \cup {r}) = k + 1
    <3> HIDE DEF lost
    <3> QED BY <1>1, <1>7, FS_AddElement DEF lost
  <2>3. ScoreIn(next, d) = Score(c + (k + 1), c, k + 1, <<s, t>>)
    BY <1>3, <1>4, <1>5, <2>1, <2>2 DEF ScoreIn
  <2> HIDE DEF c, k
  <2>4. c + (k + 1) = c + k + 1
    BY <1>4
  <2>5. Score(c + k + 1, c, k + 1, <<s, t>>) <= Score(c + k, c, k, <<s, t>>)
    BY <1>4, ScoreMoves
  <2>6. ScoreIn(next, d) <= ScoreIn(rows, d)
    BY <1>6, <2>3, <2>4, <2>5
  <2> QED BY <1>9, <2>6 DEF Rightly
<1>10. CASE next[r].status \notin {"completed", "cancelled_by_driver"}
  <2>1. /\ RidesOf(next, d, {"completed"}) = done /\ RidesOf(next, d, {"cancelled_by_driver"}) = lost
    BY <1>1, <1>10 DEF RidesOf
  <2>2. ScoreIn(next, d) = ScoreIn(rows, d)
    BY <1>3, <1>4, <2>1 DEF ScoreIn
  <2> QED BY <1>10, <2>2 DEF Rightly
<1> QED BY <1>8, <1>9, <1>10

\* For any rides, drivers and ratings, a ride that completes never lowers the
\* score of its driver, one the driver cancels never raises it and any other
\* step of a ride leaves it alone.
THEOREM ScoresMoveRightly ==
  FiguresSpec => ScoreMovesRightly
<1> DEFINE Moves ==
      \A r \in Rides, d \in Drivers :
          (rides'[r] # rides[r] /\ rides'[r].driver = d /\ rides[r] # Nothing
             /\ rides'[r].status # rides[r].status) =>
            Rightly(rides'[r].status, DriverScore(d), DriverScore(d)')
      Same == \A d \in Drivers : DriverScore(d) = ScoreIn(rides, d)
<1>0. Same
  BY ScoreIsIn
<1>1. FiguresInv /\ FiguresInv' /\ TimesInv /\ Same /\ Same' /\ [FiguresNext]_figureVars
         => [Moves]_figureVars
  <2> SUFFICES ASSUME FiguresInv, FiguresInv', TimesInv, Same, Same', FiguresNext,
                      NEW r \in Rides, NEW d \in Drivers,
                      rides'[r] # rides[r], rides'[r].driver = d, rides[r] # Nothing,
                      rides'[r].status # rides[r].status
               PROVE  Rightly(rides'[r].status, DriverScore(d), DriverScore(d)')
    OBVIOUS
  <2>1. PICK u \in Rides : CommitRow(u)
    BY DEF FiguresNext, Tick, CreateQuote, Calculate, Store,
           Handle, AbortRow, RequestRide, Arrive, Start,
           AddExtra, AskEarlyStop, Complete, ConfirmEarlyStop, Cancel,
           NoShow, Rate, Write
  <2>2. /\ written[u] # Nothing /\ rides'[u] = written[u].row
        /\ \A x \in Rides \ {u} : rides'[x] = rides[x]
    BY <2>1 DEF CommitRow, FiguresInv
  <2>3. u = r
    BY <2>2
  <2>4. /\ Timed(rides[r], now) /\ Driving(rides[r], rides'[r])
        /\ rides[r] \in RideRows /\ rides'[r] \in RideRows
        /\ rides \in [Rides -> RideRows \cup {Nothing}]
        /\ rides' \in [Rides -> RideRows \cup {Nothing}]
    BY <2>2, <2>3 DEF FiguresInv, TimesInv, Drafts
  <2>5. rides[r].status \in Active /\ rides'[r].stars = 0 /\ rides'[r] # Nothing
    BY FiguresAssumption, <2>4 DEF Timed, Driving, Active
  <2>6. Rightly(rides'[r].status, ScoreIn(rides, d), ScoreIn(rides', d))
    BY <2>2, <2>3, <2>4, <2>5, OneRideMoves
  <2>7. DriverScore(d) = ScoreIn(rides, d) /\ DriverScore(d)' = ScoreIn(rides', d)
    OBVIOUS
  <2> QED BY <2>6, <2>7
<1>2. FiguresSpec => [][Moves]_figureVars
  <2> HIDE DEF Same, Moves
  <2> QED BY <1>0, <1>1, FiguresAll, PTL DEF FiguresSpec
<1> QED BY <1>2 DEF Rightly, ScoreMovesRightly
=============================================================================
