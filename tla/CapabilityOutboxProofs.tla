-------------------------- MODULE CapabilityOutboxProofs --------------------------
(***************************************************************************)
(* Proofs about CapabilityOutbox, for any users, requests and workers, and  *)
(* without its bounds: every event is numbered by its version, and whatever *)
(* a worker is about to record about an event is true of DiddiFreeID.       *)
(***************************************************************************)
EXTENDS CapabilityOutbox, SequenceTheorems, TLAPS

Rows == [desired : Statuses, version : Nat, status : {"pending"} \cup Outcomes]
States == [desired : Statuses \cup {"none"}, version : Nat, last : Nat,
           sync : {"pending"} \cup Outcomes]

\* The rows of a user and what DiddiFreeID shows of him.
RowInv(u) ==
    /\ state[u] \in States /\ event[u] \in Seq(Rows)
    /\ shown[u] \in [version : Nat, status : Statuses \cup {"none"}]
    /\ state[u].version = Len(event[u]) /\ state[u].last = Len(event[u])
    /\ \A i \in 1 .. Len(event[u]) : event[u][i].version = i
    /\ Len(event[u]) > 0 => state[u].desired = event[u][Len(event[u])].desired
    /\ shown[u].version <= Len(event[u])
    /\ shown[u].version > 0 => shown[u].status = event[u][shown[u].version].desired
    /\ state[u].sync = "succeeded" => Len(event[u]) > 0 /\ shown[u].version = Len(event[u])
    /\ state[u].sync # "conflict"

\* What DiddiFreeID answered about an event stays true.
Answered(u, i, outcome) ==
    /\ i \in 1 .. Len(event[u])
    /\ outcome = "succeeded" => shown[u].version >= i
    /\ outcome = "conflict" => shown[u].version > i

IInv ==
    /\ \A u \in Users : RowInv(u)
    /\ \A w \in Workers :
          /\ \A u \in Users, i \in Nat : <<u, i>> \in batch[w] => i \in 1 .. Len(event[u])
          /\ \A u \in Users, i \in Nat, o \in Outcomes : <<u, i, o>> \in marks[w] => Answered(u, i, o)
          /\ pc[w] \in {"look", "reconcile"} => \A u \in Users : snap[w][u] \in Statuses
          /\ pc[w] = "mark" => Answered(job[w][1], job[w][2], job[w][3])

\* What a step may do to the rows of a user.
Keeps(u) == state'[u] = state[u] /\ event'[u] = event[u]
Adds(u) ==
    \E d \in Statuses :
        /\ state'[u] = State(d, state[u].version + 1, Len(event[u]) + 1, "pending")
        /\ event'[u] = Append(event[u], Event(d, state[u].version + 1, "pending"))
Restates(u) ==
    /\ event'[u] \in Seq(Rows) /\ Len(event'[u]) = Len(event[u])
    /\ \A i \in 1 .. Len(event[u]) : /\ event'[u][i].desired = event[u][i].desired
                                     /\ event'[u][i].version = event[u][i].version
    /\ \E y \in {"pending"} \cup Outcomes :
          /\ state'[u] = State(state[u].desired, state[u].version, state[u].last, y)
          /\ y = "succeeded" => shown[u].version >= state[u].last /\ Len(event[u]) > 0
          /\ y # "conflict"

\* What a step may do to the status on show.
Advances(u) ==
    \E i \in 1 .. Len(event[u]) :
        /\ i >= shown[u].version
        /\ shown'[u] = [version |-> event[u][i].version, status |-> event[u][i].desired]

UserStep(u) ==
    \/ shown'[u] = shown[u] /\ (Keeps(u) \/ Adds(u) \/ Restates(u))
    \/ Keeps(u) /\ Advances(u)

\* An appended event is the last one, and the others stay where they were.
LEMMA Appended ==
  ASSUME NEW S, NEW seq \in Seq(S), NEW e \in S
  PROVE  /\ Append(seq, e) \in Seq(S) /\ Len(Append(seq, e)) = Len(seq) + 1
         /\ Append(seq, e)[Len(seq) + 1] = e
         /\ \A i \in 1 .. Len(seq) : Append(seq, e)[i] = seq[i]
         /\ Len(seq) \in Nat
BY AppendProperties

\* The rows of a user stay consistent whatever the step does to them.
LEMMA RowKept ==
  ASSUME NEW u \in Users, RowInv(u), UserStep(u)
  PROVE  RowInv(u)'
<1> Len(event[u]) \in Nat
  BY DEF RowInv
<1>1. CASE shown'[u] = shown[u] /\ Keeps(u)
  BY <1>1 DEF RowInv, Keeps
<1>2. CASE shown'[u] = shown[u] /\ Adds(u)
  <2>1. PICK d \in Statuses :
          /\ state'[u] = State(d, state[u].version + 1, Len(event[u]) + 1, "pending")
          /\ event'[u] = Append(event[u], Event(d, state[u].version + 1, "pending"))
    BY <1>2 DEF Adds
  <2> DEFINE e == Event(d, state[u].version + 1, "pending")
  <2>2. e \in Rows /\ e.version = Len(event[u]) + 1 /\ e.desired = d
    BY DEF RowInv, Event, Rows, States
  <2>3. event[u] \in Seq(Rows)
    BY DEF RowInv
  <2> HIDE DEF e
  <2>4. /\ event'[u] \in Seq(Rows) /\ Len(event'[u]) = Len(event[u]) + 1
        /\ event'[u][Len(event[u]) + 1] = e
        /\ \A i \in 1 .. Len(event[u]) : event'[u][i] = event[u][i]
    BY <2>1, <2>2, <2>3, Appended DEF e
  <2>5. /\ state'[u] \in States /\ state'[u].version = Len(event[u]) + 1
        /\ state'[u].last = Len(event[u]) + 1 /\ state'[u].desired = d
        /\ state'[u].sync = "pending"
    BY <2>1 DEF RowInv, State, States
  <2>6. \A i \in 1 .. Len(event'[u]) : event'[u][i].version = i
    BY <2>2, <2>4 DEF RowInv
  <2> QED BY <1>2, <2>2, <2>4, <2>5, <2>6 DEF RowInv
<1>3. CASE shown'[u] = shown[u] /\ Restates(u)
  <2>1. PICK y \in {"pending"} \cup Outcomes :
          /\ state'[u] = State(state[u].desired, state[u].version, state[u].last, y)
          /\ y = "succeeded" => shown[u].version >= state[u].last /\ Len(event[u]) > 0
          /\ y # "conflict"
    BY <1>3 DEF Restates
  <2>2. /\ state'[u] \in States /\ state'[u].version = state[u].version
        /\ state'[u].last = state[u].last /\ state'[u].desired = state[u].desired
        /\ state'[u].sync = y
    BY <2>1 DEF RowInv, State, States
  <2> QED BY <1>3, <2>1, <2>2 DEF RowInv, Restates
<1>4. CASE Keeps(u) /\ Advances(u)
  <2>1. PICK i \in 1 .. Len(event[u]) :
          /\ i >= shown[u].version
          /\ shown'[u] = [version |-> event[u][i].version, status |-> event[u][i].desired]
    BY <1>4 DEF Advances
  <2>2. event[u][i] \in Rows /\ event[u][i].version = i
    BY DEF RowInv
  <2>3. /\ shown'[u].version = i /\ shown'[u].status = event[u][i].desired
        /\ shown'[u] \in [version : Nat, status : Statuses \cup {"none"}]
    BY <2>1, <2>2 DEF Rows
  <2>4. shown[u].version \in Nat /\ shown[u].version <= Len(event[u])
    BY DEF RowInv
  <2> QED BY <1>4, <2>1, <2>3, <2>4 DEF RowInv, Keeps
<1> QED BY <1>1, <1>2, <1>3, <1>4 DEF UserStep

\* What was answered about an event is not undone.
LEMMA AnswerStays ==
  ASSUME NEW u \in Users, RowInv(u), UserStep(u), NEW i, NEW o, Answered(u, i, o)
  PROVE  Answered(u, i, o)'
<1> Len(event[u]) \in Nat /\ shown[u].version \in Nat
  BY DEF RowInv
<1>1. i \in 1 .. Len(event'[u]) /\ Len(event'[u]) \in Nat
  <2>1. CASE Adds(u)
    <3>1. PICK d \in Statuses :
            event'[u] = Append(event[u], Event(d, state[u].version + 1, "pending"))
      BY <2>1 DEF Adds
    <3>2. Event(d, state[u].version + 1, "pending") \in Rows /\ event[u] \in Seq(Rows)
      BY DEF RowInv, Event, Rows, States
    <3>3. Len(event'[u]) = Len(event[u]) + 1
      BY <3>1, <3>2, Appended
    <3> QED BY <3>3 DEF Answered
  <2>2. CASE Keeps(u)
    BY <2>2 DEF Keeps, Answered
  <2>3. CASE Restates(u)
    BY <2>3 DEF Restates, Answered
  <2>4. Keeps(u) \/ Adds(u) \/ Restates(u)
    BY DEF UserStep
  <2> QED BY <2>1, <2>2, <2>3, <2>4
<1>2. shown'[u].version >= shown[u].version /\ shown'[u].version \in Nat
  <2>1. CASE Advances(u)
    <3>1. PICK k \in 1 .. Len(event[u]) :
            /\ k >= shown[u].version
            /\ shown'[u] = [version |-> event[u][k].version, status |-> event[u][k].desired]
      BY <2>1 DEF Advances
    <3>2. event[u][k].version = k
      BY DEF RowInv
    <3> QED BY <3>1, <3>2
  <2>2. shown'[u] = shown[u] \/ Advances(u)
    BY DEF UserStep
  <2> QED BY <2>1, <2>2
<1> QED BY <1>1, <1>2 DEF Answered

\* The statuses a request, a review or a reconciliation enqueues.
LEMMA Enqueued ==
  ASSUME NEW wanted, DOMAIN wanted \subseteq Users,
         \A u \in DOMAIN wanted : wanted[u] \in Statuses,
         NEW u \in Users,
         state'[u] = EnqueuedState(wanted)[u], event'[u] = EnqueuedEvent(wanted)[u]
  PROVE  Keeps(u) \/ Adds(u)
<1>1. CASE u \in News(wanted)
  <2>1. wanted[u] \in Statuses
    BY <1>1 DEF News
  <2> QED BY <1>1, <2>1 DEF EnqueuedState, EnqueuedEvent, Adds
<1>2. CASE u \notin News(wanted)
  BY <1>2 DEF EnqueuedState, EnqueuedEvent, Keeps
<1> QED BY <1>1, <1>2

\* Marking an event in the batch of a worker changes no content of it.
LEMMA BatchMarked ==
  ASSUME IInv, TypeOK, NEW w \in Workers, NEW u \in Users,
         state' = MarkedState(w), event' = MarkedEvent(w)
  PROVE  Restates(u)
<1>1. RowInv(u)
  BY DEF IInv
<1> Len(event[u]) \in Nat
  BY <1>1 DEF RowInv
<1> DEFINE out(i, before) == Outcome(w, u, i, before)
<1>2. ASSUME NEW i, NEW before \in {"pending"} \cup Outcomes
      PROVE  /\ out(i, before) \in {"pending"} \cup Outcomes
             /\ out(i, before) = before \/ <<u, i, out(i, before)>> \in marks[w]
  BY DEF Outcome
<1>3. \A i \in 1 .. Len(event[u]) : event[u][i] \in Rows
  BY <1>1 DEF RowInv
<1>4. event'[u] = [i \in 1 .. Len(event[u]) |->
        Event(event[u][i].desired, event[u][i].version, out(i, event[u][i].status))]
  BY DEF MarkedEvent
<1>5. event'[u] \in [1 .. Len(event[u]) -> Rows]
  <2> SUFFICES ASSUME NEW i \in 1 .. Len(event[u])
               PROVE  Event(event[u][i].desired, event[u][i].version, out(i, event[u][i].status)) \in Rows
    BY <1>4
  <2>1. event[u][i] \in Rows
    BY <1>3
  <2>2. out(i, event[u][i].status) \in {"pending"} \cup Outcomes
    BY <1>2, <2>1 DEF Rows
  <2> HIDE DEF out
  <2> QED BY <2>1, <2>2 DEF Event, Rows
<1>6. event'[u] \in Seq(Rows) /\ Len(event'[u]) = Len(event[u])
  BY <1>5, SeqDef
<1>7. \A i \in 1 .. Len(event[u]) : /\ event'[u][i].desired = event[u][i].desired
                                    /\ event'[u][i].version = event[u][i].version
  <2> HIDE DEF out
  <2> SUFFICES ASSUME NEW i \in 1 .. Len(event[u])
               PROVE  /\ event'[u][i].desired = event[u][i].desired
                      /\ event'[u][i].version = event[u][i].version
    OBVIOUS
  <2>1. event'[u][i] = Event(event[u][i].desired, event[u][i].version, out(i, event[u][i].status))
    BY <1>4
  <2> QED BY <2>1 DEF Event
<1> DEFINE y == out(state[u].last, state[u].sync)
<1>8. state'[u] = State(state[u].desired, state[u].version, state[u].last, y)
  BY DEF MarkedState
<1>9. y \in {"pending"} \cup Outcomes /\ (y = state[u].sync \/ <<u, state[u].last, y>> \in marks[w])
  BY <1>1, <1>2 DEF RowInv, States
<1> HIDE DEF y
<1>10. CASE y = state[u].sync
  <2>1. y # "conflict" /\ (y = "succeeded" => shown[u].version >= state[u].last /\ Len(event[u]) > 0)
    BY <1>1, <1>10 DEF RowInv
  <2> QED BY <1>6, <1>7, <1>8, <1>9, <2>1 DEF Restates
<1>11. CASE <<u, state[u].last, y>> \in marks[w]
  <2>1. state[u].last = Len(event[u]) /\ shown[u].version <= Len(event[u]) /\ shown[u].version \in Nat
    BY <1>1 DEF RowInv
  <2>2. y \in Outcomes
    BY <1>11 DEF TypeOK
  <2>3. Answered(u, state[u].last, y)
    BY <1>11, <2>1, <2>2 DEF IInv
  <2>4. y # "conflict" /\ (y = "succeeded" => shown[u].version >= state[u].last /\ Len(event[u]) > 0)
    BY <2>1, <2>3 DEF Answered
  <2> QED BY <1>6, <1>7, <1>8, <1>9, <2>4 DEF Restates
<1> QED BY <1>9, <1>10, <1>11

\* Every step does one of these things to the rows of a user.
LEMMA StepOfUser ==
  ASSUME TypeOK, IInv, [Next]_vars, NEW u \in Users
  PROVE  UserStep(u)
<1> USE DEF facts, rows, local, remote, counts
<1> RowInv(u)
  BY DEF IInv
<1>1. ASSUME UNCHANGED <<state, event, shown>> PROVE UserStep(u)
  BY <1>1 DEF UserStep, Keeps
<1>2. ASSUME NEW s \in Requests, NEW x \in Users, GoOnline(s, x) PROVE UserStep(u)
  BY <1>1, <1>2 DEF GoOnline
<1>3. ASSUME NEW s \in Requests, NEW x \in Users, GoOffline(s, x) PROVE UserStep(u)
  BY <1>1, <1>3 DEF GoOffline
<1>4. ASSUME NEW x \in Users, NEW d \in Statuses, Enqueue(x, d), UNCHANGED shown PROVE UserStep(u)
  <2> DEFINE wanted == [y \in {x} |-> d]
  <2>1. DOMAIN wanted \subseteq Users /\ \A y \in DOMAIN wanted : wanted[y] \in Statuses
    OBVIOUS
  <2>2. state'[u] = EnqueuedState(wanted)[u] /\ event'[u] = EnqueuedEvent(wanted)[u]
    BY <1>4 DEF Enqueue
  <2> HIDE DEF wanted
  <2> QED BY <1>4, <2>1, <2>2, Enqueued DEF UserStep
<1>5. ASSUME NEW s \in Requests, NEW x \in Users, NEW st \in Standings, Review(s, x, st) PROVE UserStep(u)
  BY <1>4, <1>5 DEF Review, Statuses
<1>6. ASSUME NEW s \in Requests, Publish(s) PROVE UserStep(u)
  <2>1. job[s] \in Users \X Statuses
    BY <1>6 DEF TypeOK, JobOK, Publish, Sessions
  <2> QED BY <1>4, <1>6, <2>1 DEF Publish
<1>7. ASSUME NEW s \in Requests, Fail(s) PROVE UserStep(u)
  BY <1>1, <1>7 DEF Fail
<1>8. ASSUME NEW w \in Workers, PollAny(w) PROVE UserStep(u)
  BY <1>1, <1>8 DEF PollAny, Poll
<1>9. ASSUME NEW w \in Workers, SendAny(w) PROVE UserStep(u)
  <2>1. PICK e \in batch[w], outcome \in Outcomes : Send(w, e[1], e[2], outcome)
    BY <1>9 DEF SendAny
  <2>2. e \in Users \X Nat
    BY DEF TypeOK
  <2>3. UNCHANGED <<state, event>>
    BY <2>1 DEF Send
  <2>4. shown' = shown \/ (Accepts(e[1], event[e[1]][e[2]]) /\ Shows(e[1], event[e[1]][e[2]]))
    BY <2>1 DEF Send
  <2>5. CASE u = e[1] /\ Accepts(u, event[u][e[2]]) /\ Shows(u, event[u][e[2]])
    <3>1. e[2] \in 1 .. Len(event[u])
      BY <2>2, <2>5 DEF IInv
    <3>2. event[u][e[2]].version = e[2]
      BY <3>1 DEF RowInv
    <3>3. shown'[u] = [version |-> event[u][e[2]].version, status |-> event[u][e[2]].desired]
      BY <2>5 DEF Shows, TypeOK
    <3>4. e[2] >= shown[u].version
      BY <2>5, <3>2 DEF Accepts
    <3> QED BY <2>3, <3>1, <3>3, <3>4 DEF UserStep, Keeps, Advances
  <2>6. CASE shown'[u] = shown[u]
    BY <2>3, <2>6 DEF UserStep, Keeps
  <2>7. u # e[1] /\ Shows(e[1], event[e[1]][e[2]]) => shown'[u] = shown[u]
    BY DEF Shows, TypeOK
  <2> QED BY <2>4, <2>5, <2>6, <2>7
<1>10. ASSUME NEW w \in Workers, Mark(w) PROVE UserStep(u)
  BY <1>1, <1>10 DEF Mark
<1>11. ASSUME NEW w \in Workers, CommitBatch(w) PROVE UserStep(u)
  BY <1>11, BatchMarked DEF CommitBatch, UserStep
<1>12. ASSUME NEW w \in Workers, Crash(w) PROVE UserStep(u)
  BY <1>1, <1>12 DEF Crash
<1>13. ASSUME NEW w \in Workers, Scan(w) PROVE UserStep(u)
  BY <1>1, <1>13 DEF Scan
<1>14. ASSUME NEW w \in Workers, Look(w) PROVE UserStep(u)
  BY <1>1, <1>14 DEF Look
<1>15. ASSUME NEW w \in Workers, NEW old \in SUBSET Users, Reconcile(w, old) PROVE UserStep(u)
  <2>1. CASE u \in old
    <3>1. state[u].sync = "succeeded"
      BY <1>15, <2>1 DEF Reconcile
    <3>2. state'[u] = State(state[u].desired, state[u].version, state[u].last, "pending")
      BY <1>15, <2>1 DEF Reconcile
    <3>3. event'[u] = [event[u] EXCEPT ![state[u].last] = Event(@.desired, @.version, "pending")]
      BY <1>15, <2>1 DEF Reconcile
    <3>4. state[u].last \in 1 .. Len(event[u]) /\ event[u] \in Seq(Rows) /\ Len(event[u]) \in Nat
      BY <3>1 DEF RowInv
    <3> DEFINE k == state[u].last
               e == Event(event[u][k].desired, event[u][k].version, "pending")
    <3>5. event[u][k] \in Rows
      BY <3>4
    <3>6. e \in Rows /\ e.desired = event[u][k].desired /\ e.version = event[u][k].version
      BY <3>5 DEF Event, Rows
    <3>7. event'[u] = [event[u] EXCEPT ![k] = e]
      BY <3>3
    <3> HIDE DEF e, k
    <3>8. /\ event'[u] \in Seq(Rows) /\ Len(event'[u]) = Len(event[u])
          /\ \A i \in 1 .. Len(event[u]) : event'[u][i] = IF i = k THEN e ELSE event[u][i]
      BY <3>4, <3>6, <3>7, ExceptSeq DEF k
    <3>9. Restates(u)
      BY <3>2, <3>6, <3>8 DEF Restates
    <3> QED BY <1>15, <3>9 DEF Reconcile, UserStep
  <2>2. CASE u \notin old
    <3>1. pc[w] = "reconcile" /\ snap[w] \in [Users -> Statuses \cup {"none"}]
      BY <1>15 DEF Reconcile, TypeOK
    <3>2. \A x \in Users : snap[w][x] \in Statuses
      BY <3>1 DEF IInv
    <3>3. state'[u] = EnqueuedState(snap[w])[u] /\ event'[u] = EnqueuedEvent(snap[w])[u]
      BY <1>15, <2>2 DEF Reconcile
    <3> QED BY <1>15, <3>1, <3>2, <3>3, Enqueued DEF Reconcile, UserStep
  <2> QED BY <2>1, <2>2
<1>16. ASSUME NEW x \in Users, MoveMarkers(x) PROVE UserStep(u)
  BY <1>1, <1>16 DEF MoveMarkers
<1>17. ASSUME NEW x \in Users, Register(x) PROVE UserStep(u)
  BY <1>1, <1>17 DEF Register
<1>18. CASE UNCHANGED vars
  BY <1>1, <1>18 DEF vars
<1> QED BY <1>2, <1>3, <1>5, <1>6, <1>7, <1>8, <1>9, <1>10, <1>11, <1>12, <1>13, <1>14, <1>15,
           <1>16, <1>17, <1>18 DEF Next, RequestStep, WorkerStep, ReconcileAny

\* The initial state has its types, and nothing is recorded in it.
LEMMA Starts == Init => TypeOK /\ IInv
<1> SUFFICES ASSUME Init PROVE TypeOK /\ IInv
  OBVIOUS
<1>1. TypeOK
  BY OutboxAssumption, EmptySeq
     DEF Init, TypeOK, JobOK, RestOK, NoJob, NoSnap, State, Statuses, Outcomes, Sessions
<1>2. \A u \in Users : RowInv(u)
  BY EmptySeq DEF Init, RowInv, State, States, Statuses, Rows, Outcomes
<1>3. IInv
  BY <1>2 DEF Init, IInv, Sessions
<1> QED BY <1>1, <1>3

\* What a worker holds stays true of the rows and of DiddiFreeID.
LEMMA HeldStays ==
  ASSUME TypeOK, IInv, [Next]_vars,
         NEW w \in Workers,
         batch'[w] \subseteq batch[w] \cup Unsent,
         \A m \in marks'[w] : m \in marks[w] \/ (pc[w] = "mark" /\ m = job[w]),
         pc'[w] \in {"look", "reconcile"} =>
            \A u \in Users : snap'[w][u] \in Statuses,
         pc'[w] = "mark" =>
            \/ pc[w] = "mark" /\ job'[w] = job[w]
            \/ \E u \in Users, i \in Nat, o \in Outcomes : job'[w] = <<u, i, o>> /\ Answered(u, i, o)'
  PROVE  /\ \A u \in Users, i \in Nat : <<u, i>> \in batch'[w] => i \in 1 .. Len(event'[u])
         /\ \A u \in Users, i \in Nat, o \in Outcomes : <<u, i, o>> \in marks'[w] => Answered(u, i, o)'
         /\ pc'[w] \in {"look", "reconcile"} => \A u \in Users : snap'[w][u] \in Statuses
         /\ pc'[w] = "mark" => Answered(job[w][1], job[w][2], job[w][3])'
<1>1. \A u \in Users : RowInv(u) /\ UserStep(u)
  BY StepOfUser DEF IInv
<1>2. ASSUME NEW u \in Users, NEW i \in Nat, <<u, i>> \in batch'[w] PROVE i \in 1 .. Len(event'[u])
  <2>1. i \in 1 .. Len(event[u])
    BY <1>2 DEF IInv, Unsent, Recorded
  <2>2. Answered(u, i, "retry")
    BY <2>1 DEF Answered
  <2> QED BY <1>1, <2>2, AnswerStays DEF Answered
<1>3. ASSUME pc[w] = "mark"
      PROVE  /\ job[w] \in Users \X Nat \X Outcomes
             /\ Answered(job[w][1], job[w][2], job[w][3])
  BY <1>3 DEF IInv, TypeOK, JobOK, Sessions
<1>4. ASSUME NEW u \in Users, NEW i \in Nat, NEW o \in Outcomes, <<u, i, o>> \in marks'[w]
      PROVE  Answered(u, i, o)'
  <2>1. Answered(u, i, o)
    BY <1>3, <1>4 DEF IInv
  <2> QED BY <1>1, <2>1, AnswerStays
<1>5. ASSUME pc'[w] = "mark" PROVE Answered(job[w][1], job[w][2], job[w][3])'
  <2>1. CASE pc[w] = "mark" /\ job'[w] = job[w]
    <3>1. Answered(job[w][1], job[w][2], job[w][3]) /\ job[w][1] \in Users
      BY <1>3, <2>1
    <3> DEFINE u == job[w][1]
               i == job[w][2]
               o == job[w][3]
    <3>2. job'[w][1] = u /\ job'[w][2] = i /\ job'[w][3] = o
      BY <2>1
    <3> QED BY <1>1, <3>1, <3>2, AnswerStays DEF Answered
  <2>2. CASE \E u \in Users, i \in Nat, o \in Outcomes : job'[w] = <<u, i, o>> /\ Answered(u, i, o)'
    BY <2>2 DEF Answered
  <2> QED BY <1>5, <2>1, <2>2
<1> QED BY <1>2, <1>4, <1>5

\* The types of what is not a row of a user.
TypeRest ==
    /\ standing \in [Users -> Standings] /\ online \in [Users -> BOOLEAN]
    /\ holder \in [Users -> Workers \cup {None}]
    /\ pc \in [Sessions -> {"idle", "publish", "deliver", "mark", "look", "reconcile"}]
    /\ DOMAIN job = Sessions /\ \A s \in Sessions : JobOK(s)
    /\ batch \in [Workers -> SUBSET (Users \X Nat)]
    /\ marks \in [Workers -> SUBSET (Users \X Nat \X Outcomes)]
    /\ snap \in [Workers -> [Users -> Statuses \cup {"none"}]]
    /\ known \in [Users -> BOOLEAN]
    /\ \A w \in Workers : RestOK(w)
    /\ changes \in 0 .. MaxChanges /\ faults \in 0 .. MaxFaults

\* Every step keeps them: one step of the proof for each action.
LEMMA RestNext == TypeRest /\ event \in [Users -> Seq(Rows)] /\ [Next]_vars => TypeRest'
<1> SUFFICES ASSUME TypeRest, event \in [Users -> Seq(Rows)], [Next]_vars PROVE TypeRest'
  OBVIOUS
<1> USE OutboxAssumption
    DEF TypeRest, JobOK, RestOK, NoJob, Sessions, Goto, Change, Fault, facts, rows, local, remote, counts
<1>1. ASSUME NEW s \in Requests, NEW u \in Users, GoOnline(s, u) PROVE TypeRest'
  BY <1>1 DEF GoOnline, Statuses
<1>2. ASSUME NEW s \in Requests, NEW u \in Users, GoOffline(s, u) PROVE TypeRest'
  BY <1>2 DEF GoOffline, Statuses
<1>3. ASSUME NEW s \in Requests, NEW u \in Users, NEW st \in Standings, Review(s, u, st) PROVE TypeRest'
  BY <1>3 DEF Review, Enqueue
<1>4. ASSUME NEW s \in Requests, Publish(s) PROVE TypeRest'
  BY <1>4 DEF Publish, Enqueue
<1>5. ASSUME NEW s \in Requests, Fail(s) PROVE TypeRest'
  BY <1>5 DEF Fail
<1>6. ASSUME NEW w \in Workers, NEW due \in SUBSET Unsent, Poll(w, due) PROVE TypeRest'
  <2>1. Unsent \subseteq Users \X Nat
    BY DEF Unsent, Recorded
  <2> QED BY <1>6, <2>1 DEF Poll
<1>7. ASSUME NEW w \in Workers, NEW u \in Users, NEW i \in Nat, NEW o \in Outcomes, Send(w, u, i, o)
      PROVE  TypeRest'
  BY <1>7 DEF Send
<1>8. ASSUME NEW w \in Workers, Mark(w) PROVE TypeRest'
  BY <1>8 DEF Mark
<1>9. ASSUME NEW w \in Workers, CommitBatch(w) PROVE TypeRest'
  BY <1>9 DEF CommitBatch, Released
<1>10. ASSUME NEW w \in Workers, Crash(w) PROVE TypeRest'
  BY <1>10 DEF Crash, Released, NoSnap
<1>11. ASSUME NEW w \in Workers, Scan(w) PROVE TypeRest'
  BY <1>11 DEF Scan, Statuses
<1>12. ASSUME NEW w \in Workers, Look(w) PROVE TypeRest'
  BY <1>12 DEF Look, Statuses
<1>13. ASSUME NEW w \in Workers, NEW old \in SUBSET Users, Reconcile(w, old) PROVE TypeRest'
  BY <1>13 DEF Reconcile, NoSnap
<1>14. ASSUME NEW u \in Users, MoveMarkers(u) PROVE TypeRest'
  BY <1>14 DEF MoveMarkers
<1>17. ASSUME NEW u \in Users, Register(u) PROVE TypeRest'
  BY <1>17 DEF Register
<1>15. CASE UNCHANGED vars
  BY <1>15 DEF vars
<1>16. ASSUME NEW w \in Workers, SendAny(w) PROVE TypeRest'
  <2>1. \A e \in batch[w] : e \in Users \X Nat
    OBVIOUS
  <2> QED BY <1>7, <1>16, <2>1 DEF SendAny
<1> QED BY <1>1, <1>2, <1>3, <1>4, <1>5, <1>6, <1>8, <1>9, <1>10, <1>11, <1>12, <1>13, <1>14,
           <1>15, <1>16, <1>17 DEF Next, RequestStep, WorkerStep, PollAny, ReconcileAny

\* The rows of every user are there after every step.
LEMMA RowsNext ==
  ASSUME TypeOK, IInv, [Next]_vars
  PROVE  /\ state' \in [Users -> States] /\ event' \in [Users -> Seq(Rows)]
         /\ shown' \in [Users -> [version : Nat, status : Statuses \cup {"none"}]]
<1> USE DEF facts, rows, local, remote, counts
<1>1. \A u \in Users : RowInv(u)'
  BY StepOfUser, RowKept DEF IInv
<1> DEFINE Functions == /\ state' = [u \in Users |-> state'[u]]
                       /\ event' = [u \in Users |-> event'[u]]
<1>2. ASSUME UNCHANGED <<state, event>> PROVE Functions
  BY <1>2 DEF TypeOK
<1>3. Functions
  <2>a. ASSUME NEW s \in Requests, RequestStep(s) PROVE Functions
    <3>1. UNCHANGED <<state, event>> \/ \E u, d : Enqueue(u, d)
      BY <2>a DEF RequestStep, GoOnline, GoOffline, Review, Publish, Fail
    <3>2. ASSUME NEW u, NEW d, Enqueue(u, d) PROVE Functions
      BY <3>2 DEF Enqueue, EnqueuedState, EnqueuedEvent
    <3> QED BY <1>2, <3>1, <3>2
  <2>b. ASSUME NEW w \in Workers, CommitBatch(w) PROVE Functions
    BY <2>b DEF CommitBatch, MarkedState, MarkedEvent
  <2>c. ASSUME NEW w \in Workers, NEW old, Reconcile(w, old) PROVE Functions
    BY <2>c DEF Reconcile
  <2>d. ASSUME NEW w \in Workers, WorkerStep(w), ~CommitBatch(w), ~ReconcileAny(w)
        PROVE  UNCHANGED <<state, event>>
    BY <2>d DEF WorkerStep, PollAny, SendAny, Poll, Send, Mark, Crash, Scan, Look
  <2>e. ASSUME NEW u \in Users, MoveMarkers(u) \/ Register(u) PROVE UNCHANGED <<state, event>>
    BY <2>e DEF MoveMarkers, Register
  <2>f. ASSUME UNCHANGED vars PROVE UNCHANGED <<state, event>>
    BY <2>f DEF vars
  <2> HIDE DEF Functions
  <2> QED BY <1>2, <2>a, <2>b, <2>c, <2>d, <2>e, <2>f DEF Next, ReconcileAny
<1>4. shown' = [u \in Users |-> shown'[u]]
  <2> DEFINE Showing == shown' = shown \/ \E u, e : Shows(u, e)
  <2>a. ASSUME NEW s \in Requests, RequestStep(s) PROVE Showing
    BY <2>a DEF RequestStep, GoOnline, GoOffline, Review, Publish, Fail
  <2>b. ASSUME NEW w \in Workers, SendAny(w) PROVE Showing
    BY <2>b DEF SendAny, Send
  <2>c. ASSUME NEW w \in Workers, WorkerStep(w), ~SendAny(w) PROVE Showing
    BY <2>c DEF WorkerStep, PollAny, ReconcileAny, Poll, Mark, CommitBatch, Crash, Scan, Look, Reconcile
  <2>d. ASSUME NEW u \in Users, MoveMarkers(u) \/ Register(u) PROVE Showing
    BY <2>d DEF MoveMarkers, Register
  <2>e. ASSUME UNCHANGED vars PROVE Showing
    <3>1. shown' = shown
      BY <2>e DEF vars
    <3> QED BY <3>1
  <2> HIDE DEF Showing
  <2>1. Showing
    BY <2>a, <2>b, <2>c, <2>d, <2>e DEF Next
  <2>2. shown = [u \in Users |-> shown[u]]
    BY DEF TypeOK
  <2>3. ASSUME NEW u, NEW e, Shows(u, e) PROVE shown' = [x \in Users |-> shown'[x]]
    BY <2>2, <2>3 DEF Shows
  <2> QED BY <2>1, <2>2, <2>3 DEF Showing
<1> QED BY <1>1, <1>3, <1>4 DEF RowInv

\* Every step keeps the types.
LEMMA TypeNext == TypeOK /\ IInv /\ [Next]_vars => TypeOK'
<1> SUFFICES ASSUME TypeOK, IInv, [Next]_vars PROVE TypeOK'
  OBVIOUS
<1>1. TypeRest /\ event \in [Users -> Seq(Rows)]
  BY DEF TypeOK, TypeRest, Rows
<1>2. TypeRest'
  BY <1>1, RestNext
<1> QED BY <1>2, RowsNext DEF TypeOK, TypeRest, Rows, States

\* Everything that is recorded stays true.
LEMMA InvNext == TypeOK /\ IInv /\ [Next]_vars => IInv'
<1> SUFFICES ASSUME TypeOK, IInv, [Next]_vars PROVE IInv'
  OBVIOUS
<1> USE DEF facts, rows, local, remote, counts, Goto
<1> DEFINE Held(w) ==
       /\ batch'[w] \subseteq batch[w] \cup Unsent
       /\ \A m \in marks'[w] : m \in marks[w] \/ (pc[w] = "mark" /\ m = job[w])
       /\ pc'[w] \in {"look", "reconcile"} => \A u \in Users : snap'[w][u] \in Statuses
       /\ pc'[w] = "mark" =>
            \/ pc[w] = "mark" /\ job'[w] = job[w]
            \/ \E u \in Users, i \in Nat, o \in Outcomes : job'[w] = <<u, i, o>> /\ Answered(u, i, o)'
<1>1. \A u \in Users : RowInv(u)'
  BY StepOfUser, RowKept DEF IInv
<1>2. SUFFICES ASSUME NEW w \in Workers PROVE Held(w)
  BY <1>1, HeldStays DEF IInv
<1> w \in Sessions /\ w \notin Requests
  BY OutboxAssumption DEF Sessions
<1>3. CASE UNCHANGED <<batch[w], marks[w], snap[w], pc[w], job[w]>>
  BY <1>3 DEF IInv
<1>4. ASSUME NEW s \in Requests, RequestStep(s) PROVE Held(w)
  <2>1. UNCHANGED <<batch[w], marks[w], snap[w], pc[w], job[w]>>
    BY <1>4 DEF RequestStep, GoOnline, GoOffline, Review, Publish, Fail, TypeOK
  <2> QED BY <1>3, <2>1
<1>5. ASSUME NEW x \in Workers, x # w, WorkerStep(x) PROVE Held(w)
  <2> DEFINE Same == UNCHANGED <<batch[w], marks[w], snap[w], pc[w], job[w]>>
  <2>1. CASE PollAny(x) \/ SendAny(x)
    <3>1. Same
      BY <1>5, <2>1 DEF PollAny, SendAny, Poll, Send, TypeOK
    <3> QED BY <1>3, <3>1
  <2>2. CASE Mark(x) \/ CommitBatch(x) \/ Crash(x)
    <3>1. Same
      BY <1>5, <2>2 DEF Mark, CommitBatch, Crash, TypeOK
    <3> QED BY <1>3, <3>1
  <2>3. CASE Scan(x) \/ Look(x) \/ ReconcileAny(x)
    <3>1. Same
      BY <1>5, <2>3 DEF Scan, Look, ReconcileAny, Reconcile, TypeOK
    <3> QED BY <1>3, <3>1
  <2> QED BY <1>5, <2>1, <2>2, <2>3 DEF WorkerStep
<1>6. ASSUME NEW u \in Users, MoveMarkers(u) \/ Register(u) PROVE Held(w)
  BY <1>3, <1>6 DEF MoveMarkers, Register
<1>7. CASE UNCHANGED vars
  BY <1>3, <1>7 DEF vars
<1>8. CASE PollAny(w)
  BY <1>8 DEF PollAny, Poll, TypeOK
<1>9. CASE SendAny(w)
  <2>1. PICK e \in batch[w], o \in Outcomes : Send(w, e[1], e[2], o)
    BY <1>9 DEF SendAny
  <2> DEFINE u == e[1]
             i == e[2]
  <2>2. u \in Users /\ i \in Nat /\ e = <<u, i>>
    BY DEF TypeOK
  <2>3. RowInv(u) /\ i \in 1 .. Len(event[u])
    BY <2>2 DEF IInv
  <2>4. event[u][i].version = i /\ shown[u].version \in Nat
    BY <2>3 DEF RowInv
  <2>5. event' = event
    BY <2>1 DEF Send
  <2>6. o = "succeeded" => shown'[u].version = i
    BY <2>1, <2>2, <2>4 DEF Send, Shows, TypeOK
  <2>7. o = "conflict" => shown'[u].version > i
    BY <2>1, <2>2, <2>4 DEF Send, Accepts, TypeOK
  <2>8. Answered(u, i, o)'
    BY <2>3, <2>5, <2>6, <2>7 DEF Answered
  <2>9. job'[w] = <<u, i, o>> /\ pc'[w] = "mark" /\ batch'[w] \subseteq batch[w] /\ marks' = marks
    BY <2>1 DEF Send, TypeOK
  <2> QED BY <2>2, <2>8, <2>9
<1>10. CASE Mark(w)
  BY <1>10 DEF Mark, TypeOK
<1>11. CASE CommitBatch(w)
  BY <1>11 DEF CommitBatch, TypeOK
<1>12. CASE Crash(w)
  BY <1>12 DEF Crash, TypeOK
<1>13. CASE Scan(w)
  BY <1>13 DEF Scan, TypeOK, Statuses
<1>14. CASE Look(w)
  BY <1>14 DEF Look, TypeOK, IInv, Statuses
<1>15. CASE ReconcileAny(w)
  BY <1>15 DEF ReconcileAny, Reconcile, TypeOK
<1> QED BY <1>4, <1>5, <1>6, <1>7, <1>8, <1>9, <1>10, <1>11, <1>12, <1>13, <1>14, <1>15
        DEF Next, WorkerStep

\* The types and the record hold in every state.
LEMMA Invariant == Spec => [](TypeOK /\ IInv)
<1>1. Init => TypeOK /\ IInv
  BY Starts
<1>2. (TypeOK /\ IInv) /\ [Next]_vars => (TypeOK /\ IInv)'
  BY TypeNext, InvNext
<1> QED BY <1>1, <1>2, PTL DEF Spec

\* The rows, the sessions and what they hold have their types.
THEOREM OutboxTypeOK == Spec => []TypeOK
BY Invariant, PTL

\* No projection is recorded as synchronised before DiddiFreeID shows it.
THEOREM OutboxSyncedIsShown == Spec => []SyncedIsShown
<1>1. TypeOK /\ IInv => SyncedIsShown
  <2> SUFFICES ASSUME TypeOK, IInv, NEW u \in Users, state[u].sync = "succeeded"
               PROVE  shown[u] = [version |-> state[u].version, status |-> state[u].desired]
    BY DEF SyncedIsShown
  <2>1. shown[u].version = state[u].version /\ shown[u].status = state[u].desired
    BY DEF IInv, RowInv
  <2>2. shown[u] = [version |-> shown[u].version, status |-> shown[u].status]
    BY DEF TypeOK
  <2> QED BY <2>1, <2>2
<1> QED BY <1>1, Invariant, PTL

\* The last event of a driver is never parked as out of date.
THEOREM OutboxLastIsNeverRefused == Spec => []LastIsNeverRefused
<1>1. TypeOK /\ IInv => LastIsNeverRefused
  BY DEF IInv, RowInv, LastIsNeverRefused
<1> QED BY <1>1, Invariant, PTL

\* What the abstract view makes of the rows and of what is on show.
Published == [u \in Users |-> [i \in 1 .. Len(event[u]) |-> event[u][i].desired]]
Seen == [u \in Users |-> shown[u].version]

\* The outbox implements its abstract view: DiddiFreeID shows published
\* statuses, and never an older one after a newer one.
THEOREM OutboxNeverGoesBack == Spec => NeverGoesBack
<1>1. ASSUME Init PROVE View!Init
  <2>1. \A u \in Users : [i \in 1 .. Len(event[u]) |-> event[u][i].desired] = << >>
    <3> SUFFICES ASSUME NEW u \in Users PROVE [i \in 1 .. 0 |-> event[u][i].desired] = << >>
      BY <1>1 DEF Init
    <3>1. [i \in 1 .. 0 |-> event[u][i].desired] \in [1 .. 0 -> {event[u][i].desired : i \in 1 .. 0}]
      OBVIOUS
    <3> QED BY <3>1, SeqDef, EmptySeq
  <2> QED BY <1>1, <2>1 DEF Init, View!Init
<1>2. ASSUME TypeOK, IInv, [Next]_vars PROVE [View!Next]_<<Published, Seen>>
  <2> SUFFICES ASSUME NEW u \in Users
               PROVE  View!Publish(u) \/ View!Show(u) \/ View!Same(u)
    BY DEF View!Next, Published, Seen
  <2>1. RowInv(u) /\ UserStep(u) /\ RowInv(u)'
    BY <1>2, StepOfUser, RowKept DEF IInv
  <2>2. Len(event[u]) \in Nat /\ Len(event'[u]) \in Nat
    BY <2>1 DEF RowInv
  <2> DEFINE old == [i \in 1 .. Len(event[u]) |-> event[u][i].desired]
             new == [i \in 1 .. Len(event'[u]) |-> event'[u][i].desired]
  <2>3. Len(old) = Len(event[u]) /\ Len(new) = Len(event'[u])
    <3>1. old \in [1 .. Len(event[u]) -> Statuses] /\ new \in [1 .. Len(event'[u]) -> Statuses]
      <4>1. /\ \A i \in 1 .. Len(event[u]) : event[u][i] \in Rows
            /\ \A i \in 1 .. Len(event'[u]) : event'[u][i] \in Rows
        BY <2>1 DEF RowInv
      <4> QED BY <4>1 DEF Rows
    <3>2. old \in Seq(Statuses) /\ new \in Seq(Statuses)
      BY <2>2, <3>1, SeqDef
    <3> QED BY <2>2, <3>2, LenProperties
  <2>4. Published[u] = old /\ Published'[u] = new /\ Seen[u] = shown[u].version /\ Seen'[u] = shown'[u].version
    BY DEF Published, Seen
  <2>5. CASE Adds(u) /\ shown'[u] = shown[u]
    <3>1. PICK d \in Statuses :
            event'[u] = Append(event[u], Event(d, state[u].version + 1, "pending"))
      BY <2>5 DEF Adds
    <3>2. Event(d, state[u].version + 1, "pending") \in Rows /\ event[u] \in Seq(Rows)
      BY <2>1 DEF RowInv, Event, Rows, States
    <3>3. /\ Len(event'[u]) = Len(event[u]) + 1
          /\ \A i \in 1 .. Len(event[u]) : event'[u][i] = event[u][i]
      BY <3>1, <3>2, Appended
    <3>4. Len(new) = Len(old) + 1 /\ \A i \in 1 .. Len(old) : new[i] = old[i]
      BY <2>2, <2>3, <3>3
    <3> HIDE DEF old, new
    <3>5. View!Publish(u)
      BY <2>4, <2>5, <3>4 DEF View!Publish, Published, Seen
    <3> QED BY <3>5
  <2>6. ASSUME Keeps(u) \/ Restates(u) PROVE new = old
    BY <2>1, <2>2, <2>6 DEF Keeps, Restates
  <2>7. CASE (Keeps(u) \/ Restates(u)) /\ shown'[u] = shown[u]
    <3>1. View!Same(u)
      BY <2>4, <2>6, <2>7 DEF View!Same, Published, Seen
    <3> QED BY <3>1
  <2>8. CASE Keeps(u) /\ Advances(u)
    <3>1. PICK i \in 1 .. Len(event[u]) :
            /\ i >= shown[u].version
            /\ shown'[u] = [version |-> event[u][i].version, status |-> event[u][i].desired]
      BY <2>8 DEF Advances
    <3>2. shown'[u].version = i /\ shown[u].version \in Nat
      BY <2>1, <3>1 DEF RowInv
    <3>3. new = old
      BY <2>6, <2>8
    <3> HIDE DEF old, new
    <3>4. CASE i = shown[u].version
      <4>1. View!Same(u)
        BY <2>4, <3>2, <3>3, <3>4 DEF View!Same, Published, Seen
      <4> QED BY <4>1
    <3>5. CASE i # shown[u].version
      <4>1. i \in shown[u].version + 1 .. Len(old)
        BY <2>2, <2>3, <3>1, <3>2, <3>5
      <4>2. View!Show(u)
        BY <2>4, <3>2, <3>3, <4>1 DEF View!Show, Published, Seen
      <4> QED BY <4>2
    <3> QED BY <3>4, <3>5
  <2> QED BY <2>1, <2>5, <2>7, <2>8 DEF UserStep
<1> QED BY <1>1, <1>2, Invariant, PTL DEF Spec, NeverGoesBack, View!Spec, Published, Seen
=============================================================================
