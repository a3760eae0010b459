---------------------------- MODULE CollectionProofs ----------------------------
(***************************************************************************)
(* Proofs about Collection, for any sessions, sweeps, rows and intents: the  *)
(* driver's ledger follows the money whatever runs beside what; and as long  *)
(* as only callbacks, sweeps, repairs and confirmations run beside each      *)
(* other, the passenger has one attempt at a time, and an intent is only     *)
(* replaced when it has failed.                                              *)
(***************************************************************************)
EXTENDS Collection, TLAPS

Kept(f, S) == f = [x \in S |-> f[x]]
Shape ==
    /\ Kept(row, Rows) /\ Kept(draft, Rows)
    /\ Kept(posts, Actors) /\ Kept(pc, Actors) /\ Kept(job, Actors)
    /\ Kept(base, Actors) /\ Kept(event, Actors) /\ Kept(todo, Actors)

\* What DiddiPay has answered stays answered, and a success stays one.
Grows(p, q) ==
    \A i \in Intents : /\ p[i] # "absent" => q[i] # "absent"
                       /\ p[i] = "succeeded" => q[i] = "succeeded"
Paid(p) == \E i \in Intents : p[i] = "succeeded"

\* A row, for what DiddiPay says: its intent is known there, and it is shown as
\* paid when an intent has been.
Good(r, p) ==
    /\ IsRow(r)
    /\ r["intent"] # None => p[r["intent"]] # "absent"
    /\ r["status"] = "succeeded" => Paid(p)

\* Each entry has its reason.
Backed(entries, p) ==
    /\ "payout" \in entries => choice = "mobile_money" /\ Paid(p)
    /\ "commission" \in entries => choice = "cash"

\* A request that prepares a mobile payment has an intent, and DiddiPay has
\* answered it once it is past the call.
Prepares(s, p) ==
    /\ pc[s] = "create" => Op(s) = "prepare" /\ Intent(s) \in Intents /\ choice = "mobile_money"
    /\ pc[s] \in {"insert", "read", "update"} /\ Op(s) = "prepare" =>
          Intent(s) \in Intents /\ p[Intent(s)] # "absent"
    /\ pc[s] = "insert" => Op(s) \in {"prepare", "cash", "collect"}

Local(s) ==
    /\ SessionOK(s) /\ Prepares(s, provider)
    /\ Good(base[s], provider)
    /\ Status(s) = "succeeded" => Paid(provider)
    /\ Backed(posts[s], provider)

Global ==
    /\ choice \in Methods
    /\ \A x \in Rows : Good(row[x], provider) /\ Good(draft[x], provider)
    /\ holder \in [Rows -> Actors \cup {Nobody}]
    /\ provider \in [Intents -> Answered \cup {"absent"}]
    /\ choice = "cash" => \A i \in Intents : provider[i] = "absent"
    /\ stored \subseteq Intents \X Answered
    /\ overlaps \in 0 .. MaxOverlaps
    /\ ledger \subseteq {"payout", "commission"} /\ Backed(ledger, provider)

IInv == Shape /\ Global /\ \A s \in Actors : Local(s)

----------------------------------------------------------------------------
(* Rows *)

Columns == {"status", "method", "intent"}

LEMMA RowIs ==
  ASSUME NEW st \in Statuses, NEW m \in Methods, NEW i \in Intents \cup {None}
  PROVE  /\ IsRow(Row(st, m, i)) /\ DOMAIN Row(st, m, i) = Columns
         /\ Row(st, m, i)["status"] = st /\ Row(st, m, i)["method"] = m
         /\ Row(st, m, i)["intent"] = i
BY DEF IsRow, Row, Columns

LEMMA RowParts ==
  ASSUME NEW r, IsRow(r)
  PROVE  /\ DOMAIN r = Columns /\ r["status"] \in Statuses /\ r["method"] \in Methods
         /\ r["intent"] \in Intents \cup {None}
         /\ r = Row(r["status"], r["method"], r["intent"])
<1>1. PICK st \in Statuses, m \in Methods, i \in Intents \cup {None} : r = Row(st, m, i)
  BY DEF IsRow
<1> QED BY <1>1, RowIs

LEMMA NoRowIs ==
  /\ IsRow(NoRow) /\ NoRow["status"] = "none" /\ NoRow["intent"] = None
BY RowIs DEF NoRow, Statuses, Methods

\* The row an update leaves has the columns of the new one or of the old one.
Merge(new, old, now) == [c \in DOMAIN new |-> IF new[c] # old[c] THEN new[c] ELSE now[c]]

LEMMA MergeIs ==
  ASSUME NEW new, NEW old, NEW now, IsRow(new), IsRow(now)
  PROVE  /\ IsRow(Merge(new, old, now))
         /\ Merge(new, old, now)["status"] \in {new["status"], now["status"]}
         /\ Merge(new, old, now)["intent"] \in {new["intent"], now["intent"]}
         /\ old = now => Merge(new, old, now) = new
<1> DEFINE r == Merge(new, old, now)
<1>1. DOMAIN new = Columns /\ DOMAIN now = Columns
  BY RowParts
<1>2. r = [c \in Columns |-> IF new[c] # old[c] THEN new[c] ELSE now[c]]
  BY <1>1 DEF Merge
<1>3. \A c \in Columns : r[c] \in {new[c], now[c]}
  BY <1>2
<1>4. r["status"] \in Statuses /\ r["method"] \in Methods /\ r["intent"] \in Intents \cup {None}
  BY <1>3, RowParts DEF Columns
<1>5. r = Row(r["status"], r["method"], r["intent"])
  BY <1>2 DEF Row, Columns
<1>6. IsRow(r)
  BY <1>4, <1>5 DEF IsRow
<1>7. ASSUME old = now PROVE r = new
  <2>1. new = Row(new["status"], new["method"], new["intent"])
    BY RowParts
  <2>2. \A c \in Columns : r[c] = new[c]
    BY <1>2, <1>7
  <2> QED BY <1>5, <2>1, <2>2 DEF Columns
<1> QED BY <1>3, <1>6, <1>7 DEF Columns

LEMMA WrittenIs ==
  ASSUME NEW s \in Actors, SessionOK(s), NEW old, IsRow(old)
  PROVE  /\ IsRow(Written(s, old))
         /\ Written(s, old)["status"] \in {Status(s), "pending", "collected"}
         /\ Op(s) \notin {"prepare", "cash", "collect"} =>
              Written(s, old)["status"] = Status(s) /\ Written(s, old)["intent"] = old["intent"]
         /\ Op(s) = "prepare" => Written(s, old)["status"] = Status(s)
                                  /\ Written(s, old)["intent"] = Intent(s)
         /\ Op(s) = "cash" => Written(s, old)["intent"] = None /\ Written(s, old)["status"] = "pending"
         /\ Op(s) = "collect" =>
              Written(s, old)["intent"] = old["intent"] /\ Written(s, old)["status"] = "collected"
<1>1. Status(s) \in Statuses /\ Intent(s) \in Intents \cup {None}
  BY DEF SessionOK, Status, Intent
<1>2. /\ DOMAIN old = Columns /\ old["method"] \in Methods /\ old["intent"] \in Intents \cup {None}
      /\ old["status"] \in Statuses /\ old = Row(old["status"], old["method"], old["intent"])
  BY RowParts
<1>3. CASE Op(s) = "prepare"
  BY <1>1, <1>3, RowIs DEF Written, Methods
<1>4. CASE Op(s) = "cash"
  <2>1. Written(s, old) = Row("pending", "cash", None)
    BY <1>4 DEF Written
  <2>2. "pending" \in Statuses /\ "cash" \in Methods /\ None \in Intents \cup {None}
    BY DEF Statuses, Answered, Methods
  <2> QED BY <1>4, <2>1, <2>2, RowIs
<1>5. CASE Op(s) = "collect"
  <2>1. Written(s, old) = Row("collected", "cash", old["intent"])
    BY <1>5 DEF Written
  <2>2. "collected" \in Statuses /\ "cash" \in Methods
    BY DEF Statuses, Methods
  <2> QED BY <1>2, <1>5, <2>1, <2>2, RowIs
<1>6. CASE Op(s) \notin {"prepare", "cash", "collect"}
  <2> DEFINE new == [old EXCEPT !["status"] = Status(s)]
  <2>1. Written(s, old) = new
    BY <1>6 DEF Written
  <2>2. old = [c \in Columns |-> old[c]]
    BY <1>2 DEF Row, Columns
  <2>3. new = [c \in Columns |-> IF c = "status" THEN Status(s) ELSE old[c]]
    BY <2>2 DEF Columns
  <2>4. \A c \in Columns : new[c] = Row(Status(s), old["method"], old["intent"])[c]
    BY <2>3, RowIs, <1>1, <1>2 DEF Columns
  <2>5. Row(Status(s), old["method"], old["intent"])
           = [c \in Columns |-> Row(Status(s), old["method"], old["intent"])[c]]
    BY DEF Row, Columns
  <2>6. new = Row(Status(s), old["method"], old["intent"])
    BY <2>3, <2>4, <2>5
  <2> HIDE DEF new
  <2>7. Written(s, old) = Row(Status(s), old["method"], old["intent"])
    BY <2>1, <2>6
  <2>8. /\ IsRow(Written(s, old)) /\ Written(s, old)["status"] = Status(s)
        /\ Written(s, old)["intent"] = old["intent"]
    BY <1>1, <1>2, <2>7, RowIs
  <2> QED BY <1>6, <2>8
<1> QED BY <1>3, <1>4, <1>5, <1>6

----------------------------------------------------------------------------
(* Steps *)

LEMMA GoodStays ==
  ASSUME NEW r, NEW p, NEW q, Good(r, p), Grows(p, q)
  PROVE  Good(r, q)
BY RowParts DEF Good, Grows, Paid

LEMMA PaidStays ==
  ASSUME NEW p, NEW q, Paid(p), Grows(p, q)
  PROVE  Paid(q)
BY DEF Grows, Paid

LEMMA NoRowGood == \A p : Good(NoRow, p)
BY NoRowIs DEF Good

\* The others keep what they have.
Aside(s) ==
    /\ choice' = choice
    /\ \A u \in Actors \ {s} :
          /\ pc'[u] = pc[u] /\ job'[u] = job[u] /\ base'[u] = base[u] /\ posts'[u] = posts[u]
          /\ event'[u] = event[u] /\ todo'[u] = todo[u]
          /\ \A x \in Rows : holder'[x] = u => holder[x] = u

LEMMA LocalStays ==
  ASSUME NEW s, Aside(s), Grows(provider, provider'), NEW u \in Actors \ {s}, Local(u)
  PROVE  Local(u)'
<1>1. SessionOK(u)'
  BY DEF Aside, Local, SessionOK
<1>2. Prepares(u, provider)'
  BY DEF Aside, Local, Prepares, Op, Intent, Grows
<1>3. Good(base[u], provider)'
  BY GoodStays DEF Aside, Local
<1>4. (Status(u) = "succeeded" => Paid(provider))'
  BY PaidStays DEF Aside, Local, Status
<1>5. Backed(posts[u], provider)'
  BY PaidStays DEF Aside, Local, Backed
<1> QED BY <1>1, <1>2, <1>3, <1>4, <1>5 DEF Local

LEMMA SessionStep ==
  ASSUME IInv, NEW s \in Actors, Aside(s), Grows(provider, provider'),
         Shape', Global', Local(s)'
  PROVE  IInv'
BY LocalStays DEF IInv

LEMMA Same == \A p : Grows(p, p)
BY DEF Grows

LEMMA InitInv == Init => IInv
<1> SUFFICES ASSUME Init PROVE IInv
  OBVIOUS
<1>1. Shape
  BY DEF Init, Shape, Kept
<1>2. Global
  BY NoRowGood, CollectionAssumption DEF Init, Global, Backed
<1>3. ASSUME NEW s \in Actors PROVE Local(s)
  <2>1. job[s] = NoJob /\ pc[s] = "idle" /\ base[s] = NoRow /\ posts[s] = {}
        /\ event[s] = NoEvent /\ todo[s] = {} /\ \A x \in Rows : holder[x] = Nobody
    BY <1>3 DEF Init
  <2>2. SessionOK(s)
    BY <2>1, NoRowIs, CollectionAssumption DEF SessionOK, NoJob, Statuses, Actors
  <2> QED BY <2>1, <2>2, NoRowGood DEF Local, Prepares, Backed, Op, Status, NoJob
<1> QED BY <1>1, <1>2, <1>3 DEF IInv

\* A session starts to work on a row.
LEMMA Starts ==
  ASSUME IInv, NEW s \in Actors, NEW op \in {"prepare", "cash", "collect", "mark"},
         NEW x \in Rows \cup {Nobody}, NEW i \in Intents \cup {None}, NEW st \in Statuses,
         NEW step \in {"create", "insert", "read"},
         Start(s, op, x, i, st, step), UNCHANGED <<choice, database, provider, base, todo>>,
         Kept(event, Actors)', \A u \in Actors \ {s} : event'[u] = event[u],
         event'[s] \in (Intents \X Answered) \cup {NoEvent},
         step = "read" => x \in Rows,
         step = "insert" => op # "mark",
         step = "create" <=> op = "prepare",
         step = "create" => i \in Intents /\ choice = "mobile_money",
         st = "succeeded" => Paid(provider)
  PROVE  IInv'
<1> USE DEF database
<1>1. Shape'
  BY DEF IInv, Shape, Kept, Start, Begin, Goto
<1>2. Global'
  BY CollectionAssumption DEF IInv, Global, Backed, Start, Begin
<1>3. Aside(s)
  BY DEF Aside, Start, Begin, Goto, IInv, Shape, Kept
<1>4. /\ pc'[s] = step /\ job'[s] = <<op, x, i, st>> /\ Local(s) /\ pc[s] = "idle"
      /\ Shape
  BY DEF Start, Begin, Goto, IInv, Shape, Kept
<1>5. SessionOK(s)'
  BY <1>4 DEF Local, SessionOK
<1>6. Prepares(s, provider)'
  BY <1>4 DEF Prepares, Op, Intent
<1>7. Local(s)'
  BY <1>4, <1>5, <1>6 DEF Local, Status, Backed
<1> QED BY <1>1, <1>2, <1>3, <1>7, Same, SessionStep

LEMMA Quietly ==
  ASSUME IInv, NEW s \in Actors, Quiet
  PROVE  /\ UNCHANGED <<choice, database, provider, base, todo>>
         /\ Kept(event, Actors)' /\ \A u \in Actors \ {s} : event'[u] = event[u]
         /\ event'[s] \in (Intents \X Answered) \cup {NoEvent}
BY DEF Quiet, IInv, Shape, Kept, Local, SessionOK

LEMMA PrepareMobileInv ==
  ASSUME IInv, NEW s \in Actors, PrepareMobile(s)
  PROVE  IInv'
<1>1. PICK x \in Rows \cup {Nobody} :
          NextIntent(x) \in Intents /\ Start(s, "prepare", x, NextIntent(x), "none", "create")
  BY DEF PrepareMobile
<1>2. "none" \in Statuses
  BY DEF Statuses
<1>3. Quiet /\ choice = "mobile_money"
  BY DEF PrepareMobile
<1> QED BY <1>1, <1>2, <1>3, Quietly, Starts

LEMMA PrepareCashInv ==
  ASSUME IInv, NEW s \in Actors, PrepareCash(s)
  PROVE  IInv'
<1>1. \E x \in Rows \cup {Nobody}, step \in {"insert", "read"} :
          Start(s, "cash", x, None, "pending", step) /\ (step = "read" => x \in Rows)
  BY DEF PrepareCash
<1>2. "pending" \in Statuses
  BY DEF Statuses, Answered
<1>3. Quiet
  BY DEF PrepareCash
<1> QED BY <1>1, <1>2, <1>3, Quietly, Starts

LEMMA ConfirmCashInv ==
  ASSUME IInv, NEW s \in Actors, ConfirmCash(s)
  PROVE  IInv'
<1>1. \E x \in Rows \cup {Nobody}, step \in {"insert", "read"} :
          Start(s, "collect", x, None, "collected", step) /\ (step = "read" => x \in Rows)
  BY DEF ConfirmCash
<1>2. "collected" \in Statuses
  BY DEF Statuses
<1>3. Quiet
  BY DEF ConfirmCash
<1> QED BY <1>1, <1>2, <1>3, Quietly, Starts

LEMMA RepairInv ==
  ASSUME IInv, NEW s \in Actors, Repair(s)
  PROVE  IInv'
<1>1. PICK x \in Rows : LET i == row[x]["intent"]
                        IN  i # None /\ Start(s, "mark", x, i, provider[i], "read")
  BY DEF Repair
<1> DEFINE i == row[x]["intent"]
<1>2. i \in Intents /\ provider[i] \in Answered
  BY <1>1, RowParts DEF IInv, Global, Good
<1>3. provider[i] \in Statuses /\ (provider[i] = "succeeded" => Paid(provider))
  BY <1>2 DEF Statuses, Paid
<1>4. Quiet
  BY DEF Repair
<1> QED BY <1>1, <1>2, <1>3, <1>4, Quietly, Starts

LEMMA WebhookInv ==
  ASSUME IInv, NEW s \in Actors, NEW e \in Intents \X Answered, Webhook(s, e)
  PROVE  IInv'
<1>1. PICK x \in Rows : Start(s, "mark", x, e[1], e[2], "read")
  BY DEF Webhook
<1>2. e[1] \in Intents /\ e[2] \in Statuses /\ (e[2] = "succeeded" => Paid(provider))
  BY DEF Webhook, Emitted, Statuses, Paid
<1>3. Kept(event, Actors)' /\ (\A u \in Actors \ {s} : event'[u] = event[u]) /\ event'[s] = e
  BY DEF Webhook, IInv, Shape, Kept
<1> QED BY <1>1, <1>2, <1>3, Starts DEF Webhook

\* A step that changes what a session is at, and the list of its sweep.
LEMMA Moves ==
  ASSUME IInv, NEW s \in Actors, Kept(pc, Actors)', Kept(todo, Actors)',
         pc'[s] \in {"sweep", "commit"},
         \A u \in Actors \ {s} : pc'[u] = pc[u] /\ todo'[u] = todo[u],
         todo'[s] \subseteq Rows \X Intents,
         overlaps' \in 0 .. MaxOverlaps,
         UNCHANGED <<choice, database, provider, job, base, event>>
  PROVE  IInv'
<1> USE DEF database
<1>1. Shape' /\ Global' /\ Aside(s)
  BY DEF IInv, Shape, Kept, Global, Backed, Aside
<1>2. SessionOK(s)'
  BY DEF IInv, Local, SessionOK
<1>3. Local(s)'
  BY <1>2 DEF IInv, Local, Prepares, Backed, Status
<1> QED BY <1>1, <1>3, Same, SessionStep

LEMMA BeginSweepInv ==
  ASSUME IInv, NEW s \in Actors, BeginSweep(s)
  PROVE  IInv'
<1>1. Kept(pc, Actors)' /\ Kept(todo, Actors)' /\ pc'[s] = "sweep"
      /\ (\A u \in Actors \ {s} : pc'[u] = pc[u] /\ todo'[u] = todo[u])
      /\ todo'[s] \subseteq Rows \X Intents
  BY DEF BeginSweep, Begin, Goto, IInv, Shape, Kept
<1>2. overlaps' \in 0 .. MaxOverlaps
  BY CollectionAssumption DEF BeginSweep, Begin, IInv, Global
<1> QED BY <1>1, <1>2, Moves DEF BeginSweep

LEMMA SweepDoneInv ==
  ASSUME IInv, NEW s \in Actors, SweepDone(s)
  PROVE  IInv'
<1>1. Kept(pc, Actors)' /\ Kept(todo, Actors)' /\ pc'[s] = "commit"
      /\ (\A u \in Actors \ {s} : pc'[u] = pc[u] /\ todo'[u] = todo[u])
      /\ todo'[s] \subseteq Rows \X Intents
  BY DEF SweepDone, Goto, IInv, Shape, Kept, local, Local, SessionOK
<1> QED BY <1>1, Moves DEF SweepDone, local, IInv, Global

LEMMA SweepRowInv ==
  ASSUME IInv, NEW s \in Actors, SweepRow(s)
  PROVE  IInv'
<1>1. PICK w \in todo[s] :
          /\ todo' = [todo EXCEPT ![s] = @ \ {w}]
          /\ \/ UNCHANGED <<pc, job>>
             \/ /\ provider[w[2]] \in Answered
                /\ job' = [job EXCEPT ![s] = <<"repair", w[1], w[2], provider[w[2]]>>]
                /\ Goto(s, "read")
  BY DEF SweepRow
<1>2. w[1] \in Rows /\ w[2] \in Intents /\ todo[s] \subseteq Rows \X Intents
  BY DEF IInv, Local, SessionOK
<1>3. Kept(todo, Actors)' /\ (\A u \in Actors \ {s} : todo'[u] = todo[u])
      /\ todo'[s] \subseteq Rows \X Intents
  BY <1>1, <1>2 DEF IInv, Shape, Kept
<1>4. CASE UNCHANGED <<pc, job>>
  BY <1>3, <1>4, Moves DEF SweepRow, IInv, Global, Shape, Kept
<1>5. CASE /\ provider[w[2]] \in Answered
           /\ job' = [job EXCEPT ![s] = <<"repair", w[1], w[2], provider[w[2]]>>]
           /\ Goto(s, "read")
  <2> USE DEF database
  <2>1. Shape' /\ Global' /\ Aside(s)
    BY <1>3, <1>5 DEF SweepRow, IInv, Shape, Kept, Global, Backed, Aside, Goto
  <2>2. job'[s] = <<"repair", w[1], w[2], provider[w[2]]>> /\ pc'[s] = "read"
    BY <1>5 DEF Goto, IInv, Shape, Kept
  <2>3. SessionOK(s)'
    BY <1>2, <1>3, <1>5, <2>2 DEF SweepRow, IInv, Local, SessionOK, Statuses
  <2>4. (Status(s) = "succeeded" => Paid(provider))'
    BY <1>2, <2>2 DEF SweepRow, Status, Paid
  <2>5. Local(s)'
    BY <2>2, <2>3, <2>4 DEF SweepRow, IInv, Local, Prepares, Backed, Op
  <2> QED BY <2>1, <2>5, Same, SessionStep DEF SweepRow
<1> QED BY <1>1, <1>4, <1>5

LEMMA CreateIntentInv ==
  ASSUME IInv, NEW s \in Actors, CreateIntent(s)
  PROVE  IInv' /\ Grows(provider, provider')
<1> USE DEF database
<1>1. PICK answer \in Answered :
          /\ provider[Intent(s)] \in {"absent", answer}
          /\ provider' = [provider EXCEPT ![Intent(s)] = answer]
          /\ job' = [job EXCEPT ![s] = <<"prepare", Target(s), Intent(s), answer>>]
  BY DEF CreateIntent
<1>2. Op(s) = "prepare" /\ Intent(s) \in Intents /\ choice = "mobile_money"
      /\ Target(s) \in Rows \cup {Nobody} /\ SessionOK(s) /\ Local(s)
  BY DEF CreateIntent, IInv, Local, Prepares, SessionOK, Target
<1>3. provider' \in [Intents -> Answered \cup {"absent"}] /\ provider'[Intent(s)] = answer
  BY <1>1, <1>2 DEF IInv, Global
<1>4. Grows(provider, provider')
  BY <1>1, <1>2 DEF Grows, IInv, Global, Answered
<1>5. /\ job'[s] = <<"prepare", Target(s), Intent(s), answer>>
      /\ pc'[s] = IF Target(s) = Nobody THEN "insert" ELSE "read"
  BY <1>1 DEF CreateIntent, Goto, IInv, Shape, Kept
<1>6. Shape' /\ Aside(s)
  BY <1>1 DEF CreateIntent, Goto, IInv, Shape, Kept, Aside
<1>7. Global'
  <2>1. \A x \in Rows : Good(row[x], provider)' /\ Good(draft[x], provider)'
    BY <1>4, GoodStays DEF CreateIntent, IInv, Global
  <2>2. Backed(ledger, provider)'
    BY <1>4, PaidStays DEF CreateIntent, IInv, Global, Backed
  <2> QED BY <1>2, <1>3, <2>1, <2>2 DEF CreateIntent, IInv, Global
<1>8. SessionOK(s)'
  BY <1>2, <1>5 DEF CreateIntent, SessionOK, Statuses
<1>9. Prepares(s, provider)'
  BY <1>2, <1>3, <1>5 DEF Prepares, Op, Intent, Answered
<1>10. (Status(s) = "succeeded" => Paid(provider))'
  BY <1>2, <1>3, <1>5 DEF Status, Paid
<1>11. Good(base[s], provider)' /\ Backed(posts[s], provider)'
  BY <1>2, <1>4, GoodStays, PaidStays DEF CreateIntent, Local, Backed
<1>12. Local(s)'
  BY <1>8, <1>9, <1>10, <1>11 DEF Local
<1> QED BY <1>4, <1>6, <1>7, <1>12, SessionStep

LEMMA Retargeted ==
  ASSUME NEW s \in Actors, SessionOK(s), Kept(job, Actors), NEW x \in Rows,
         job' = [job EXCEPT ![s][2] = x]
  PROVE  /\ job'[s] = <<Op(s), x, Intent(s), Status(s)>>
         /\ Kept(job, Actors)' /\ \A u \in Actors \ {s} : job'[u] = job[u]
<1>1. job'[s] = [job[s] EXCEPT ![2] = x] /\ Kept(job, Actors)'
      /\ \A u \in Actors \ {s} : job'[u] = job[u]
  BY DEF Kept
<1>2. PICK a, b, i, st : job[s] = <<a, b, i, st>>
  BY DEF SessionOK
<1>3. [<<a, b, i, st>> EXCEPT ![2] = x] = <<a, x, i, st>>
  OBVIOUS
<1> QED BY <1>1, <1>2, <1>3 DEF Op, Intent, Status

LEMMA Writes ==
  ASSUME IInv, NEW s \in Actors, NEW x \in Rows, NEW new, Good(new, provider), Write(s, x, new),
         pc[s] \in {"insert", "update"},
         Kept(base, Actors)', \A u \in Actors \ {s} : base'[u] = base[u],
         Good(base'[s], provider)
  PROVE  IInv'
<1>1. SessionOK(s) /\ Local(s) /\ Kept(job, Actors)
  BY DEF IInv, Local, Shape
<1>2. /\ job'[s] = <<Op(s), x, Intent(s), Status(s)>>
      /\ Kept(job, Actors)' /\ \A u \in Actors \ {s} : job'[u] = job[u]
  BY <1>1, Retargeted DEF Write
<1>3. Kept(pc, Actors)' /\ pc'[s] \in {"settle", "commit"}
      /\ \A u \in Actors \ {s} : pc'[u] = pc[u]
  BY DEF Write, Goto, IInv, Shape, Kept
<1>4. Shape'
  BY <1>2, <1>3 DEF Write, IInv, Shape, Kept
<1>5. /\ holder' \in [Rows -> Actors \cup {Nobody}]
      /\ \A u \in Actors \ {s}, y \in Rows : holder'[y] = u => holder[y] = u
  BY CollectionAssumption DEF Write, IInv, Global, RowFree
<1>6. \A y \in Rows : Good(draft'[y], provider)
  BY DEF Write, IInv, Global, Shape, Kept
<1>7. Global'
  BY <1>5, <1>6 DEF Write, IInv, Global, Backed
<1>8. Aside(s)
  BY <1>2, <1>3, <1>5 DEF Write, Aside
<1>9. SessionOK(s)'
  BY <1>1, <1>2, <1>3 DEF Write, SessionOK, Good, Op, Intent, Status
<1>10. Local(s)'
  BY <1>1, <1>2, <1>3, <1>9 DEF Write, Local, Prepares, Backed, Status
<1>11. Grows(provider, provider')
  BY Same DEF Write
<1> QED BY <1>4, <1>7, <1>8, <1>10, <1>11, SessionStep

LEMMA InsertInv ==
  ASSUME IInv, NEW s \in Actors, Insert(s)
  PROVE  IInv'
<1> DEFINE new == Written(s, NoRow)
<1>1. PICK x \in Rows : Write(s, x, new)
  BY DEF Insert
<1>2. pc[s] = "insert" /\ Kept(base, Actors)' /\ (\A u \in Actors : base'[u] = base[u])
      /\ SessionOK(s) /\ Local(s)
  BY DEF Insert, IInv, Shape, Kept, Local
<1>3. Good(new, provider)
  <2>1. IsRow(new) /\ new["status"] \in {Status(s), "pending", "collected"}
    BY <1>2, NoRowIs, WrittenIs
  <2>2. new["intent"] # None => Op(s) = "prepare" /\ new["intent"] = Intent(s)
    BY <1>2, NoRowIs, WrittenIs
  <2> QED BY <1>2, <2>1, <2>2 DEF Good, Local, Prepares
<1> HIDE DEF new
<1> QED BY <1>1, <1>2, <1>3, Writes DEF Local

LEMMA ReadInv ==
  ASSUME IInv, NEW s \in Actors, Read(s)
  PROVE  IInv'
<1> USE DEF database
<1>1. pc[s] = "read" /\ pc'[s] = "update" /\ base'[s] = View(s, Target(s)) /\ Target(s) \in Rows
  BY DEF Read, Goto, IInv, Shape, Kept, Local, SessionOK, Target
<1>2. Good(base'[s], provider)
  BY <1>1 DEF View, IInv, Global
<1>3. Shape' /\ Aside(s)
  BY DEF Read, Goto, IInv, Shape, Kept, Aside
<1>4. Global'
  BY DEF Read, IInv, Global, Backed
<1>5. SessionOK(s)'
  BY <1>1, <1>2 DEF Read, IInv, Local, SessionOK, Good
<1>6. Prepares(s, provider)'
  BY <1>1 DEF Read, IInv, Local, Prepares, Op, Intent
<1>7. Local(s)'
  BY <1>2, <1>5, <1>6 DEF Read, IInv, Local, Backed, Status
<1>8. Grows(provider, provider')
  BY Same DEF Read
<1> QED BY <1>3, <1>4, <1>7, <1>8, SessionStep

LEMMA UpdateInv ==
  ASSUME IInv, NEW s \in Actors, Update(s)
  PROVE  IInv'
<1> DEFINE x == Target(s)
           new == Written(s, base[s])
           r == Merge(new, base[s], View(s, x))
<1>1. pc[s] = "update" /\ x \in Rows /\ SessionOK(s) /\ Local(s)
  BY DEF Update, IInv, Local, SessionOK, Target
<1>2. Write(s, x, r)
  BY DEF Update, Merge
<1>3. Good(View(s, x), provider) /\ Good(base[s], provider)
  BY <1>1 DEF View, IInv, Global, Local
<1>4. Good(new, provider)
  <2>1. IsRow(new) /\ new["status"] \in {Status(s), "pending", "collected"}
    BY <1>1, <1>3, WrittenIs DEF Good
  <2>2. \/ new["intent"] \in {None, base[s]["intent"]}
        \/ Op(s) = "prepare" /\ new["intent"] = Intent(s)
    BY <1>1, <1>3, WrittenIs DEF Good
  <2> QED BY <1>1, <1>3, <2>1, <2>2 DEF Good, Local, Prepares
<1>5. Good(r, provider)
  <2> HIDE DEF new
  <2>1. IsRow(r) /\ r["status"] \in {new["status"], View(s, x)["status"]}
        /\ r["intent"] \in {new["intent"], View(s, x)["intent"]}
    BY <1>3, <1>4, MergeIs DEF Good
  <2> QED BY <1>3, <1>4, <2>1 DEF Good
<1>6. Kept(base, Actors)' /\ (\A u \in Actors \ {s} : base'[u] = base[u]) /\ base'[s] = NoRow
  BY DEF Update, IInv, Shape, Kept
<1> HIDE DEF r, x
<1> QED BY <1>1, <1>2, <1>5, <1>6, NoRowGood, Writes

\* An entry has its reason in the row it is made for.
LEMMA EntryBacked ==
  ASSUME NEW r, NEW p, Good(r, p)
  PROVE  Entry(r["status"]) \subseteq {"payout", "commission"} /\ Backed(Entry(r["status"]), p)
BY DEF Entry, Good, Backed

LEMMA SettleInv ==
  ASSUME IInv, NEW s \in Actors, Settle(s)
  PROVE  IInv'
<1> USE DEF local
<1> DEFINE x == Target(s)
           entry == Entry(View(s, x)["status"])
<1>1. pc[s] = "settle" /\ x \in Rows /\ SessionOK(s) /\ Local(s)
  BY DEF Settle, IInv, Local, SessionOK, Target
<1>2. Good(View(s, x), provider)
  BY <1>1 DEF View, IInv, Global
<1>3. entry \subseteq {"payout", "commission"} /\ Backed(entry, provider)
  BY <1>2, EntryBacked
<1>4. posts' = [posts EXCEPT ![s] = @ \cup (entry \ ledger)] /\ pc'[s] \in {"sweep", "commit"}
      /\ Kept(pc, Actors)' /\ \A u \in Actors \ {s} : pc'[u] = pc[u]
  BY DEF Settle, Goto, IInv, Shape, Kept
<1> HIDE DEF entry
<1>5. posts'[s] = posts[s] \cup (entry \ ledger) /\ Kept(posts, Actors)'
      /\ \A u \in Actors \ {s} : posts'[u] = posts[u]
  BY <1>4 DEF IInv, Shape, Kept
<1>6. Shape' /\ Aside(s)
  BY <1>4, <1>5 DEF Settle, IInv, Shape, Kept, Aside
<1>7. Global'
  BY DEF Settle, IInv, Global, Backed
<1>8. SessionOK(s)'
  BY <1>1, <1>3, <1>4, <1>5 DEF Settle, SessionOK
<1>9. Backed(posts[s], provider)'
  BY <1>1, <1>3, <1>5 DEF Settle, Local, Backed
<1>10. Local(s)'
  BY <1>1, <1>4, <1>8, <1>9 DEF Settle, Local, Prepares, Status
<1>11. Grows(provider, provider')
  BY Same DEF Settle
<1> QED BY <1>6, <1>7, <1>10, <1>11, SessionStep

\* The end of a request, whose writes are published or not.
LEMMA Ends ==
  ASSUME IInv, NEW s \in Actors, End(s), Kept(row, Rows)',
         \A x \in Rows : row'[x] \in {row[x], View(s, x)},
         ledger' \in {ledger, ledger \cup posts[s]},
         stored' \in {stored, stored \cup ({event[s]} \ {NoEvent})}
  PROVE  IInv'
<1>1. SessionOK(s) /\ Local(s) /\ Shape /\ Global
  BY DEF IInv, Local
<1>2. /\ pc'[s] = "idle" /\ job'[s] = NoJob /\ base'[s] = NoRow /\ posts'[s] = {}
      /\ event'[s] = NoEvent /\ todo'[s] = {} /\ \A x \in Rows : holder'[x] # s
  BY <1>1, CollectionAssumption DEF End, Goto, Shape, Kept
<1>3. Shape'
  BY <1>1 DEF End, Goto, Shape, Kept
<1>4. Aside(s)
  BY <1>1, CollectionAssumption DEF End, Goto, Shape, Kept, Aside, Global
<1>5. Global'
  <2>1. \A x \in Rows : Good(row'[x], provider) /\ Good(draft'[x], provider)
    BY <1>1, NoRowGood DEF End, Global, View
  <2>2. holder' \in [Rows -> Actors \cup {Nobody}]
    BY <1>1 DEF End, Global
  <2>3. ledger' \subseteq {"payout", "commission"} /\ Backed(ledger', provider)
    BY <1>1 DEF Global, Local, SessionOK, Backed
  <2>4. stored' \subseteq Intents \X Answered
    BY <1>1 DEF Global, SessionOK
  <2> QED BY <1>1, <2>1, <2>2, <2>3, <2>4 DEF End, Global, Backed
<1>6. SessionOK(s)'
  BY <1>2, NoRowIs DEF SessionOK, NoJob, Statuses
<1>7. Local(s)'
  BY <1>2, <1>6, NoRowGood DEF Local, Prepares, Backed, Op, Status, NoJob
<1>8. Grows(provider, provider')
  BY Same DEF End
<1> QED BY <1>3, <1>4, <1>5, <1>7, <1>8, SessionStep

LEMMA CommitInv ==
  ASSUME IInv, NEW s \in Actors, Commit(s)
  PROVE  IInv'
<1>1. row' = [x \in Rows |-> View(s, x)]
  BY DEF Commit
<1>2. Kept(row, Rows)' /\ \A x \in Rows : row'[x] = View(s, x)
  BY <1>1 DEF Kept
<1> QED BY <1>2, Ends DEF Commit

LEMMA AbortInv ==
  ASSUME IInv, NEW s \in Actors, Abort(s)
  PROVE  IInv'
BY Ends DEF Abort, IInv, Shape, Kept

LEMMA ConcludeInv ==
  ASSUME IInv, NEW i \in Intents, Conclude(i)
  PROVE  IInv'
<1> USE DEF database, local
<1>1. PICK answer \in {"succeeded", "failed"} : provider' = [provider EXCEPT ![i] = answer]
  BY DEF Conclude
<1>2. Grows(provider, provider') /\ provider' \in [Intents -> Answered \cup {"absent"}]
  BY <1>1 DEF Conclude, IInv, Global, Grows, Answered
<1>3. Shape'
  BY DEF Conclude, IInv, Shape, Kept
<1>4. Global'
  <2>1. \A x \in Rows : Good(row[x], provider)' /\ Good(draft[x], provider)'
    BY <1>2, GoodStays DEF Conclude, IInv, Global
  <2>2. Backed(ledger, provider)'
    BY <1>2, PaidStays DEF Conclude, IInv, Global, Backed
  <2>3. (choice = "cash" => \A j \in Intents : provider[j] = "absent")'
    BY DEF Conclude, IInv, Global
  <2> QED BY <1>2, <2>1, <2>2, <2>3 DEF Conclude, IInv, Global
<1>5. ASSUME NEW u \in Actors PROVE Local(u)'
  <2>1. SessionOK(u)' /\ Prepares(u, provider)'
    BY <1>2 DEF Conclude, IInv, Local, SessionOK, Prepares, Op, Intent, Grows
  <2>2. Good(base[u], provider)'
    BY <1>2, GoodStays DEF Conclude, IInv, Local
  <2>3. (Status(u) = "succeeded" => Paid(provider))' /\ Backed(posts[u], provider)'
    BY <1>2, PaidStays DEF Conclude, IInv, Local, Backed, Status
  <2> QED BY <2>1, <2>2, <2>3 DEF Local
<1> QED BY <1>3, <1>4, <1>5 DEF IInv

LEMMA NextInv == IInv /\ [Next]_vars => IInv'
<1> SUFFICES ASSUME IInv, [Next]_vars PROVE IInv'
  OBVIOUS
<1>1. CASE UNCHANGED vars
  <2> USE DEF vars, database, local
  <2>1. Shape' /\ Global'
    BY <1>1 DEF IInv, Shape, Kept, Global, Backed
  <2>2. \A s \in Actors : Local(s)'
    BY <1>1 DEF IInv, Local, SessionOK, Prepares, Backed, Op, Intent, Status
  <2> QED BY <2>1, <2>2 DEF IInv
<1>2. ASSUME NEW s \in Sessions,
             \/ PrepareMobile(s) \/ PrepareCash(s) \/ ConfirmCash(s) \/ Repair(s)
             \/ \E e \in Intents \X Answered : Webhook(s, e)
      PROVE  IInv'
  <2>1. s \in Actors
    BY DEF Actors
  <2> QED BY <1>2, <2>1, PrepareMobileInv, PrepareCashInv, ConfirmCashInv, RepairInv, WebhookInv
<1>3. ASSUME NEW s \in Sweepers, BeginSweep(s) PROVE IInv'
  BY <1>3, BeginSweepInv DEF Actors
<1>4. ASSUME NEW s \in Actors,
             \/ CreateIntent(s) \/ Insert(s) \/ Read(s) \/ Update(s) \/ Settle(s)
             \/ SweepRow(s) \/ SweepDone(s) \/ Commit(s) \/ Abort(s)
      PROVE  IInv'
  BY <1>4, CreateIntentInv, InsertInv, ReadInv, UpdateInv, SettleInv, SweepRowInv, SweepDoneInv,
     CommitInv, AbortInv
<1>5. ASSUME NEW i \in Intents, Conclude(i) PROVE IInv'
  BY <1>5, ConcludeInv
<1> QED BY <1>1, <1>2, <1>3, <1>4, <1>5 DEF Next

THEOREM Invariant == Spec => []IInv
BY InitInv, NextInv, PTL DEF Spec

\* Rows, sessions and what DiddiPay holds keep their types, whatever overlaps.
THEOREM Typing == Spec => []TypeOK
<1>1. IInv => TypeOK
  BY DEF IInv, Global, Local, Good, TypeOK
<1> QED BY <1>1, Invariant, PTL

\* A payout is booked for a ride to be paid by mobile money that an intent has
\* paid, a commission for a cash ride that DiddiPay knows nothing of, never
\* both, whatever requests, callbacks and sweeps overlap
\* (_record_ride_settlement).
THEOREM MoneyIsFollowed == Spec => []LedgerFollowsMoney
<1>1. IInv => LedgerFollowsMoney
  <2>1. 1 \in Intents
    BY CollectionAssumption DEF Intents
  <2> QED BY <2>1 DEF IInv, Global, Backed, Paid, LedgerFollowsMoney
<1> QED BY <1>1, Invariant, PTL

----------------------------------------------------------------------------
(* Sessions that are kept together *)

\* DiddiPay holds no intent beyond the one that may follow that of the row, and
\* a row that shows a failure has an intent that has failed.
Last(r) ==
    r["intent"] # None =>
        /\ \A j \in Intents : j > r["intent"] + 1 => provider[j] = "absent"
        /\ r["status"] = "failed" => provider[r["intent"]] = "failed"

\* The row an uncommitted one replaces has lost its intent for a failure only.
Replaces(new, old) ==
    old["intent"] \notin {None, new["intent"]} => provider[old["intent"]] = "failed"

Orderly ==
    /\ OneAttemptAtATime
    /\ \A x \in Rows : Last(row[x]) /\ (x \in Found => row[x]["status"] # "none")
    /\ Found = {} => \A j \in Intents : j > 1 => provider[j] = "absent"

\* Two sessions that are at work both leave intents as they are.
Together ==
    \A u, v \in Actors :
        u # v /\ pc[u] # "idle" /\ pc[v] # "idle" => Found # {} /\ {Op(u), Op(v)} \subseteq Marking

\* The intent a mobile payment is about to have is the first one, or it follows
\* one that has failed.
Follows(s) ==
    \/ /\ Target(s) = Nobody /\ Found = {} /\ Intent(s) = 1
       /\ pc[s] \notin {"read", "update"}
    \/ /\ Target(s) \in Rows /\ Alone(Target(s)) /\ pc[s] # "insert"
       /\ row[Target(s)]["intent"] # None /\ row[Target(s)]["status"] = "failed"
       /\ Intent(s) = row[Target(s)]["intent"] + 1

\* The status a request brings is what DiddiPay says of its intent.
Brings(s) ==
    /\ Intent(s) \in Intents /\ Status(s) \in Answered
    /\ Status(s) = "failed" => provider[Intent(s)] = "failed"

\* What a session has listed is still so, and what it has written replaces a
\* failed intent, or none when it is one of those kept together.
Holds(s) ==
    /\ \A w \in todo[s] : row[w[1]]["intent"] = w[2]
    /\ \A x \in Rows : holder[x] = s =>
          /\ draft[x]["status"] # "none" /\ Last(draft[x]) /\ Replaces(draft[x], row[x])
          /\ Op(s) \in Marking => draft[x]["intent"] = row[x]["intent"]

\* The row a session works on, and what it has read of it.
Targets(s) ==
    /\ pc[s] \in {"read", "update"} =>
          /\ Op(s) \in {"prepare", "cash", "collect", "mark", "repair"} /\ Target(s) \in Found
          /\ Op(s) = "cash" => row[Target(s)]["status"] = "failed"
          /\ Op(s) \in {"mark", "repair"} => Brings(s) /\ row[Target(s)]["intent"] = Intent(s)
    /\ pc[s] = "update" =>
          /\ base[s]["intent"] = row[Target(s)]["intent"]
          /\ Op(s) \notin Marking => base[s] = row[Target(s)]

Works(s) ==
    /\ pc[s] = "idle" => Op(s) = "none"
    /\ pc[s] = "sweep" => Op(s) \in {"none", "repair"}
    /\ pc[s] \in {"create", "insert", "read", "update"} /\ Op(s) # "repair" =>
          todo[s] = {} /\ \A x \in Rows : holder[x] # s
    /\ pc[s] = "create" => Follows(s)
    /\ pc[s] \in {"insert", "read", "update"} /\ Op(s) = "prepare" => Follows(s) /\ Brings(s)
    /\ Targets(s) /\ Holds(s)

WInv == IInv /\ Orderly /\ Together /\ \A s \in Actors : Works(s)

\* What a step that leaves rows and DiddiPay alone keeps.
LEMMA OrderlyStays ==
  ASSUME Orderly, UNCHANGED <<row, provider>>, overlaps' = 0, overlaps = 0
  PROVE  Orderly'
BY DEF Orderly, OneAttemptAtATime, Last, Found

\* Between two requests there is nothing to keep.
LEMMA IdleWorks ==
  ASSUME IInv, NEW s \in Actors, pc[s] = "idle", Op(s) = "none"
  PROVE  Works(s)
BY DEF IInv, Local, SessionOK, Works, Targets, Holds, Marking

\* What the others keep when a session changes neither rows nor DiddiPay.
LEMMA WorksStays ==
  ASSUME IInv, NEW s \in Actors, Aside(s), UNCHANGED <<row, provider>>,
         NEW u \in Actors \ {s}, Works(u),
         \A x \in Rows : holder[x] = u => draft'[x] = draft[x]
  PROVE  Works(u)'
<1>1. /\ Op(u)' = Op(u) /\ Target(u)' = Target(u) /\ Intent(u)' = Intent(u)
      /\ Status(u)' = Status(u) /\ pc'[u] = pc[u] /\ Found' = Found
  BY DEF Aside, Op, Target, Intent, Status, Found
<1>2. Follows(u)' <=> Follows(u)
  BY <1>1 DEF Follows, Alone
<1>3. Brings(u)' <=> Brings(u)
  BY <1>1 DEF Brings
<1>4. Targets(u)'
  BY <1>1, <1>3 DEF Works, Targets, Aside, Marking
<1>5. Holds(u)'
  BY <1>1 DEF Works, Holds, Aside, Last, Replaces, Marking
<1> QED BY <1>1, <1>2, <1>3, <1>4, <1>5 DEF Works, Aside

\* A session that changes rows or DiddiPay beside nobody.
LEMMA OthersAreIdle ==
  ASSUME IInv, IInv', NEW s \in Actors, Aside(s), NEW u \in Actors \ {s}, Works(u), pc[u] = "idle"
  PROVE  Works(u)'
<1>1. pc'[u] = "idle" /\ Op(u)' = "none"
  BY DEF Aside, Works, Op
<1>2. SessionOK(u)'
  BY DEF IInv, Local
<1> QED BY <1>1, <1>2 DEF SessionOK, Works, Targets, Holds, Marking

\* Together holds on when nobody starts.
LEMMA TogetherStays ==
  ASSUME Together, NEW s \in Actors, Aside(s), pc[s] # "idle",
         Op(s)' = Op(s) \/ {Op(s), Op(s)'} \subseteq Marking \/ pc'[s] = "idle",
         Found # {} => Found' # {}
  PROVE  Together'
<1>1. \A u \in Actors \ {s} : pc'[u] = pc[u] /\ Op(u)' = Op(u)
  BY DEF Aside, Op
<1>2. \A u \in Actors \ {s} : pc'[u] # "idle" /\ pc'[s] # "idle" =>
          Found' # {} /\ {Op(s)', Op(u)'} \subseteq Marking
  BY <1>1 DEF Together, Marking
<1>3. \A u, v \in Actors \ {s} : u # v /\ pc'[u] # "idle" /\ pc'[v] # "idle" =>
          Found' # {} /\ {Op(u)', Op(v)'} \subseteq Marking
  BY <1>1 DEF Together, Marking
<1> QED BY <1>2, <1>3 DEF Together, Marking

LEMMA WInit == Init /\ IInv => WInv
<1> SUFFICES ASSUME Init, IInv PROVE WInv
  OBVIOUS
<1>1. Orderly
  BY NoRowIs DEF Init, Orderly, OneAttemptAtATime, Last, Found
<1>2. \A s \in Actors : pc[s] = "idle" /\ Op(s) = "none"
  BY DEF Init, Op, NoJob
<1> QED BY <1>1, <1>2, IdleWorks DEF WInv, Together

\* A session that starts while no overlap is counted starts alone, or is kept
\* together with those at work.
LEMMA BeginsTogether ==
  ASSUME WInv, NEW s \in Actors, NEW op, NEW step, Begin(s, op, step), step # "idle",
         overlaps' = 0, UNCHANGED row, Op(s)' = op,
         \A u \in Actors \ {s} : Op(u)' = Op(u)
  PROVE  /\ Together' /\ overlaps = 0
         /\ op \notin Marking => \A x \in Rows : holder[x] = Nobody
<1>1. KeptTogether(s, op) /\ overlaps = 0
  BY DEF Begin, WInv, IInv, Global
<1>2. \A u \in Actors \ {s} : pc'[u] = pc[u]
  BY DEF Begin, Goto, WInv, IInv, Shape, Kept
<1>3. Found' = Found
  BY DEF Found
<1>4. Together'
  BY <1>1, <1>2, <1>3 DEF WInv, Together, KeptTogether, Marking
<1>5. ASSUME op \notin Marking, NEW x \in Rows, holder[x] # Nobody PROVE FALSE
  <2>1. holder[x] \in Actors /\ pc[holder[x]] = "idle"
    BY <1>1, <1>5 DEF Begin, KeptTogether, WInv, IInv, Global
  <2> QED BY <2>1 DEF WInv, IInv, Local, SessionOK
<1> QED BY <1>1, <1>4, <1>5

\* A session starts to work on a row.
LEMMA WStarts ==
  ASSUME WInv, IInv', NEW s \in Actors, overlaps' = 0,
         NEW op \in {"prepare", "cash", "collect", "mark"},
         NEW x \in Rows \cup {Nobody}, NEW i, NEW st, NEW step \in {"create", "insert", "read"},
         Start(s, op, x, i, st, step), UNCHANGED <<choice, row, holder, draft, provider, base, todo, posts>>,
         \A u \in Actors \ {s} : event'[u] = event[u],
         step = "create" <=> op = "prepare",
         step = "create" =>
            \/ x = Nobody /\ Found = {} /\ i = 1
            \/ /\ x \in Rows /\ Alone(x)
               /\ row[x]["intent"] # None /\ row[x]["status"] = "failed" /\ i = row[x]["intent"] + 1,
         step = "read" => x \in Found,
         op = "cash" /\ step = "read" => row[x]["status"] = "failed",
         op = "mark" => /\ i \in Intents /\ st \in Answered /\ row[x]["intent"] = i
                        /\ st = "failed" => provider[i] = "failed"
  PROVE  WInv'
<1>1. /\ pc[s] = "idle" /\ pc'[s] = step /\ job'[s] = <<op, x, i, st>>
      /\ (\A u \in Actors \ {s} : pc'[u] = pc[u] /\ job'[u] = job[u])
      /\ Begin(s, op, step)
  BY DEF Start, Begin, Goto, WInv, IInv, Shape, Kept
<1>2. Op(s)' = op /\ Target(s)' = x /\ Intent(s)' = i /\ Status(s)' = st
      /\ \A u \in Actors \ {s} : Op(u)' = Op(u)
  BY <1>1 DEF Op, Target, Intent, Status
<1>3. Together' /\ overlaps = 0
  BY <1>1, <1>2, BeginsTogether
<1>4. Orderly'
  BY <1>3, OrderlyStays DEF WInv
<1>5. Aside(s)
  BY <1>1 DEF Aside
<1>6. \A u \in Actors \ {s} : Works(u)'
  BY <1>5, WorksStays DEF WInv
<1>7. todo'[s] = {} /\ \A y \in Rows : holder'[y] # s
  BY <1>1 DEF WInv, IInv, Local, SessionOK
<1>8. step = "create" => Follows(s)'
  BY <1>1, <1>2 DEF Follows, Found, Alone
<1>9. op = "mark" => Brings(s)'
  BY <1>2 DEF Brings
<1>10. Targets(s)' /\ Holds(s)'
  BY <1>1, <1>2, <1>7, <1>9 DEF Targets, Holds, Found
<1>11. Works(s)'
  BY <1>1, <1>2, <1>7, <1>8, <1>10 DEF Works
<1> QED BY <1>3, <1>4, <1>6, <1>11 DEF WInv

LEMMA WRequests ==
  ASSUME WInv, IInv', NEW s \in Actors, overlaps' = 0,
         \/ PrepareMobile(s) \/ PrepareCash(s) \/ ConfirmCash(s) \/ Repair(s)
         \/ \E e \in Intents \X Answered : Webhook(s, e)
  PROVE  WInv'
<1> USE DEF database
<1>1. CASE PrepareMobile(s)
  <2>1. PICK x \in Rows \cup {Nobody} :
            /\ \/ x = Nobody /\ Found = {}
               \/ /\ x \in Rows /\ Alone(x)
                  /\ row[x]["intent"] # None /\ row[x]["status"] = "failed"
            /\ Start(s, "prepare", x, NextIntent(x), "none", "create")
    BY <1>1 DEF PrepareMobile
  <2>2. /\ x = Nobody => NextIntent(x) = 1
        /\ x \in Rows => NextIntent(x) = row[x]["intent"] + 1
    BY CollectionAssumption DEF NextIntent
  <2> QED BY <1>1, <2>1, <2>2, WStarts DEF PrepareMobile, Quiet
<1>2. CASE PrepareCash(s)
  <2>1. \/ Start(s, "cash", Nobody, None, "pending", "insert")
        \/ \E x \in Rows : /\ x \in Found /\ row[x]["status"] = "failed"
                           /\ Start(s, "cash", x, None, "pending", "read")
    BY <1>2 DEF PrepareCash, Replaceable, Alone
  <2> QED BY <1>2, <2>1, WStarts DEF PrepareCash, Quiet
<1>3. CASE ConfirmCash(s)
  <2>1. \/ Start(s, "collect", Nobody, None, "collected", "insert")
        \/ \E x \in Rows : x \in Found /\ Start(s, "collect", x, None, "collected", "read")
    BY <1>3 DEF ConfirmCash, Alone
  <2> QED BY <1>3, <2>1, WStarts DEF ConfirmCash, Quiet
<1>4. CASE Repair(s)
  <2>1. PICK x \in Rows : LET i == row[x]["intent"]
                          IN  x \in Found /\ i # None /\ Start(s, "mark", x, i, provider[i], "read")
    BY <1>4 DEF Repair, Alone
  <2>2. row[x]["intent"] \in Intents /\ provider[row[x]["intent"]] \in Answered
    BY <2>1, RowParts DEF WInv, IInv, Global, Good
  <2> QED BY <1>4, <2>1, <2>2, WStarts DEF Repair, Quiet
<1>5. ASSUME NEW e \in Intents \X Answered, Webhook(s, e) PROVE WInv'
  <2>1. PICK x \in Rows : row[x]["intent"] = e[1] /\ Start(s, "mark", x, e[1], e[2], "read")
    BY <1>5 DEF Webhook
  <2>2. e[1] \in Intents /\ e[2] \in Answered /\ (e[2] = "failed" => provider[e[1]] = "failed")
    BY <1>5 DEF Webhook, Emitted
  <2>3. x \in Found
    BY <2>1, <2>2, NoRowIs DEF Found, Intents, None
  <2>4. \A u \in Actors \ {s} : event'[u] = event[u]
    BY <1>5 DEF Webhook, WInv, IInv, Shape, Kept
  <2> QED BY <1>5, <2>1, <2>2, <2>3, <2>4, WStarts DEF Webhook
<1> QED BY <1>1, <1>2, <1>3, <1>4, <1>5

LEMMA WBeginSweep ==
  ASSUME WInv, IInv', NEW s \in Actors, overlaps' = 0, BeginSweep(s)
  PROVE  WInv'
<1> USE DEF database
<1>1. /\ pc[s] = "idle" /\ pc'[s] = "sweep" /\ job' = job /\ Begin(s, "none", "sweep")
      /\ \A u \in Actors \ {s} : pc'[u] = pc[u] /\ todo'[u] = todo[u]
      /\ \A w \in todo'[s] : row[w[1]]["intent"] = w[2]
  BY DEF BeginSweep, Begin, Goto, WInv, IInv, Shape, Kept
<1>2. (\A u \in Actors : Op(u)' = Op(u)) /\ Op(s) = "none"
  BY <1>1 DEF Op, WInv, Works
<1>3. Together' /\ overlaps = 0
  BY <1>1, <1>2, BeginsTogether DEF BeginSweep
<1>4. Orderly'
  BY <1>3, OrderlyStays DEF WInv, BeginSweep
<1>5. Aside(s)
  BY <1>1 DEF Aside, BeginSweep
<1>6. \A u \in Actors \ {s} : Works(u)'
  BY <1>5, WorksStays DEF WInv, BeginSweep
<1>7. \A x \in Rows : holder'[x] # s
  BY <1>1 DEF BeginSweep, WInv, IInv, Local, SessionOK
<1>8. Works(s)'
  BY <1>1, <1>2, <1>7 DEF Works, Targets, Holds, BeginSweep
<1> QED BY <1>3, <1>4, <1>6, <1>8 DEF WInv

\* A step of one session that leaves rows, drafts and DiddiPay alone.
LEMMA WSteps ==
  ASSUME WInv, IInv', NEW s \in Actors, Aside(s), UNCHANGED <<row, holder, draft, provider>>,
         pc[s] # "idle", overlaps = 0, overlaps' = 0, Works(s)',
         Op(s)' = Op(s) \/ {Op(s), Op(s)'} \subseteq Marking
  PROVE  WInv'
<1>1. Orderly'
  BY OrderlyStays DEF WInv
<1>2. \A u \in Actors \ {s} : Works(u)'
  BY WorksStays DEF WInv
<1>3. Together'
  BY TogetherStays DEF WInv, Found
<1> QED BY <1>1, <1>2, <1>3 DEF WInv

LEMMA WSweeps ==
  ASSUME WInv, IInv', NEW s \in Actors, overlaps' = 0, SweepRow(s) \/ SweepDone(s)
  PROVE  WInv'
<1> USE DEF database, local
<1>1. pc[s] = "sweep" /\ Op(s) \in {"none", "repair"} /\ overlaps = 0 /\ Works(s) /\ Holds(s)
  BY DEF SweepRow, SweepDone, WInv, Works
<1>2. CASE SweepDone(s)
  <2>1. pc'[s] = "commit" /\ Aside(s) /\ Op(s)' = Op(s) /\ todo' = todo
    BY <1>2 DEF SweepDone, Goto, Aside, Op, WInv, IInv, Shape, Kept
  <2>2. Holds(s)'
    BY <1>1, <1>2, <2>1 DEF SweepDone, Holds, Last, Replaces
  <2>3. Works(s)'
    BY <2>1, <2>2 DEF Works, Targets
  <2> QED BY <1>1, <1>2, <2>1, <2>3, WSteps DEF SweepDone
<1>3. CASE SweepRow(s)
  <2>1. PICK w \in todo[s] :
            /\ todo' = [todo EXCEPT ![s] = @ \ {w}]
            /\ \/ UNCHANGED <<pc, job>>
               \/ /\ provider[w[2]] \in Answered
                  /\ job' = [job EXCEPT ![s] = <<"repair", w[1], w[2], provider[w[2]]>>]
                  /\ Goto(s, "read")
    BY <1>3 DEF SweepRow
  <2>2. w[1] \in Rows /\ w[2] \in Intents /\ row[w[1]]["intent"] = w[2] /\ w[1] \in Found
    <3>1. w[1] \in Rows /\ w[2] \in Intents /\ row[w[1]]["intent"] = w[2]
      BY <1>1 DEF Holds, WInv, IInv, Local, SessionOK
    <3> QED BY <3>1, NoRowIs DEF Found, Intents, None
  <2>3. Aside(s) /\ todo'[s] \subseteq todo[s]
    BY <1>3, <2>1 DEF SweepRow, Goto, Aside, WInv, IInv, Shape, Kept
  <2>4. CASE UNCHANGED <<pc, job>>
    <3>1. Op(s)' = Op(s) /\ pc'[s] = "sweep"
      BY <1>1, <2>4 DEF Op
    <3>2. Holds(s)'
      BY <1>1, <1>3, <2>3, <3>1 DEF SweepRow, Holds, Last, Replaces
    <3>3. Works(s)'
      BY <1>1, <3>1, <3>2 DEF Works, Targets
    <3> QED BY <1>1, <1>3, <2>3, <3>1, <3>3, WSteps DEF SweepRow
  <2>5. CASE /\ provider[w[2]] \in Answered
             /\ job' = [job EXCEPT ![s] = <<"repair", w[1], w[2], provider[w[2]]>>]
             /\ Goto(s, "read")
    <3>1. job'[s] = <<"repair", w[1], w[2], provider[w[2]]>> /\ pc'[s] = "read"
      BY <2>5 DEF Goto, WInv, IInv, Shape, Kept
    <3>2. Op(s)' = "repair" /\ Target(s)' = w[1] /\ Intent(s)' = w[2]
          /\ Status(s)' = provider[w[2]]
      BY <3>1 DEF Op, Target, Intent, Status
    <3>3. Brings(s)'
      BY <1>3, <2>2, <2>5, <3>2 DEF Brings, SweepRow
    <3>4. Targets(s)'
      BY <1>3, <2>2, <3>1, <3>2, <3>3 DEF Targets, SweepRow, Found
    <3>5. Holds(s)'
      BY <1>1, <1>3, <2>3, <3>2 DEF SweepRow, Holds, Last, Replaces, Marking
    <3>6. Works(s)'
      BY <3>1, <3>2, <3>4, <3>5 DEF Works
    <3> QED BY <1>1, <1>3, <2>3, <3>2, <3>6, WSteps DEF SweepRow, Marking
  <2> QED BY <2>1, <2>4, <2>5
<1> QED BY <1>2, <1>3

\* DiddiPay has no intent beyond the one about to be created, and those before
\* it have failed.
LEMMA InLine ==
  ASSUME WInv, overlaps = 0, NEW s, Follows(s), Intent(s) \in Intents
  PROVE  /\ \A j \in Intents : j > Intent(s) => provider[j] = "absent"
         /\ \A j \in Intents : j < Intent(s) => provider[j] = "failed"
<1>1. CASE Found = {} /\ Intent(s) = 1
  BY <1>1 DEF WInv, Orderly, Intents
<1>2. CASE /\ Target(s) \in Rows /\ row[Target(s)]["intent"] # None
           /\ row[Target(s)]["status"] = "failed" /\ Intent(s) = row[Target(s)]["intent"] + 1
  <2> DEFINE k == row[Target(s)]["intent"]
  <2>1. k \in Intents /\ Intent(s) = k + 1
    BY <1>2, RowParts DEF WInv, IInv, Global, Good
  <2>2. provider[k] = "failed" /\ \A j \in Intents : j > k + 1 => provider[j] = "absent"
    BY <1>2 DEF WInv, Orderly, Last
  <2>3. \A j \in Intents : j < k => provider[j] = "failed"
    BY <2>1, <2>2 DEF WInv, Orderly, OneAttemptAtATime
  <2> HIDE DEF k
  <2>4. \A j \in Intents : j < k + 1 => j < k \/ j = k
    BY <2>1 DEF Intents
  <2> QED BY <2>1, <2>2, <2>3, <2>4
<1> QED BY <1>1, <1>2 DEF Follows

\* A session whose operation is not one of those kept together works alone.
LEMMA WorksAlone ==
  ASSUME WInv, NEW s \in Actors, pc[s] # "idle", Op(s) \notin Marking
  PROVE  /\ \A u \in Actors \ {s} : pc[u] = "idle"
         /\ \A x \in Rows : holder[x] \in {s, Nobody}
<1>1. \A u \in Actors \ {s} : pc[u] = "idle"
  BY DEF WInv, Together
<1> QED BY <1>1 DEF WInv, IInv, Global, Local, SessionOK

LEMMA WCreate ==
  ASSUME WInv, IInv', NEW s \in Actors, overlaps' = 0, CreateIntent(s)
  PROVE  WInv'
<1> DEFINE n == Intent(s)
<1>1. PICK answer \in Answered :
          /\ provider[n] \in {"absent", answer}
          /\ provider' = [provider EXCEPT ![n] = answer]
          /\ job' = [job EXCEPT ![s] = <<"prepare", Target(s), n, answer>>]
  BY DEF CreateIntent
<1>2. /\ pc[s] = "create" /\ Op(s) = "prepare" /\ n \in Intents /\ Follows(s) /\ overlaps = 0
      /\ (\A x \in Rows : holder[x] # s) /\ todo[s] = {}
      /\ UNCHANGED <<row, holder, draft, base, todo, posts, event, choice>>
  BY DEF CreateIntent, WInv, IInv, Local, Prepares, Works, database
<1>3. /\ \A j \in Intents : j > n => provider[j] = "absent"
      /\ \A j \in Intents : j < n => provider[j] = "failed"
  BY <1>2, InLine
<1>4. provider'[n] = answer /\ \A j \in Intents \ {n} : provider'[j] = provider[j]
  BY <1>1, <1>2 DEF WInv, IInv, Global
<1>5. \A j \in Intents : provider[j] = "failed" => provider'[j] = "failed"
  BY <1>1, <1>4
<1>6. OneAttemptAtATime'
  <2> SUFFICES ASSUME NEW i \in Intents, NEW j \in Intents, i < j, provider'[j] # "absent"
               PROVE  provider'[i] = "failed"
    BY DEF OneAttemptAtATime
  <2>1. ~ (j > n)
    BY <1>2, <1>3, <1>4 DEF Intents
  <2>2. i < n
    BY <2>1, <1>2 DEF Intents
  <2> QED BY <2>2, <1>3, <1>5
<1>7. \A x \in Rows : Last(row[x])'
  <2> SUFFICES ASSUME NEW x \in Rows, row[x]["intent"] # None PROVE Last(row[x])'
    BY <1>2 DEF Last
  <2>1. row[x]["intent"] \in Intents /\ Last(row[x])
    BY RowParts DEF WInv, IInv, Global, Good, Orderly
  <2>2. x \in Found
    BY NoRowIs DEF Found
  <2>3. n = row[x]["intent"] + 1
    BY <1>2, <2>2 DEF Follows, Alone
  <2>4. \A j \in Intents : j > row[x]["intent"] + 1 => provider'[j] = "absent"
    BY <1>4, <2>1, <2>3 DEF Last, Intents
  <2>5. row[x]["status"] = "failed" => provider'[row[x]["intent"]] = "failed"
    BY <1>5, <2>1 DEF Last
  <2> QED BY <1>2, <2>4, <2>5 DEF Last
<1>8. Found = {} => \A j \in Intents : j > 1 => provider'[j] = "absent"
  BY <1>2, <1>3, <1>4 DEF Follows, Alone, Intents
<1>9. Orderly'
  BY <1>2, <1>6, <1>7, <1>8 DEF WInv, Orderly, Found
<1>10. /\ job'[s] = <<"prepare", Target(s), n, answer>>
       /\ pc'[s] = IF Target(s) = Nobody THEN "insert" ELSE "read"
       /\ \A u \in Actors \ {s} : pc'[u] = pc[u] /\ job'[u] = job[u]
  BY <1>1 DEF CreateIntent, Goto, WInv, IInv, Shape, Kept
<1> HIDE DEF n
<1>11. Op(s)' = "prepare" /\ Target(s)' = Target(s) /\ Intent(s)' = n /\ Status(s)' = answer
  BY <1>10 DEF Op, Target, Intent, Status
<1>12. Brings(s)'
  BY <1>2, <1>4, <1>11 DEF Brings
<1>13. Follows(s)'
  BY <1>2, <1>10, <1>11, CollectionAssumption DEF Follows, Found, Alone, n
<1>14. pc'[s] = "read" => Target(s) \in Found
  BY <1>2, <1>10 DEF Follows, Alone
<1>15. Targets(s)'
  BY <1>2, <1>10, <1>11, <1>14 DEF Targets, Found
<1>16. Works(s)'
  BY <1>2, <1>10, <1>11, <1>12, <1>13, <1>15 DEF Works, Holds
<1>17. Aside(s)
  BY <1>2, <1>10 DEF Aside
<1>18. \A u \in Actors \ {s} : Works(u)'
  BY <1>2, <1>17, WorksAlone, OthersAreIdle DEF WInv, Marking
<1>19. Together'
  BY <1>2, <1>11, <1>17, TogetherStays DEF WInv, Found
<1> QED BY <1>9, <1>16, <1>18, <1>19 DEF WInv

LEMMA WRead ==
  ASSUME WInv, IInv', NEW s \in Actors, overlaps' = 0, Read(s)
  PROVE  WInv'
<1> USE DEF database
<1>1. /\ pc[s] = "read" /\ pc'[s] = "update" /\ base'[s] = View(s, Target(s)) /\ Aside(s)
      /\ UNCHANGED <<job, todo, row, holder, draft, provider>> /\ overlaps = 0
  BY DEF Read, Goto, Aside, WInv, IInv, Shape, Kept
<1>2. Works(s) /\ Targets(s) /\ Holds(s) /\ Target(s) \in Rows
  BY <1>1 DEF WInv, Works, Targets, Found
<1>3. /\ Op(s)' = Op(s) /\ Target(s)' = Target(s) /\ Intent(s)' = Intent(s)
      /\ Status(s)' = Status(s) /\ Found' = Found
  BY <1>1 DEF Op, Target, Intent, Status, Found
<1>4. Follows(s) => Follows(s)'
  BY <1>1, <1>3 DEF Follows, Alone
<1>5. Brings(s) => Brings(s)'
  BY <1>1, <1>3 DEF Brings
<1>6. holder[Target(s)] = s => Op(s) \in Marking
  BY <1>1, <1>2 DEF Works, Targets, Marking
<1>7. /\ View(s, Target(s))["intent"] = row[Target(s)]["intent"]
      /\ Op(s) \notin Marking => View(s, Target(s)) = row[Target(s)]
  BY <1>2, <1>6 DEF View, Holds
<1>8. Targets(s)'
  BY <1>1, <1>2, <1>3, <1>5, <1>7 DEF Targets, Marking
<1>9. Holds(s)'
  BY <1>1, <1>2, <1>3 DEF Holds, Last, Replaces, Marking
<1>10. Works(s)'
  BY <1>1, <1>2, <1>3, <1>4, <1>5, <1>8, <1>9 DEF Works
<1> QED BY <1>1, <1>3, <1>10, WSteps

LEMMA WSettle ==
  ASSUME WInv, IInv', NEW s \in Actors, overlaps' = 0, Settle(s)
  PROVE  WInv'
<1> USE DEF local
<1>1. /\ pc[s] = "settle" /\ pc'[s] \in {"sweep", "commit"} /\ (pc'[s] = "sweep" => Op(s) = "repair")
      /\ Aside(s) /\ UNCHANGED <<job, todo, row, holder, draft, provider>> /\ overlaps = 0
  BY DEF Settle, Goto, Aside, WInv, IInv, Shape, Kept
<1>2. Op(s)' = Op(s)
  BY <1>1 DEF Op
<1>3. Holds(s)'
  BY <1>1, <1>2 DEF WInv, Works, Holds, Last, Replaces, Marking
<1>4. Works(s)'
  BY <1>1, <1>2, <1>3 DEF Works, Targets
<1> QED BY <1>1, <1>2, <1>4, WSteps

LEMMA WWrites ==
  ASSUME WInv, IInv', NEW s \in Actors, overlaps' = 0, NEW x \in Rows, NEW new, Write(s, x, new),
         pc[s] \in {"insert", "update"}, \A u \in Actors \ {s} : base'[u] = base[u],
         new["status"] # "none", Last(new), Replaces(new, row[x]),
         Op(s) \in Marking => new["intent"] = row[x]["intent"]
  PROVE  WInv'
<1>1. /\ draft'[x] = new /\ \A y \in Rows \ {x} : holder'[y] = holder[y] /\ draft'[y] = draft[y]
      /\ holder'[x] = s /\ holder[x] \in {s, Nobody}
      /\ UNCHANGED <<row, provider, todo, choice, posts, event>> /\ overlaps = 0
  BY DEF Write, RowFree, WInv, IInv, Shape, Kept, Global
<1>2. pc'[s] \in {"commit", "settle"} /\ \A u \in Actors \ {s} : pc'[u] = pc[u]
  BY DEF Write, Goto, WInv, IInv, Shape, Kept
<1>3. SessionOK(s) /\ Kept(job, Actors) /\ Works(s)
  BY DEF WInv, IInv, Local, Shape
<1>4. Op(s)' = Op(s) /\ \A u \in Actors \ {s} : job'[u] = job[u]
  <2>1. job'[s] = <<Op(s), x, Intent(s), Status(s)>> /\ \A u \in Actors \ {s} : job'[u] = job[u]
    BY <1>3, Retargeted DEF Write
  <2> QED BY <2>1 DEF Op
<1>5. Aside(s)
  BY <1>1, <1>2, <1>4, CollectionAssumption DEF Aside
<1>6. \A u \in Actors \ {s}, y \in Rows : holder[y] = u => draft'[y] = draft[y]
  BY <1>1, CollectionAssumption
<1>7. \A u \in Actors \ {s} : Works(u)'
  BY <1>1, <1>5, <1>6, WorksStays DEF WInv
<1>8. Holds(s)'
  BY <1>1, <1>3, <1>4 DEF Works, Holds, Last, Replaces, Marking
<1>9. Works(s)'
  BY <1>2, <1>8 DEF Works, Targets
<1>10. Together'
  BY <1>1, <1>4, <1>5, TogetherStays DEF WInv, Found
<1>11. Orderly'
  BY <1>1, OrderlyStays DEF WInv
<1> QED BY <1>7, <1>9, <1>10, <1>11 DEF WInv

\* The row after the intent it is to have, or after one that failed.
LEMMA PreparedIsLast ==
  ASSUME WInv, overlaps = 0, NEW s, Op(s) = "prepare", Follows(s), Brings(s),
         NEW new, new["intent"] = Intent(s), new["status"] = Status(s)
  PROVE  Last(new)
<1>1. \A j \in Intents : j > Intent(s) => provider[j] = "absent"
  BY InLine DEF Brings
<1>2. \A j \in Intents : j > Intent(s) + 1 => j > Intent(s)
  BY DEF Brings, Intents
<1> QED BY <1>1, <1>2 DEF Last, Brings

LEMMA WInsert ==
  ASSUME WInv, IInv', NEW s \in Actors, overlaps' = 0, Insert(s)
  PROVE  WInv'
<1> DEFINE new == Written(s, NoRow)
<1>1. PICK x \in Rows : row[x] = NoRow /\ Write(s, x, new)
  BY DEF Insert
<1>2. /\ pc[s] = "insert" /\ Op(s) \in {"prepare", "cash", "collect"} /\ SessionOK(s)
      /\ overlaps = 0 /\ Works(s)
  BY DEF Insert, Write, WInv, IInv, Local, Prepares
<1>3. /\ Op(s) = "prepare" => new["status"] = Status(s) /\ new["intent"] = Intent(s)
      /\ Op(s) # "prepare" => new["intent"] = None /\ new["status"] \in {"pending", "collected"}
  BY <1>2, NoRowIs, WrittenIs
<1> HIDE DEF new
<1>4. Op(s) = "prepare" => Follows(s) /\ Brings(s)
  BY <1>2 DEF Works
<1>5. new["status"] # "none"
  BY <1>2, <1>3, <1>4 DEF Brings, Answered
<1>6. Last(new)
  BY <1>2, <1>3, <1>4, PreparedIsLast DEF Last
<1>7. Replaces(new, row[x])
  BY <1>1, NoRowIs DEF Replaces
<1>8. Op(s) \in Marking => new["intent"] = row[x]["intent"]
  BY <1>1, <1>2, <1>3, NoRowIs DEF Marking
<1>9. \A u \in Actors \ {s} : base'[u] = base[u]
  BY DEF Insert
<1> QED BY <1>1, <1>2, <1>5, <1>6, <1>7, <1>8, <1>9, WWrites

LEMMA WUpdate ==
  ASSUME WInv, IInv', NEW s \in Actors, overlaps' = 0, Update(s)
  PROVE  WInv'
<1> DEFINE x == Target(s)
           old == base[s]
           now == View(s, x)
           new == Written(s, old)
           r == Merge(new, old, now)
<1>1. /\ pc[s] = "update" /\ SessionOK(s) /\ overlaps = 0 /\ Works(s) /\ Targets(s) /\ Holds(s)
      /\ x \in Rows /\ x \in Found /\ Write(s, x, r)
      /\ \A u \in Actors \ {s} : base'[u] = base[u]
  BY DEF Update, Write, Merge, WInv, IInv, Local, Shape, Kept, Works, Targets, Found
<1>2. /\ IsRow(old) /\ IsRow(now) /\ IsRow(row[x]) /\ IsRow(new)
  <2>1. IsRow(old) /\ IsRow(now) /\ IsRow(row[x])
    BY <1>1 DEF View, WInv, IInv, Global, Good, SessionOK
  <2> QED BY <1>1, <2>1, WrittenIs
<1>3. /\ IsRow(r) /\ r["status"] \in {new["status"], now["status"]}
      /\ r["intent"] \in {new["intent"], now["intent"]}
      /\ old = now => r = new
  BY <1>2, MergeIs
<1>4. /\ Op(s) \in {"prepare", "cash", "collect", "mark", "repair"}
      /\ old["intent"] = row[x]["intent"] /\ Last(row[x]) /\ row[x]["status"] # "none"
  BY <1>1 DEF Targets, WInv, Orderly
<1>5. now["status"] # "none" /\ Last(now)
  BY <1>1, <1>4 DEF View, Holds
<1>6. CASE Op(s) \in {"prepare", "cash"}
  <2>1. r = new /\ old = row[x]
    BY <1>1, <1>3, <1>6 DEF Works, Targets, View, Marking
  <2>2. CASE Op(s) = "prepare"
    <3>1. Follows(s) /\ Brings(s) /\ new["status"] = Status(s) /\ new["intent"] = Intent(s)
      BY <1>1, <1>2, <2>2, WrittenIs DEF Works
    <3>2. row[x]["status"] = "failed"
      BY <1>1, <3>1 DEF Follows
    <3> HIDE DEF new, old, x, r, now
    <3>3. Last(new)
      BY <1>1, <2>2, <3>1, PreparedIsLast
    <3>4. Replaces(new, row[x])
      BY <1>4, <3>2 DEF Replaces, Last
    <3> QED BY <1>1, <2>1, <2>2, <3>1, <3>3, <3>4, WWrites DEF Brings, Answered, Marking
  <2>3. CASE Op(s) = "cash"
    <3>1. row[x]["status"] = "failed" /\ new["intent"] = None /\ new["status"] = "pending"
      BY <1>1, <1>2, <2>3, WrittenIs DEF Targets
    <3> HIDE DEF new, old, x, r, now
    <3>2. Last(new) /\ Replaces(new, row[x])
      BY <1>4, <3>1 DEF Replaces, Last
    <3> QED BY <1>1, <2>1, <2>3, <3>1, <3>2, WWrites DEF Marking
  <2> QED BY <1>6, <2>2, <2>3
<1>7. CASE Op(s) \in {"collect", "mark", "repair"}
  <2>1. now["intent"] = row[x]["intent"]
    BY <1>1, <1>7 DEF View, Holds, Marking
  <2>2. new["intent"] = old["intent"]
    BY <1>1, <1>2, <1>7, WrittenIs
  <2>3. new["status"] = "collected" \/ (Brings(s) /\ new["status"] = Status(s) /\ row[x]["intent"] = Intent(s))
    BY <1>1, <1>2, <1>7, WrittenIs DEF Targets
  <2> HIDE DEF new, old, x, r, now
  <2>4. r["intent"] = row[x]["intent"]
    BY <1>3, <1>4, <2>1, <2>2
  <2>5. r["status"] # "none"
    BY <1>3, <1>5, <2>3 DEF Brings, Answered
  <2>6. Last(r)
    BY <1>3, <1>4, <1>5, <2>1, <2>3, <2>4 DEF Last, Brings
  <2>7. Replaces(r, row[x])
    BY <2>4 DEF Replaces
  <2> QED BY <1>1, <2>4, <2>5, <2>6, <2>7, WWrites
<1> QED BY <1>4, <1>6, <1>7

\* The end of a session beside others leaves the intents of the rows.
LEMMA CommitsBeside ==
  ASSUME WInv, NEW s \in Actors, NEW u \in Actors \ {s}, pc[s] # "idle", pc[u] # "idle",
         \A x \in Rows : row'[x] = row[x] \/ (holder[x] = s /\ row'[x] = draft[x])
  PROVE  \A x \in Rows : row'[x]["intent"] = row[x]["intent"]
BY DEF WInv, Together, Works, Holds

LEMMA WEnds ==
  ASSUME WInv, IInv', NEW s \in Actors, overlaps' = 0, Commit(s) \/ Abort(s)
  PROVE  WInv'
<1>1. End(s) /\ UNCHANGED <<provider, choice>> /\ overlaps = 0 /\ pc[s] # "idle"
  BY DEF Commit, Abort, End
<1>2. /\ pc'[s] = "idle" /\ Op(s)' = "none" /\ Aside(s)
      /\ \A x \in Rows : holder[x] # s => draft'[x] = draft[x]
  BY <1>1, CollectionAssumption
     DEF End, Goto, Aside, Op, NoJob, WInv, IInv, Shape, Kept, Global
<1>3. \A x \in Rows : row'[x] = row[x] \/ (holder[x] = s /\ row'[x] = draft[x])
  BY DEF Commit, Abort, View, WInv, IInv, Shape, Kept
<1>4. \A x \in Rows : x \in Found => x \in Found'
  BY <1>3, NoRowIs DEF Found, WInv, Works, Holds
<1>5. Orderly'
  <2>1. \A x \in Rows : Last(row[x])' /\ (x \in Found => row[x]["status"] # "none")'
    BY <1>1, <1>3 DEF WInv, Orderly, Last, Works, Holds, Found
  <2>2. Found' = {} => Found = {}
    BY <1>4 DEF Found
  <2> QED BY <1>1, <2>1, <2>2 DEF WInv, Orderly, OneAttemptAtATime
<1>6. Works(s)'
  BY <1>2, IdleWorks DEF WInv, IInv, Local, SessionOK, Works, Targets, Holds, Marking
<1>7. ASSUME NEW u \in Actors \ {s} PROVE Works(u)'
  <2>1. CASE pc[u] = "idle"
    BY <1>2, <2>1, OthersAreIdle DEF WInv
  <2>2. CASE pc[u] # "idle"
    <3>1. \A x \in Rows : row'[x]["intent"] = row[x]["intent"]
      BY <1>1, <1>3, <2>2, CommitsBeside
    <3>2. Op(u) \in Marking /\ Works(u)
      BY <1>1, <2>2 DEF WInv, Together
    <3>3. /\ Op(u)' = Op(u) /\ Target(u)' = Target(u) /\ Intent(u)' = Intent(u)
          /\ Status(u)' = Status(u) /\ pc'[u] = pc[u] /\ base'[u] = base[u] /\ todo'[u] = todo[u]
      BY <1>2 DEF Aside, Op, Target, Intent, Status
    <3>4. Brings(u) => Brings(u)'
      BY <1>1, <3>3 DEF Brings
    <3>5. Targets(u)'
      BY <1>4, <3>1, <3>2, <3>3, <3>4 DEF Works, Targets, Marking, Found
    <3>6. Holds(u)'
      <4>1. todo[u] \subseteq Rows \X Intents
        BY DEF WInv, IInv, Local, SessionOK
      <4>2. \A x \in Rows : holder'[x] = u => holder[x] = u /\ draft'[x] = draft[x]
        BY <1>2 DEF Aside
      <4> QED BY <1>1, <3>1, <3>2, <3>3, <4>1, <4>2 DEF Works, Holds, Last, Replaces, Marking
    <3>7. pc[u] # "create"
      BY <3>2 DEF WInv, IInv, Local, Prepares, Marking
    <3> QED BY <1>2, <3>2, <3>3, <3>5, <3>6, <3>7 DEF Works, Aside, Marking
  <2> QED BY <2>1, <2>2
<1>8. Together'
  BY <1>1, <1>2, <1>4, TogetherStays DEF WInv, Found
<1> QED BY <1>5, <1>6, <1>7, <1>8 DEF WInv

LEMMA WConclude ==
  ASSUME WInv, IInv', NEW i \in Intents, overlaps' = 0, Conclude(i)
  PROVE  WInv'
<1> USE DEF database, local
<1>1. PICK answer \in {"succeeded", "failed"} :
          provider[i] = "pending" /\ provider' = [provider EXCEPT ![i] = answer]
  BY DEF Conclude
<1>2. /\ \A j \in Intents : provider[j] = "failed" => provider'[j] = "failed"
      /\ \A j \in Intents : provider[j] = "absent" <=> provider'[j] = "absent"
  BY <1>1 DEF WInv, IInv, Global
<1>3. /\ \A x \in Rows : IsRow(row[x]) /\ IsRow(draft[x])
      /\ UNCHANGED <<row, holder, draft, job, pc, base, todo>> /\ overlaps = 0
  BY DEF Conclude, WInv, IInv, Global, Good
<1>4. \A r : IsRow(r) /\ Last(r) => Last(r)'
  BY <1>2, RowParts DEF Last
<1>5. Orderly'
  <2>1. OneAttemptAtATime'
    BY <1>2, <1>3 DEF WInv, Orderly, OneAttemptAtATime
  <2>2. \A x \in Rows : Last(row[x])'
    BY <1>2, <1>3, RowParts DEF WInv, Orderly, Last
  <2> QED BY <1>2, <1>3, <2>1, <2>2 DEF WInv, Orderly, Found
<1>6. ASSUME NEW s \in Actors PROVE Works(s)'
  <2>1. Works(s)
    BY DEF WInv
  <2>2. /\ Op(s)' = Op(s) /\ Target(s)' = Target(s) /\ Intent(s)' = Intent(s)
        /\ Status(s)' = Status(s) /\ Found' = Found
    BY <1>3 DEF Op, Target, Intent, Status, Found
  <2>3. (Brings(s) => Brings(s)') /\ (Follows(s) => Follows(s)')
    BY <1>2, <1>3, <2>2 DEF Brings, Follows, Alone
  <2>4. Targets(s)'
    BY <1>3, <2>1, <2>2, <2>3 DEF Works, Targets, Marking
  <2>5. Holds(s)'
    <3>1. \A x \in Rows : holder[x] = s => Last(draft[x])' /\ Replaces(draft[x], row[x])'
      BY <1>2, <1>3, <2>1, RowParts DEF Works, Holds, Last, Replaces
    <3> QED BY <1>3, <2>1, <2>2, <3>1 DEF Works, Holds, Marking
  <2> QED BY <1>3, <2>1, <2>2, <2>3, <2>4, <2>5 DEF Works
<1>7. Together'
  BY <1>3 DEF WInv, Together, Found, Op, Marking
<1> QED BY <1>5, <1>6, <1>7 DEF WInv

\* overlaps never shrinks.
LEMMA OverlapsGrow == IInv /\ [Next]_vars /\ overlaps' = 0 => overlaps = 0
<1> SUFFICES ASSUME IInv, [Next]_vars, overlaps' = 0 PROVE overlaps = 0
  OBVIOUS
<1>1. \A s, op, step : Begin(s, op, step) => overlaps = 0
  BY DEF Begin, IInv, Global
<1>2. CASE UNCHANGED overlaps
  BY <1>2
<1>3. CASE \E s, op, step : Begin(s, op, step)
  BY <1>1, <1>3
<1>4. UNCHANGED overlaps \/ \E s, op, step : Begin(s, op, step)
  BY DEF Next, vars, PrepareMobile, PrepareCash, ConfirmCash, Repair, Webhook, BeginSweep, Start,
     CreateIntent, Insert, Read, Update, Write, Settle, SweepRow, SweepDone, Commit, Abort, End,
     Conclude
<1> QED BY <1>2, <1>3, <1>4

LEMMA WNext ==
  ASSUME WInv, IInv', [Next]_vars, overlaps' = 0
  PROVE  WInv'
<1>1. \A s \in Sessions \cup Sweepers : s \in Actors
  BY DEF Actors
<1>2. CASE UNCHANGED vars
  <2> USE DEF vars, database, local
  <2>1. Orderly'
    BY <1>2, OrderlyStays DEF WInv
  <2>2. Together'
    BY <1>2 DEF WInv, Together, Found, Op, Marking
  <2>3. ASSUME NEW s \in Actors PROVE Works(s)'
    <3>1. Works(s) /\ Targets(s) /\ Holds(s)
      BY DEF WInv, Works
    <3>2. Targets(s)' /\ Holds(s)'
      BY <1>2, <3>1 DEF Targets, Holds, Brings, Found, Op, Target, Intent, Status, Last, Replaces, Marking
    <3>3. (Follows(s) => Follows(s)') /\ (Brings(s) => Brings(s)') /\ Op(s)' = Op(s)
      BY <1>2 DEF Follows, Brings, Found, Alone, Op, Target, Intent, Status
    <3> QED BY <1>2, <3>1, <3>2, <3>3 DEF Works
  <2> QED BY <2>1, <2>2, <2>3 DEF WInv
<1>3. ASSUME NEW s \in Sessions,
             \/ PrepareMobile(s) \/ PrepareCash(s) \/ ConfirmCash(s) \/ Repair(s)
             \/ \E e \in Intents \X Answered : Webhook(s, e)
      PROVE  WInv'
  BY <1>1, <1>3, WRequests
<1>4. ASSUME NEW s \in Sweepers, BeginSweep(s) PROVE WInv'
  BY <1>1, <1>4, WBeginSweep
<1>5. ASSUME NEW s \in Actors, SweepRow(s) \/ SweepDone(s) PROVE WInv'
  BY <1>5, WSweeps
<1>6. ASSUME NEW s \in Actors,
             CreateIntent(s) \/ Insert(s) \/ Read(s) \/ Update(s) \/ Settle(s)
      PROVE  WInv'
  BY <1>6, WCreate, WInsert, WRead, WUpdate, WSettle
<1>7. ASSUME NEW s \in Actors, Commit(s) \/ Abort(s) PROVE WInv'
  BY <1>7, WEnds
<1>8. ASSUME NEW i \in Intents, Conclude(i) PROVE WInv'
  BY <1>8, WConclude
<1> QED BY <1>2, <1>3, <1>4, <1>5, <1>6, <1>7, <1>8 DEF Next

\* The invariant of rows and requests, and while no overlap is counted that of
\* the sessions kept together.
Ordered == IInv /\ (overlaps = 0 => WInv)

LEMMA OrderedHolds == Spec => []Ordered
<1>1. Init => Ordered
  BY InitInv, WInit DEF Ordered
<1>2. Ordered /\ [Next]_vars => Ordered'
  BY NextInv, OverlapsGrow, WNext DEF Ordered
<1> QED BY <1>1, <1>2, PTL DEF Spec

\* The passenger is asked by mobile money once: a retry names the intent that
\* has failed in its idempotency key, and a request that died after DiddiPay had
\* answered finds its own intent again, whatever callbacks, sweeps and repairs
\* run beside each other, until sessions overlap that are not kept together.
THEOREM OneAttempt == Spec => []OneAttemptAtATime
<1>1. Ordered => OneAttemptAtATime
  BY DEF Ordered, WInv, Orderly, OneAttemptAtATime
<1> QED BY <1>1, OrderedHolds, PTL

\* What replaces the intent of a row (a retry or prepare_cash_payment) finds
\* that it has failed, until sessions overlap that are not kept together: no
\* payment arrives for an intent that no row names.
THEOREM FailedIsReplaced == Spec => OnlyFailedIsReplaced
<1>1. ASSUME Ordered, [Next]_vars
      PROVE  [overlaps' = 0
                => \A x \in Rows :
                      row[x]["intent"] \notin {None, row'[x]["intent"]}
                          => provider[row[x]["intent"]] = "failed"]_vars
  <2>1. CASE UNCHANGED row
    BY <2>1
  <2>2. ASSUME NEW u \in Actors, Commit(u), overlaps' = 0, NEW x \in Rows,
               row[x]["intent"] \notin {None, row'[x]["intent"]}
        PROVE  provider[row[x]["intent"]] = "failed"
    <3>1. row'[x] = row[x] \/ (holder[x] = u /\ row'[x] = draft[x])
      BY <2>2 DEF Commit, View
    <3>2. holder[x] = u => Replaces(draft[x], row[x])
      BY <1>1, <2>2, OverlapsGrow DEF Ordered, WInv, Works, Holds
    <3> QED BY <2>2, <3>1, <3>2 DEF Replaces
  <2>3. UNCHANGED row \/ \E u \in Actors : Commit(u)
    BY <1>1 DEF Next, vars, database, local, Quiet, PrepareMobile, PrepareCash, ConfirmCash, Repair,
       Webhook, BeginSweep, CreateIntent, Insert, Read, Update, Write, Settle, SweepRow, SweepDone,
       Abort, Conclude
  <2> QED BY <2>1, <2>2, <2>3
<1> QED BY <1>1, OrderedHolds, PTL DEF Spec, OnlyFailedIsReplaced

=============================================================================
