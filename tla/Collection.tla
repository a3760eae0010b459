------------------------------- MODULE Collection -------------------------------
(***************************************************************************)
(* The payment of one completed ride, from modules/payment: the row of      *)
(* payment.transactions, the DiddiPay intents behind it, cash, callbacks    *)
(* and the reconciliation of pending rows.                                  *)
(*                                                                          *)
(* The passenger chooses mobile money or cash when the ride is created.  A  *)
(* mobile payment has one intent at a time; when it fails the passenger     *)
(* retries, which replaces the intent, or pays cash, which drops it.        *)
(* Intents are numbered: the idempotency key of the first one is derived    *)
(* from the ride, that of the next one from the intent that has failed.     *)
(***************************************************************************)
EXTENDS Integers, FiniteSets

CONSTANTS
    Sessions,    \* the database sessions of requests and callbacks
    Sweepers,    \* the database sessions of the reconciliation loop
    Rows,        \* the rows of the ride in payment.transactions
    MaxIntents,  \* bound: intents of the ride
    MaxOverlaps, \* bound: starts of a session beside one it is not kept together with
    Nobody

Actors == Sessions \cup Sweepers
Intents == 1 .. MaxIntents
None == 0

ASSUME CollectionAssumption ==
    Nobody \notin Actors \cup Rows /\ MaxIntents \in Nat \ {0} /\ MaxOverlaps \in Nat

VARIABLES
    choice,    \* payment_method of the ride
    row,       \* committed rows
    holder,    \* the session that has locked a row
    draft,     \* the row as the holder has written it
    ledger,    \* committed entries of the ride in the driver's ledger
    posts,     \* the entries each session has inserted
    stored,    \* committed webhook event ids
    provider,  \* DiddiPay's view of each intent
    pc, job,   \* the step of each session, and its <<operation, row, intent, status>>
    base,      \* the row it has read before its update
    event,     \* the webhook event it inserts
    todo,      \* the <<row, intent>> its sweep has listed
    overlaps   \* history: starts of a session beside one it is not kept together with

database == <<row, holder, draft, ledger, posts, stored>>
local == <<job, base, event, todo>>
vars == <<choice, database, provider, pc, local, overlaps>>

Methods == {"cash", "mobile_money"}
Answered == {"pending", "succeeded", "failed"}
Statuses == Answered \cup {"none", "collected"}
Row(st, m, i) ==
    [c \in {"status", "method", "intent"} |->
        CASE c = "status" -> st [] c = "method" -> m [] c = "intent" -> i]
NoRow == Row("none", "cash", None)
NoJob == <<"none", Nobody, None, "none">>
NoEvent == <<None, "none">>

IsRow(x) ==
    \E st \in Statuses, m \in Methods, i \in Intents \cup {None} : x = Row(st, m, i)

\* What a session works on, and what it has written; between two requests it
\* has written nothing.
SessionOK(s) ==
    /\ posts[s] \subseteq {"payout", "commission"}
    /\ pc[s] \in {"idle", "create", "insert", "read", "update", "settle", "sweep", "commit"}
    /\ job[s] \in {"none", "prepare", "cash", "collect", "mark", "repair"}
                  \X (Rows \cup {Nobody}) \X (Intents \cup {None}) \X Statuses
    /\ pc[s] \in {"read", "update", "settle"} => job[s][2] \in Rows
    /\ IsRow(base[s])
    /\ event[s] \in (Intents \X Answered) \cup {NoEvent}
    /\ todo[s] \subseteq Rows \X Intents
    /\ pc[s] = "idle" => todo[s] = {} /\ posts[s] = {} /\ \A x \in Rows : holder[x] # s

TypeOK ==
    /\ choice \in Methods
    /\ \A x \in Rows : IsRow(row[x]) /\ IsRow(draft[x])
    /\ holder \in [Rows -> Actors \cup {Nobody}]
    /\ ledger \subseteq {"payout", "commission"}
    /\ provider \in [Intents -> Answered \cup {"absent"}]
    /\ stored \subseteq Intents \X Answered
    /\ overlaps \in 0 .. MaxOverlaps
    /\ \A s \in Actors : SessionOK(s)

Init ==
    /\ choice \in Methods
    /\ row = [x \in Rows |-> NoRow] /\ draft = [x \in Rows |-> NoRow]
    /\ holder = [x \in Rows |-> Nobody]
    /\ ledger = {} /\ stored = {}
    /\ posts = [s \in Actors |-> {}]
    /\ provider = [i \in Intents |-> "absent"]
    /\ pc = [s \in Actors |-> "idle"]
    /\ job = [s \in Actors |-> NoJob]
    /\ base = [s \in Actors |-> NoRow]
    /\ event = [s \in Actors |-> NoEvent]
    /\ todo = [s \in Actors |-> {}]
    /\ overlaps = 0
----------------------------------------------------------------------------
Op(s) == job[s][1]
Target(s) == job[s][2]
Intent(s) == job[s][3]
Status(s) == job[s][4]

View(s, x) == IF holder[x] = s THEN draft[x] ELSE row[x]
RowFree(s, x) == holder[x] \in {s, Nobody}
Goto(s, step) == pc' = [pc EXCEPT ![s] = step]

\* find_by_ride_id: with two rows it raises, and the request ends.
Found == {x \in Rows : row[x] # NoRow}
Alone(x) == Found = {x}

\* Callbacks, sweeps, repairs and confirmations leave the intent of a row as it
\* is, and may run beside each other once the ride has a row.  Any other overlap
\* can act on a row whose intent another session replaces; overlaps counts them.
Marking == {"none", "collect", "mark", "repair"}
KeptTogether(s, op) ==
    \A u \in Actors \ {s} : pc[u] # "idle" => Found # {} /\ {op, Op(u)} \subseteq Marking

\* A request, a callback or a sweep starts.
Begin(s, op, step) ==
    /\ pc[s] = "idle" /\ Goto(s, step)
    /\ overlaps' = overlaps + IF KeptTogether(s, op) THEN 0 ELSE 1
    /\ overlaps' <= MaxOverlaps

Start(s, op, x, i, st, step) ==
    /\ Begin(s, op, step)
    /\ job' = [job EXCEPT ![s] = <<op, x, i, st>>]

Quiet == UNCHANGED <<choice, database, provider, base, event, todo>>
----------------------------------------------------------------------------
(* What makes a session start. *)

\* Mutant: every call has an idempotency key of its own.
FreshKey(x) ==
    CHOOSE i \in Intents \cup {MaxIntents + 1} :
        /\ i \in Intents => provider[i] = "absent"
        /\ \A j \in 1 .. i - 1 : provider[j] # "absent"

\* The intent that answers to the idempotency key of the next attempt.
NextIntent(x) == IF x = Nobody THEN 1 ELSE row[x]["intent"] + 1

\* prepare_payment, mobile money: a first attempt, or the retry of a failed
\* one; an attempt under way is shown again, a local row refuses.
PrepareMobile(s) ==
    /\ choice = "mobile_money"
    /\ \E x \in Rows \cup {Nobody} :
          /\ \/ x = Nobody /\ Found = {}
             \/ /\ x \in Rows /\ Alone(x)
                /\ row[x]["intent"] # None /\ row[x]["status"] = "failed"
          /\ NextIntent(x) \in Intents
          /\ Start(s, "prepare", x, NextIntent(x), "none", "create")
    /\ Quiet

\* Mutant: a mobile payment is given up for cash whatever its status.
GivenUp(x) == row[x]["method"] = "mobile_money"

\* Cash may replace a mobile payment that has failed.
Replaceable(x) == row[x]["method"] = "mobile_money" /\ row[x]["status"] = "failed"

\* prepare_payment, cash, whatever the choice was: a local row.
PrepareCash(s) ==
    /\ \/ Found = {} /\ Start(s, "cash", Nobody, None, "pending", "insert")
       \/ \E x \in Rows :
             /\ Alone(x) /\ Replaceable(x)
             /\ Start(s, "cash", x, None, "pending", "read")
    /\ Quiet

\* confirm_cash: the driver has been paid, whatever the row says.
ConfirmCash(s) ==
    /\ \/ Found = {} /\ Start(s, "collect", Nobody, None, "collected", "insert")
       \/ \E x \in Rows : Alone(x) /\ Start(s, "collect", x, None, "collected", "read")
    /\ Quiet

\* An event DiddiPay has emitted, delivered late, twice or never.
Emitted(e) == provider[e[1]] \in Answered /\ e[2] \in {"pending", provider[e[1]]}

\* apply_diddipay_webhook: a known event is a duplicate, an event being
\* inserted waits, an intent of no row is a 404.
Webhook(s, e) ==
    /\ Emitted(e) /\ e \notin stored /\ \A u \in Actors : event[u] # e
    /\ \E x \in Rows :
          row[x]["intent"] = e[1] /\ Start(s, "mark", x, e[1], e[2], "read")
    /\ event' = [event EXCEPT ![s] = e]
    /\ UNCHANGED <<choice, database, provider, base, todo>>

\* reconcile_transaction, on demand; a status that is known already may be
\* written again, for its next action.
Repair(s) ==
    /\ \E x \in Rows :
          LET i == row[x]["intent"]
          IN  /\ Alone(x) /\ i # None
              /\ Start(s, "mark", x, i, provider[i], "read")
    /\ Quiet

\* reconcile_pending lists the rows that wait for DiddiPay.
BeginSweep(s) ==
    /\ Begin(s, "none", "sweep")
    /\ todo' = [todo EXCEPT ![s] =
          {w \in Rows \X Intents : row[w[1]]["intent"] = w[2] /\ row[w[1]]["status"] = "pending"}]
    /\ UNCHANGED <<choice, database, provider, job, base, event>>

\* The intent as listed is read; an outcome is applied to the row, by its id.
\* No news, or an answer that does not come, pass the row over; a pending
\* intent may have a new next action.
SweepRow(s) ==
    /\ pc[s] = "sweep"
    /\ \E w \in todo[s] :
          /\ todo' = [todo EXCEPT ![s] = @ \ {w}]
          /\ \/ UNCHANGED <<pc, job>>
             \/ /\ provider[w[2]] \in Answered
                /\ job' = [job EXCEPT ![s] = <<"repair", w[1], w[2], provider[w[2]]>>]
                /\ Goto(s, "read")
    /\ UNCHANGED <<choice, overlaps, database, provider, base, event>>

SweepDone(s) ==
    /\ pc[s] = "sweep" /\ todo[s] = {}
    /\ Goto(s, "commit")
    /\ UNCHANGED <<choice, overlaps, database, provider, local>>
----------------------------------------------------------------------------
(* The steps of a session. *)

\* create_payment_intent: a key seen before gives the intent it made.
CreateIntent(s) ==
    /\ pc[s] = "create"
    /\ \E answer \in Answered :
          /\ provider[Intent(s)] \in {"absent", answer}
          /\ provider' = [provider EXCEPT ![Intent(s)] = answer]
          /\ job' = [job EXCEPT ![s] = <<"prepare", Target(s), Intent(s), answer>>]
    /\ Goto(s, IF Target(s) = Nobody THEN "insert" ELSE "read")
    /\ UNCHANGED <<choice, overlaps, database, base, event, todo>>

\* What the operation makes of the row it has read.
Written(s, old) ==
    CASE Op(s) = "prepare" -> Row(Status(s), "mobile_money", Intent(s))
      [] Op(s) = "cash"    -> Row("pending", "cash", None)
      [] Op(s) = "collect" -> Row("collected", "cash", old["intent"])
      [] OTHER             -> [old EXCEPT !["status"] = Status(s)]

\* payment_intent_id is unique: another session's row makes this one wait,
\* a committed one makes it fail.
IntentFree(s, x, i) ==
    i # None => \A y \in Rows \ {x} : row[y]["intent"] # i /\ draft[y]["intent"] # i

Write(s, x, new) ==
    /\ RowFree(s, x) /\ IntentFree(s, x, new["intent"])
    /\ holder' = [holder EXCEPT ![x] = s]
    /\ draft' = [draft EXCEPT ![x] = new]
    /\ job' = [job EXCEPT ![s][2] = x]
    /\ Goto(s, IF Op(s) \in {"prepare", "cash"} THEN "commit" ELSE "settle")
    /\ UNCHANGED <<choice, overlaps, row, ledger, posts, stored, provider, event, todo>>

\* save, and for confirm_cash the update that follows it.
Insert(s) ==
    /\ pc[s] = "insert"
    /\ \E x \in Rows : row[x] = NoRow /\ holder[x] = Nobody /\ Write(s, x, Written(s, NoRow))
    /\ UNCHANGED base

Read(s) ==
    /\ pc[s] = "read"
    /\ base' = [base EXCEPT ![s] = View(s, Target(s))]
    /\ Goto(s, "update")
    /\ UNCHANGED <<choice, overlaps, database, provider, job, event, todo>>

\* The columns that differ from the row as read are written.
Update(s) ==
    LET x == Target(s)
        new == Written(s, base[s])
    IN  /\ pc[s] = "update"
        /\ Write(s, x, [c \in DOMAIN new |-> IF new[c] # base[s][c] THEN new[c] ELSE View(s, x)[c]])
        /\ base' = [base EXCEPT ![s] = NoRow]

\* Mutant: the driver of a mobile ride is paid when cash is collected too.
EntryOfCollected(st) ==
    IF choice = "cash" /\ st = "collected" THEN {"commission"}
    ELSE IF choice = "mobile_money" /\ st \in {"succeeded", "collected"} THEN {"payout"}
    ELSE {}

\* _record_ride_settlement: by the choice of the ride, not the method paid.
Entry(st) ==
    IF choice = "cash" /\ st = "collected" THEN {"commission"}
    ELSE IF choice = "mobile_money" /\ st = "succeeded" THEN {"payout"}
    ELSE {}

\* record_ledger_entry_once; the wallet itself is the module DriverWallet.
Settle(s) ==
    LET entry == Entry(View(s, Target(s))["status"])
    IN  /\ pc[s] = "settle"
        /\ \A u \in Actors \ {s} : entry \cap posts[u] = {}
        /\ posts' = [posts EXCEPT ![s] = @ \cup (entry \ ledger)]
        /\ Goto(s, IF Op(s) = "repair" THEN "sweep" ELSE "commit")
        /\ UNCHANGED <<choice, overlaps, row, holder, draft, ledger, stored, provider, local>>

\* The session is idle again, and holds nothing.
End(s) ==
    /\ Goto(s, "idle")
    /\ holder' = [x \in Rows |-> IF holder[x] = s THEN Nobody ELSE holder[x]]
    /\ draft' = [x \in Rows |-> IF holder[x] = s THEN NoRow ELSE draft[x]]
    /\ posts' = [posts EXCEPT ![s] = {}]
    /\ job' = [job EXCEPT ![s] = NoJob]
    /\ base' = [base EXCEPT ![s] = NoRow]
    /\ event' = [event EXCEPT ![s] = NoEvent]
    /\ todo' = [todo EXCEPT ![s] = {}]
    /\ UNCHANGED <<choice, overlaps, provider>>

Commit(s) ==
    /\ pc[s] = "commit"
    /\ row' = [x \in Rows |-> View(s, x)]
    /\ ledger' = ledger \cup posts[s]
    /\ stored' = stored \cup ({event[s]} \ {NoEvent})
    /\ End(s)

\* An error, a unique key taken, a deadlock, a crash: the rollback.
Abort(s) ==
    /\ pc[s] # "idle"
    /\ End(s)
    /\ UNCHANGED <<row, ledger, stored>>

\* DiddiPay ends an intent.
Conclude(i) ==
    /\ provider[i] = "pending"
    /\ \E answer \in {"succeeded", "failed"} : provider' = [provider EXCEPT ![i] = answer]
    /\ UNCHANGED <<choice, overlaps, database, pc, local>>

Next ==
    \/ \E s \in Sessions :
          \/ PrepareMobile(s) \/ PrepareCash(s) \/ ConfirmCash(s) \/ Repair(s)
          \/ \E e \in Intents \X Answered : Webhook(s, e)
    \/ \E s \in Sweepers : BeginSweep(s)
    \/ \E s \in Actors :
          \/ CreateIntent(s) \/ Insert(s) \/ Read(s) \/ Update(s) \/ Settle(s)
          \/ SweepRow(s) \/ SweepDone(s) \/ Commit(s) \/ Abort(s)
    \/ \E i \in Intents : Conclude(i)

Spec == Init /\ [][Next]_vars
----------------------------------------------------------------------------
(* Properties. *)

\* The passenger is never asked by mobile money twice: an intent exists only
\* when those before it have failed, until sessions overlap that are not kept
\* together.  A request that dies after DiddiPay has answered must find its own
\* intent again (idempotency_key).
OneAttemptAtATime ==
    overlaps = 0 =>
        \A i, j \in Intents : i < j /\ provider[j] # "absent" => provider[i] = "failed"

\* "Replace a terminal provider attempt" (prepare_cash_payment): an intent
\* leaves its row only when it can no longer be paid, so that no payment
\* arrives for an intent that nobody knows, until sessions overlap that are
\* not kept together.
OnlyFailedIsReplaced ==
    [][overlaps' = 0
          => \A x \in Rows :
                row[x]["intent"] \notin {None, row'[x]["intent"]}
                    => provider[row[x]["intent"]] = "failed"]_vars

\* The driver's ledger follows the money: a payout when an intent of the ride
\* has been paid, a commission when its cash has been collected, never both.
LedgerFollowsMoney ==
    /\ "payout" \in ledger => choice = "mobile_money" /\ \E i \in Intents : provider[i] = "succeeded"
    /\ "commission" \in ledger => choice = "cash" /\ provider[1] = "absent"

\* A payment shown as paid is in the driver's ledger: false when DiddiPay
\* answers the creation of an intent with a success, which is stored only.
PaidIsSettled ==
    \A x \in Rows : row[x]["status"] = "succeeded" => "payout" \in ledger
=============================================================================
