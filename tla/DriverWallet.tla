------------------------------ MODULE DriverWallet ------------------------------
(***************************************************************************)
(* The driver wallet of modules/payment: the balance row of a driver, the   *)
(* append-only ledger behind it, top-ups paid through DiddiPay, the         *)
(* commission of cash rides, and withdrawals paid out by DiddiPay.          *)
(*                                                                          *)
(* A request handler, a webhook call and the reconciliation sweep are       *)
(* database sessions.  A session works in ONE transaction until it commits  *)
(* (core/database.py get_session, PostgreSQL READ COMMITTED): its writes    *)
(* are drafts only it can see, and a row it has written or selected FOR     *)
(* UPDATE stays locked to the others until the commit or the rollback.      *)
(* A draft and a row lock are therefore the same thing here: `by` names the *)
(* session that holds the row, and the other fields are its new version.    *)
(***************************************************************************)
EXTENDS Integers, FiniteSets

CONSTANTS
    Sessions,    \* the sessions of request handlers and webhooks
    Sweeper,     \* the session of the reconciliation loop
    Drivers,
    Topups,      \* top-ups, each with a DiddiPay payment intent
    CashRides,   \* completed cash rides, each owing its commission
    Quotes,      \* withdrawal quotes; a quote becomes at most one withdrawal
    Owner,       \* the driver of a top-up, a ride or a quote
    Amount,      \* its amount
    Opening,     \* the balance of each driver when the model starts
    MaxFaults,   \* bound: aborted sessions and provider reads that fail
    Nobody

Actors == Sessions \cup {Sweeper}
Settlements == Topups \cup CashRides
Refs == Settlements \cup Quotes
Remote == Topups \cup Quotes        \* what DiddiPay knows of

ASSUME ConstantsAssumption ==
    /\ Sweeper \notin Sessions
    /\ Nobody \notin Actors
    /\ Topups \cap CashRides = {}
    /\ Settlements \cap Quotes = {}
    /\ Owner \in [Refs -> Drivers]
    /\ Amount \in [Refs -> Nat \ {0}]
    /\ Opening \in [Drivers -> Int]
    /\ MaxFaults \in Nat

VARIABLES
    wallet,      \* committed balance of each driver
    walletDraft, \* who holds the wallet row, and the balance it has written
    status,      \* committed status of each row, "none" when there is no row
    draft,       \* who holds the row, its new status and its new entries
    ledger,      \* committed entries, <<reference, kind>>: the unique key
    stored,      \* committed webhook event ids
    provider,    \* DiddiPay's own view of an intent or a payout
    pc,          \* the step each session is at
    job,         \* the row it works on
    target,      \* the status it gives that row
    back,        \* the step that follows
    todo,        \* the rows its sweep has still to read
    event,       \* the webhook event it inserts
    seen,        \* the balance it has read
    faults

db == <<wallet, walletDraft, status, draft, ledger, stored>>
task == <<job, target, back, todo, event, seen>>
vars == <<db, provider, pc, task, faults>>

Kinds == {"settled", "reserved", "succeeded", "released"}
Final == {"succeeded", "released"}
Statuses == {"none", "pending", "failed", "collected", "reserved", "processing"} \cup Final
Remotes == {"absent", "requested", "rejected", "pending", "succeeded", "failed"}
Answered == {"pending", "succeeded", "failed"}
Steps == {"idle", "claim", "read", "write", "refund", "reserve", "reserveWallet",
          "commitReserve", "send", "await", "sweepTopups", "sweepWithdrawals", "commit"}
Backs == {"idle", "commit", "sweepTopups", "sweepWithdrawals"}
Events == Remote \X Answered
NoEvent == <<>>

NoDraft == [by |-> Nobody, status |-> "none", posts |-> {}]
NoWalletDraft == [by |-> Nobody, balance |-> 0]

TypeOK ==
    /\ wallet \in [Drivers -> Int]
    /\ walletDraft \in [Drivers -> [by : Actors \cup {Nobody}, balance : Int]]
    /\ status \in [Refs -> Statuses]
    /\ draft \in [Refs -> [by : Actors \cup {Nobody}, status : Statuses, posts : SUBSET Kinds]]
    /\ ledger \subseteq Refs \X Kinds
    /\ stored \subseteq Events
    /\ provider \in [Remote -> Remotes]
    /\ pc \in [Actors -> Steps]
    /\ job \in [Actors -> Refs \cup {Nobody}]
    /\ target \in [Actors -> Statuses]
    /\ back \in [Actors -> Backs]
    /\ todo \in [Actors -> SUBSET Remote]
    /\ event \in [Actors -> Events \cup {NoEvent}]
    /\ seen \in [Actors -> Int]
    /\ \A s \in Actors :
          /\ pc[s] = "claim" => job[s] \in Refs
          /\ pc[s] \in {"read", "write"} => job[s] \in Settlements
          /\ pc[s] \in {"refund", "reserve", "reserveWallet", "commitReserve", "send", "await"}
                => job[s] \in Quotes
    /\ faults \in 0 .. MaxFaults

Init ==
    /\ wallet = Opening
    /\ walletDraft = [d \in Drivers |-> NoWalletDraft]
    /\ status = [r \in Refs |-> "none"]
    /\ draft = [r \in Refs |-> NoDraft]
    /\ ledger = {}
    /\ stored = {}
    /\ provider = [r \in Remote |-> "absent"]
    /\ pc = [s \in Actors |-> "idle"]
    /\ job = [s \in Actors |-> Nobody]
    /\ target = [s \in Actors |-> "none"]
    /\ back = [s \in Actors |-> "idle"]
    /\ todo = [s \in Actors |-> {}]
    /\ event = [s \in Actors |-> NoEvent]
    /\ seen = [s \in Actors |-> 0]
    /\ faults = 0

(***************************************************************************)
(* What a session sees: its own version of a row it holds, the committed    *)
(* one otherwise.  Free: a write or a FOR UPDATE would not have to wait.    *)
(***************************************************************************)
Balance(s, d) == IF walletDraft[d].by = s THEN walletDraft[d].balance ELSE wallet[d]
RowStatus(s, r) == IF draft[r].by = s THEN draft[r].status ELSE status[r]
Posts(s, r) == IF draft[r].by = s THEN draft[r].posts ELSE {}
Posted(s, r, k) == <<r, k>> \in ledger \/ k \in Posts(s, r)
RowFree(s, r) == draft[r].by \in {s, Nobody}

\* Mutant: the wallet is read without FOR UPDATE.
WalletUnlocked(s, d) == TRUE
WalletFree(s, d) == walletDraft[d].by \in {s, Nobody}

WriteRow(s, r, st, posts) ==
    draft' = [draft EXCEPT ![r] = [by |-> s, status |-> st, posts |-> Posts(s, r) \cup posts]]
SetBalance(s, d, amount) ==
    walletDraft' = [walletDraft EXCEPT ![d] = [by |-> s, balance |-> amount]]
Goto(s, step) == pc' = [pc EXCEPT ![s] = step]

\* The session starts to apply a status to the row r; `next` is what follows.
Apply(s, r, st, next) ==
    /\ Goto(s, "claim")
    /\ job' = [job EXCEPT ![s] = r]
    /\ target' = [target EXCEPT ![s] = st]
    /\ back' = [back EXCEPT ![s] = next]

\* The session has nothing left to do.
Reset(s) ==
    /\ Goto(s, "idle")
    /\ job' = [job EXCEPT ![s] = Nobody]
    /\ target' = [target EXCEPT ![s] = "none"]
    /\ back' = [back EXCEPT ![s] = "idle"]
    /\ todo' = [todo EXCEPT ![s] = {}]
    /\ event' = [event EXCEPT ![s] = NoEvent]
    /\ seen' = [seen EXCEPT ![s] = 0]

\* The drafts and the locks of a session are gone.
Release(s) ==
    /\ draft' = [r \in Refs |-> IF draft[r].by = s THEN NoDraft ELSE draft[r]]
    /\ walletDraft' = [d \in Drivers |-> IF walletDraft[d].by = s THEN NoWalletDraft
                                         ELSE walletDraft[d]]

Rollback(s) ==
    /\ Release(s) /\ Reset(s)
    /\ UNCHANGED <<wallet, status, ledger, stored, provider>>

\* The status a DiddiPay answer gives the local row.
Target(r, answer) ==
    IF r \in Quotes
    THEN CASE answer = "pending"   -> "processing"
           [] answer = "succeeded" -> "succeeded"
           [] OTHER                -> "released"
    ELSE answer

----------------------------------------------------------------------------
(* What makes a session start. *)

\* create_topup: the intent exists at DiddiPay before the row does.
CreateTopup(s, t) ==
    /\ pc[s] = "idle" /\ provider[t] = "absent"
    /\ \E answer \in Answered :
          /\ provider' = [provider EXCEPT ![t] = answer]
          /\ Apply(s, t, answer, "commit")
    /\ UNCHANGED <<db, todo, event, seen, faults>>

\* An event DiddiPay has emitted, delivered late, twice or never.
Emitted(e) == provider[e[1]] \in Answered /\ e[2] \in {"pending", provider[e[1]]}

\* apply_diddipay_webhook: a stored id is a duplicate, an id another session
\* is inserting makes this one wait, an unknown reference is a 404.
Webhook(s, e) ==
    /\ pc[s] = "idle" /\ Emitted(e)
    /\ e \notin stored /\ \A u \in Actors : event[u] # e
    /\ status[e[1]] # "none"
    /\ Apply(s, e[1], Target(e[1], e[2]), "commit")
    /\ event' = [event EXCEPT ![s] = e]
    /\ UNCHANGED <<db, provider, todo, seen, faults>>

\* confirm_cash of a completed ride; a second confirmation is accepted too.
ConfirmCash(s, r) ==
    /\ pc[s] = "idle"
    /\ Apply(s, r, "collected", "commit")
    /\ UNCHANGED <<db, provider, todo, event, seen, faults>>

\* reconcile_topup, reconcile_withdrawal: the repair of one row on demand.
AdminReconcile(s, r) ==
    /\ pc[s] = "idle" /\ status[r] # "none" /\ provider[r] \in Answered
    /\ r \in Quotes \/ provider[r] # status[r]
    /\ Apply(s, r, Target(r, provider[r]), "commit")
    /\ UNCHANGED <<db, provider, todo, event, seen, faults>>

\* request_withdrawal on a quote that has no withdrawal yet.
RequestWithdrawal(s, q) ==
    /\ pc[s] = "idle" /\ status[q] = "none"
    /\ Goto(s, "reserve")
    /\ job' = [job EXCEPT ![s] = q]
    /\ UNCHANGED <<db, provider, target, back, todo, event, seen, faults>>

----------------------------------------------------------------------------
(* Settling a top-up or a cash ride: mark_topup_status or update_collected,  *)
(* then record_ledger_entry_once.                                            *)

Effect(r) == IF r \in CashRides THEN -Amount[r] ELSE Amount[r]

\* Mutant: the commission of a collected cash ride is forgotten.
PaidOnline(st) == st = "succeeded"
Paid(st) == st \in {"succeeded", "collected"}

\* The row is updated and, when the money is there, the ledger key inserted.
\* A key already in the ledger ends the work: nothing else is done.
MarkSettlement(s) ==
    LET r == job[s]
        fresh == Paid(target[s]) /\ ~Posted(s, r, "settled")
    IN  /\ pc[s] = "claim" /\ r \in Settlements /\ RowFree(s, r)
        /\ WriteRow(s, r, target[s], IF fresh THEN {"settled"} ELSE {})
        /\ Goto(s, IF fresh THEN "read" ELSE back[s])
        /\ UNCHANGED <<wallet, walletDraft, status, ledger, stored, provider, task, faults>>

\* The balance is read without a lock ...
ReadWallet(s) ==
    /\ pc[s] = "read"
    /\ seen' = [seen EXCEPT ![s] = Balance(s, Owner[job[s]])]
    /\ Goto(s, "write")
    /\ UNCHANGED <<db, provider, job, target, back, todo, event, faults>>

\* ... and the sum is written, once no other session holds the row.
WriteWallet(s) ==
    LET d == Owner[job[s]]
    IN  /\ pc[s] = "write" /\ WalletFree(s, d)
        /\ SetBalance(s, d, seen[s] + Effect(job[s]))
        /\ seen' = [seen EXCEPT ![s] = 0]
        /\ Goto(s, back[s])
        /\ UNCHANGED <<wallet, status, draft, ledger, stored, provider,
                       job, target, back, todo, event, faults>>

----------------------------------------------------------------------------
(* mark_withdrawal_provider_state. *)

\* Mutant: no early return for a withdrawal that has ended.
NeverEnded(s, q) == FALSE
Ended(s, q) == RowStatus(s, q) \in Final

\* The row is locked first; a final withdrawal is left as it is.
MarkWithdrawal(s) ==
    LET q == job[s]
        st == target[s]
    IN  /\ pc[s] = "claim" /\ q \in Quotes /\ RowFree(s, q)
        /\ IF Ended(s, q) THEN WriteRow(s, q, RowStatus(s, q), {})
                          ELSE WriteRow(s, q, st, {st} \cap Final)
        /\ Goto(s, IF ~Ended(s, q) /\ st = "released" THEN "refund" ELSE back[s])
        /\ UNCHANGED <<wallet, walletDraft, status, ledger, stored, provider, task, faults>>

\* The released amount goes back to the wallet, read under its lock.
Refund(s) ==
    LET d == Owner[job[s]]
    IN  /\ pc[s] = "refund" /\ WalletFree(s, d)
        /\ SetBalance(s, d, Balance(s, d) + Amount[job[s]])
        /\ Goto(s, back[s])
        /\ UNCHANGED <<wallet, status, draft, ledger, stored, provider, task, faults>>

----------------------------------------------------------------------------
(* request_withdrawal: reserve_withdrawal_from_quote, the commit, the call.  *)

\* Mutant: a quote already consumed is reserved again.
LockQuoteAgain(s) ==
    /\ pc[s] = "reserve" /\ RowFree(s, job[s])
    /\ WriteRow(s, job[s], status[job[s]], {})
    /\ Goto(s, "reserveWallet")
    /\ UNCHANGED <<wallet, walletDraft, status, ledger, stored, provider, task, faults>>

\* The quote is locked; one already consumed leads to its withdrawal.
LockQuote(s) ==
    LET q == job[s]
    IN  /\ pc[s] = "reserve" /\ RowFree(s, q)
        /\ WriteRow(s, q, status[q], {})
        /\ Goto(s, IF status[q] = "none" THEN "reserveWallet" ELSE "commitReserve")
        /\ UNCHANGED <<wallet, walletDraft, status, ledger, stored, provider, task, faults>>

\* The wallet is locked, its balance checked, the amount taken from it.
ReserveFunds(s) ==
    LET q == job[s]
        d == Owner[q]
    IN  /\ pc[s] = "reserveWallet" /\ WalletFree(s, d)
        /\ Balance(s, d) >= Amount[q]
        /\ WriteRow(s, q, "reserved", {"reserved"})
        /\ SetBalance(s, d, Balance(s, d) - Amount[q])
        /\ Goto(s, "commitReserve")
        /\ UNCHANGED <<wallet, status, ledger, stored, provider, task, faults>>

\* The quote has expired, or the balance is short: an error, a rollback.
RefuseWithdrawal(s) ==
    /\ pc[s] = "reserveWallet"
    /\ Rollback(s)
    /\ UNCHANGED faults

\* create_payout is sent; its idempotency key makes a second call harmless.
SendPayout(s) ==
    /\ pc[s] = "send"
    /\ provider' = [provider EXCEPT ![job[s]] = IF @ = "absent" THEN "requested" ELSE @]
    /\ Goto(s, "await")
    /\ UNCHANGED <<db, task, faults>>

\* A payout, or a refusal (an answer below 500), is applied to the row.
PayoutReply(s) ==
    /\ pc[s] = "await" /\ provider[job[s]] \in Answered \cup {"rejected"}
    /\ Apply(s, job[s], Target(job[s], provider[job[s]]), "commit")
    /\ UNCHANGED <<db, provider, todo, event, seen, faults>>

\* Mutant: the amount is given back when the answer does not come.
ReleaseOnTimeout(s) ==
    /\ pc[s] = "await"
    /\ Apply(s, job[s], "released", "commit")
    /\ UNCHANGED <<db, provider, todo, event, seen, faults>>

\* No answer, or one from 500 up: the error is raised, the row stays reserved.
PayoutTimeout(s) ==
    /\ pc[s] = "await"
    /\ Reset(s)
    /\ UNCHANGED <<db, provider, faults>>

----------------------------------------------------------------------------
(* reconcile_pending: every row in one transaction, top-ups before           *)
(* withdrawals, each list read once and then worked through.                 *)

BeginSweep(s) ==
    /\ pc[s] = "idle"
    /\ Goto(s, "sweepTopups")
    /\ todo' = [todo EXCEPT ![s] = {t \in Topups : status[t] = "pending"}]
    /\ UNCHANGED <<db, provider, job, target, back, event, seen, faults>>

\* Mutant: the sweep reads payouts only.
NewsOfPayout(r) == r \in Quotes /\ provider[r] \in Answered

\* DiddiPay says something new of the row.
News(r) == provider[r] \in IF r \in Topups THEN {"succeeded", "failed"} ELSE Answered

SweepStep(r) == IF r \in Topups THEN "sweepTopups" ELSE "sweepWithdrawals"

\* The next row: DiddiPay is asked, a status that is nothing new is passed over.
SweepRow(s, r) ==
    /\ pc[s] = SweepStep(r) /\ r \in todo[s]
    /\ todo' = [todo EXCEPT ![s] = @ \ {r}]
    /\ \/ News(r) /\ Apply(s, r, Target(r, provider[r]), SweepStep(r))
       \/ ~News(r) /\ UNCHANGED <<pc, job, target, back>>
    /\ UNCHANGED <<db, provider, event, seen, faults>>

\* The read failed: the row is counted as an error and passed over.
SkipRow(s, r) ==
    /\ pc[s] \in {"sweepTopups", "sweepWithdrawals"} /\ r \in todo[s]
    /\ faults < MaxFaults /\ faults' = faults + 1
    /\ todo' = [todo EXCEPT ![s] = @ \ {r}]
    /\ UNCHANGED <<db, provider, pc, job, target, back, event, seen>>

\* Mutant: a withdrawal still reserved, its answer lost, is not listed.
ListProcessing(s) ==
    /\ pc[s] = "sweepTopups" /\ todo[s] = {}
    /\ Goto(s, "sweepWithdrawals")
    /\ todo' = [todo EXCEPT ![s] = {q \in Quotes : status[q] = "processing"}]
    /\ UNCHANGED <<db, provider, job, target, back, event, seen, faults>>

ListWithdrawals(s) ==
    /\ pc[s] = "sweepTopups" /\ todo[s] = {}
    /\ Goto(s, "sweepWithdrawals")
    /\ todo' = [todo EXCEPT ![s] = {q \in Quotes : status[q] \in {"reserved", "processing"}}]
    /\ UNCHANGED <<db, provider, job, target, back, event, seen, faults>>

SweepDone(s) ==
    /\ pc[s] = "sweepWithdrawals" /\ todo[s] = {}
    /\ Goto(s, "commit")
    /\ UNCHANGED <<db, provider, task, faults>>

----------------------------------------------------------------------------
(* Transactions end. *)

Publish(s) ==
    /\ wallet' = [d \in Drivers |-> Balance(s, d)]
    /\ status' = [r \in Refs |-> RowStatus(s, r)]
    /\ ledger' = ledger \cup {e \in Refs \X Kinds : e[2] \in Posts(s, e[1])}
    /\ stored' = stored \cup ({event[s]} \ {NoEvent})
    /\ Release(s)

\* The end of a request, a callback or a sweep.
Commit(s) ==
    /\ pc[s] = "commit"
    /\ Publish(s) /\ Reset(s)
    /\ UNCHANGED <<provider, faults>>

\* Mutant: DiddiPay is called before the reservation is committed.
CommitLater(s) ==
    /\ pc[s] = "commitReserve"
    /\ Goto(s, "send")
    /\ UNCHANGED <<db, provider, task, faults>>

\* The explicit commit of request_withdrawal, which then calls DiddiPay.
CommitReservation(s) ==
    /\ pc[s] = "commitReserve"
    /\ Publish(s) /\ Goto(s, "send")
    /\ UNCHANGED <<provider, task, faults>>

\* The process stops, the connection drops, the commit fails.
Abort(s) ==
    /\ pc[s] # "idle"
    /\ faults < MaxFaults /\ faults' = faults + 1
    /\ Rollback(s)

\* u cannot go on before v ends its transaction.
WaitsFor(u, v) ==
    /\ u # v
    /\ \/ pc[u] \in {"claim", "reserve"} /\ draft[job[u]].by = v
       \/ /\ pc[u] \in {"write", "refund", "reserveWallet"}
          /\ walletDraft[Owner[job[u]]].by = v

\* PostgreSQL ends a session of a cycle of waiting sessions.
DeadlockAbort(s) ==
    /\ \E cycle \in SUBSET Actors :
          s \in cycle /\ \A u \in cycle : \E v \in cycle : WaitsFor(u, v)
    /\ Rollback(s)
    /\ UNCHANGED faults

----------------------------------------------------------------------------
(* DiddiPay. *)

\* A payout request arrives, is refused for good, or is lost on the way.
DecidePayout(q) ==
    /\ provider[q] = "requested"
    /\ \E answer \in {"pending", "rejected", "absent"} :
          provider' = [provider EXCEPT ![q] = answer]
    /\ UNCHANGED <<db, pc, task, faults>>

\* A pending intent or payout ends.
Conclude(r) ==
    /\ provider[r] = "pending"
    /\ \E answer \in {"succeeded", "failed"} : provider' = [provider EXCEPT ![r] = answer]
    /\ UNCHANGED <<db, pc, task, faults>>

----------------------------------------------------------------------------
Start(s) ==
    \/ \E t \in Topups : CreateTopup(s, t)
    \/ \E e \in Events : Webhook(s, e)
    \/ \E r \in CashRides : ConfirmCash(s, r)
    \/ \E r \in Remote : AdminReconcile(s, r)
    \/ \E q \in Quotes : RequestWithdrawal(s, q)

\* What a running session does next of its own accord.
Continue(s) ==
    \/ MarkSettlement(s) \/ ReadWallet(s) \/ WriteWallet(s)
    \/ MarkWithdrawal(s) \/ Refund(s)
    \/ LockQuote(s) \/ ReserveFunds(s) \/ RefuseWithdrawal(s)
    \/ SendPayout(s) \/ PayoutReply(s) \/ PayoutTimeout(s)
    \/ \E r \in Remote : SweepRow(s, r)
    \/ ListWithdrawals(s) \/ SweepDone(s)
    \/ Commit(s) \/ CommitReservation(s)
    \/ DeadlockAbort(s)

Fail(s) == Abort(s) \/ \E r \in Remote : SkipRow(s, r)

Diddipay == (\E q \in Quotes : DecidePayout(q)) \/ (\E r \in Remote : Conclude(r))

Next ==
    \/ \E s \in Sessions : Start(s)
    \/ BeginSweep(Sweeper)
    \/ \E s \in Actors : Continue(s) \/ Fail(s)
    \/ Diddipay

Spec == Init /\ [][Next]_vars

\* A session that can go on does, and the loop sweeps again.  Those who wait
\* for a row are served in turn, a released lock going to the first of them:
\* hence strong fairness where a lock is taken.  Nothing is asked of DiddiPay:
\* a payout may stay pending for ever.
TakeRow(s) == MarkSettlement(s) \/ MarkWithdrawal(s) \/ LockQuote(s)
TakeWallet(s) == WriteWallet(s) \/ Refund(s) \/ ReserveFunds(s) \/ RefuseWithdrawal(s)

Fairness ==
    /\ \A s \in Actors :
          WF_vars(Continue(s)) /\ SF_vars(TakeRow(s)) /\ SF_vars(TakeWallet(s))
    /\ WF_vars(BeginSweep(Sweeper))

FairSpec == Spec /\ Fairness
----------------------------------------------------------------------------
(* Properties. *)

\* A withdrawal's status and its ledger entries tell one story: it is in the
\* ledger as reserved once it exists, as succeeded or as released when it has
\* ended so, and never as both.  mark_withdrawal_provider_state is entered by
\* the request, the callback and the sweep at once; the row lock and the
\* early return of a final row are what keeps them apart.
WithdrawalLedger ==
    \A q \in Quotes :
        /\ (<<q, "reserved">> \in ledger) <=> (status[q] # "none")
        /\ \A st \in Final : (<<q, st>> \in ledger) <=> (status[q] = st)

\* A top-up shown as paid, or a cash ride as collected, has its entry: the
\* status and the entry are committed together, whoever applied them.
PaidIsPosted ==
    \A r \in Settlements :
        status[r] \in {"succeeded", "collected"} => <<r, "settled">> \in ledger

\* A withdrawal that has ended never changes again, whatever callback, sweep
\* or late answer comes after.
FinalWithdrawalStays ==
    [][\A q \in Quotes : status[q] \in Final => status'[q] = status[q]]_vars

\* The commit that reserves a withdrawal takes exactly its amount from the
\* balance committed before it, which covered it.
ReservationIsCovered ==
    [][\A q \in Quotes :
          <<q, "reserved">> \in ledger' \ ledger =>
              /\ wallet'[Owner[q]] = wallet[Owner[q]] - Amount[q]
              /\ wallet'[Owner[q]] >= 0]_vars

\* DiddiPay is never asked for a payout whose reservation is not committed:
\* a crash between the two steps cannot pay out money still in the wallet.
PayoutNeedsReservation ==
    \A q \in Quotes : provider[q] # "absent" => <<q, "reserved">> \in ledger

\* Money leaves once: an amount put back in the wallet is not, and will not
\* be, paid out by DiddiPay as well.
ReleasedIsNotPaidOut ==
    \A q \in Quotes : status[q] = "released" => provider[q] \in {"rejected", "failed"}

\* The sweep repairs every lost callback: the ledger gets the entry of each
\* top-up that has a row and that DiddiPay has been paid.
PaidTopupIsCredited ==
    \A t \in Topups :
        (status[t] # "none" /\ provider[t] = "succeeded") ~> <<t, "settled">> \in ledger

\* A withdrawal whose payout has ended at DiddiPay ends here too.
KnownPayoutIsSettled ==
    \A q \in Quotes : provider[q] \in {"succeeded", "failed"} ~> status[q] \in Final

\* A reserved withdrawal that DiddiPay has no payout for is sent again or
\* given back ("Un payout inconnu est reessaye puis reconcilie").
UnknownPayoutIsRetried ==
    \A q \in Quotes :
        (status[q] = "reserved" /\ provider[q] = "absent")
            ~> (status[q] # "reserved" \/ provider[q] # "absent")
=============================================================================
