# DiddiGo backend: models, checks and proofs

DiddiGo is a ride-hailing backend: FastAPI handlers over PostgreSQL (SQLAlchemy, one
session per request) and Redis, with DiddiPay for payments, DiddiMap for routes and
DiddiFreeID for identities. The code is under `src/app_base/`. This directory holds TLA+
models of its core, the TLC runs that check them, and TLAPS proofs.

- [1. The system](#1-the-system): components, state, operations, hard behaviours
- [2. How the code runs](#2-how-the-code-runs): what every model has in common
- [3. DriverWallet](#3-driverwallet), [4. RideLifecycle](#4-ridestates-and-ridelifecycle),
  [5. Matching](#5-matching), [6. Collection](#6-collection),
  [7. CapabilityOutbox](#7-capabilityview-and-capabilityoutbox),
  [8. DriverDossier](#8-driverdossier), [9. PartnerFleet](#9-partnerfleet),
  [10. OneTimeCodes](#10-onetimecodes), [11. RideFigures](#11-ridetariff-and-ridefigures):
  modules, runs, bounds, fairness
- [12. Proofs](#12-proofs)
- [13. Where the code does not keep a property](#13-where-the-code-does-not-keep-a-property)
- [14. What is not modelled](#14-what-is-not-modelled) and [15. Plan](#15-plan)

`PROJECT.json` lists components, runs, hazards, theorems, and for each definition that
models code the lines it stands for.

## 1. The system

| Component | State | Operations | What is hard, and what makes it correct | Module |
|---|---|---|---|---|
| Driver wallet and withdrawals (`modules/payment`: `wallet_service.py`, `reconciliation.py`, `infra/repositories.py`) | balance row of a driver; append-only ledger with a unique key per reference and kind; top-ups; withdrawals and their quotes; webhook event ids | create a top-up, apply a DiddiPay callback, confirm cash, request a withdrawal (reserve, commit, call, apply the answer), reconcile one row, sweep all rows | a balance kept up to date by concurrent sessions; a remote call between two transactions; callbacks lost, late, twice. Money leaves once, every outcome is eventually applied | DriverWallet |
| Ride lifecycle (`modules/ride`: `domain/entities.py`, `application/services.py`, `infra/repositories.py`, `presentation/router.py`), with the saves that emergency and sharing make | the row of a ride, its supplements, `ride_status_history` | accept, arrive, start with a code, wait, resume, ask and confirm an early stop, propose and decide supplements, cancel, no-show, PATCH of the status, saves that change no status | a whole object is read without a lock and saved later over whatever the row has become. The status follows its graph, an ended ride stays ended, the fare covers what was accepted | RideStates, RideLifecycle |
| Ride matching (`matching_service.py`, `infra/offer_store.py`, `infra/driver_location.py`) | Redis: open offers, tried drivers, claim, availability. PostgreSQL: status and driver of a ride. Memory: timers | create a ride, accept, refuse, expire a wave, cancel, complete, go online or offline | two stores without a common transaction, timers that a restart loses, one driver on several rides. Nobody is asked twice or drives two rides, every ride is answered | Matching |
| Ride payment collection (`modules/payment/application/services.py`) | transaction of a ride, its DiddiPay intents, passenger debts | prepare a payment, replace an intent, callback, sweep, cash fallback, settle a debt | statuses that are not monotone, two sources of truth for one payment. One collection and one settlement per ride | Collection |
| Withdrawal verification code, authentication and phone codes, return contexts (`modules/auth`, `wallet_service.py`, `return_contexts.py`) | codes with attempts and expiry; accounts and tokens; the Redis context of a return link | ask for a code, verify or present it, activate the account, issue a token; bind and consume a link | one code presented twice at once, a token used before the commit, a context written while it is consumed. Everything is used once | OneTimeCodes |
| Driver onboarding and KYC, service to service commands (`driver_service.py`, `core/s2s_command_store.py`) | profile, vehicles and the review of each document; the Redis record of each command | create, register, resubmit, approve, reject, photo, assign to a partner; reserve, complete and release a key | whole-row saves, partial reviews in any order, a retry after a crash. Nobody works with an unreviewed dossier, one effect per command | DriverDossier |
| Capability projection outbox (`capability_projection*.py`) | outbox rows with versions and attempts; what DiddiFreeID shows | enqueue, poll, send, mark, retry, reconcile | several workers, late answers, crashes. DiddiFreeID never goes back, and ends with the truth | CapabilityView, CapabilityOutbox |
| Partners and fleets (`modules/partner`) | partner dossier and commission, members, affiliations, vehicles, assignments | create, update, submit, decide; affiliate, assign, supply and their inverses | checks apart from inserts, two tables that say the same thing. One partner per driver, one driver per vehicle | PartnerFleet |
| Routing and tariffs, driver priority, scoring, summaries and breakdowns (`pricing`, `priority_service.py`, `breakdown_service.py`) | quotes, fares, the priority ledger, cached pages of figures | estimate, consume a quote, bill waits and supplements, price an early stop, score, sum up a day | rounding, prices inferred from rounded amounts, figures read while rides are being committed | RideTariff, RideFigures |
| Application shell (`main.py`, `core/`) | sessions and connections | commit or roll back a request | in every model | all |
| Dispatch configuration | one row | read, update | its values are parameters of Matching | |
| Websocket sessions, notifications | sockets in memory; push and SMS | connect, push, broadcast | the clean-up of an old socket may take a reconnected driver offline: Matching lets a driver go offline at any time | |
| Observability, audit and logging | logs, metrics, an append-only table | append | none | |

How they interact. A request handler of the ride router calls the lifecycle service and
then the matching service, in one database session, and changes Redis on the way. A
completed ride is settled by the payment service (a cash ride owes its commission to the
wallet), writes a priority event, and enters the figures. DiddiPay calls back the payment
router, which finds the row (payment, top-up or withdrawal) by its intent. A loop of the
process (`reconciliation_loop`) sweeps the rows whose callback never came; another one
(`capability_projection_loop`) delivers the statuses that reviews, matching and presence
have published. The back office and the partners reach the dossiers by idempotent commands.
A wave of offers starts an in-memory task that calls matching again when the offers have
expired.

The hazards, each at the line where it bites and with the properties that watch it, are
in `PROJECT.json`.

## 2. How the code runs

Handlers are coroutines of several processes, so any two database or Redis calls of two
requests can interleave. All modules model the session of a request in the same way
(`core/database.py:70-103`, PostgreSQL READ COMMITTED):

- a session sees committed rows and its own writes (`View`, `RowStatus`, `Balance`);
- a written row, or one selected FOR UPDATE, stays locked until the commit or the
  rollback: the session that holds it is recorded, with its new version where the
  transaction can still fail (`draft`, `holder`, `locks`), and another writer has to wait;
- the writes become visible together (`Commit`), or not at all (`Abort`, `Fail`);
- a unique key that another session is inserting makes the second one wait.

One action is what happens between two points where another session can get in: a read,
a write that can wait for a lock, a call to another service, a commit. Two writes of one
transaction that hold the same lock are one action. Where nothing can be seen between the
first write and the commit, because all that is written is locked (PartnerFleet), both are
one action.

Each session variable is reset when its request ends, so that states do not differ by
what nobody will read.

Overlaps. Many handlers of this code read a row without a lock and save it whole, so that two
of them on one row may lose an update. Every module lets any two requests overlap. Where an
overlap breaks a property, the module remembers it and the property is stated until then:

- RideLifecycle, Matching and Collection know which requests keep the properties beside one
  another (`KeptTogether`, as many as TLC finds), and count in `overlaps` the starts of any other
  beside one that is under way. `MaxOverlaps` bounds that count in a run; the properties it
  concerns are stated while `overlaps = 0`.
- DriverDossier and PartnerFleet remember in `overlapped` that any two have overlapped.

Properties that hold through every overlap are stated without condition. What the others lose is
in section 13.

## 3. DriverWallet

`DriverWallet.tla` models the balance and its ledger, top-ups, cash commissions and
withdrawals. `MCDriverWallet.tla` gives TLC one driver, amounts and the sum over the
ledger; `DriverWalletProofs.tla` holds the proofs.

| Model | Code |
|---|---|
| `wallet`, `walletDraft` | `driver_wallets.available_balance`, committed and as its holder has written it |
| `status`, `draft` | the row of a top-up, of a cash payment or of a withdrawal (a quote becomes at most one); `draft.posts` are the ledger keys inserted with it |
| `ledger` | `driver_ledger_entries`, by its unique key `<<reference, kind>>` |
| `provider` | what DiddiPay holds: no payout, a request on its way, a refusal, pending, succeeded, failed |
| `CreateTopup`, `Webhook`, `ConfirmCash`, `AdminReconcile`, `RequestWithdrawal`, `BeginSweep` | the entry points |
| `MarkSettlement`, `ReadWallet`, `WriteWallet` | `mark_topup_status` or `update_collected`, then `record_ledger_entry_once`, which reads the balance without a lock and writes the sum |
| `MarkWithdrawal`, `Refund` | `mark_withdrawal_provider_state`, under the lock of the row and then of the wallet |
| `LockQuote`, `ReserveFunds`, `CommitReservation`, `SendPayout`, `PayoutReply`, `PayoutTimeout` | `request_withdrawal`: the reservation is committed, then DiddiPay is called, then the answer is applied; an answer from 500 up, or none, leaves the row reserved |
| `SweepRow`, `SkipRow`, `ListWithdrawals`, `SweepDone` | `reconcile_pending`: one transaction for all rows |
| `DeadlockAbort` | PostgreSQL aborts one session of a cycle of waiting sessions |

| Run | Instance | What it shows |
|---|---|---|
| `wallet` | 2 sessions, sweep, one top-up, one cash ride, one quote, 1 fault | status and ledger of a withdrawal agree; what is shown as paid is posted; no payout without a committed reservation; a released amount is not paid out; a final withdrawal stays; a reservation takes its amount from a balance that covers it |
| `wallet_liveness` | 1 session, sweep, one top-up, one quote, an opening balance of 3, 1 fault, fairness | the sweep alone applies every outcome DiddiPay has reached, deadlocks with a callback included (the sweep holds the wallet for the top-up and waits for the withdrawal that a callback holds) |
| `wallet_race` | 2 sessions, a top-up and a cash ride | violated: one of two concurrent entries is lost from the balance |

Bounds. Two request sessions and the sweep are three writers of one driver's rows: each
property speaks of one reference, or of one wallet row shared by two. A withdrawal is as
large as a top-up and twice a commission, so funds do run short. Rows of different
drivers share nothing but the sweep's transaction, so one driver is enough for TLC, and
the proofs have any number. `MaxFaults` counts aborted sessions and failed reads of
DiddiPay: one is enough for a crash at any step; a crash after a crash meets the same
committed states.

Fairness (`FairSpec`). A session that can take a step takes one: the event loop runs it,
and PostgreSQL breaks deadlocks. Where a lock is taken (`TakeRow`, `TakeWallet`) the
fairness is strong: PostgreSQL serves those who wait for a row in turn and a rollback
hands the lock to the first of them. Without it the sweep and a callback could be each
other's deadlock victims for ever, and repairs on demand could keep a row from the sweep.
The sweep starts again (`reconciliation_loop` never returns). Nothing is asked of DiddiPay
or of the number of callbacks: both liveness properties start from an outcome DiddiPay has
reached.

Abstractions. The callbacks of a ride paid by mobile money credit the wallet by the same
two calls as those of a top-up; its transaction row is in Collection. A withdrawal's
verification code is assumed valid here: it is in OneTimeCodes. DiddiPay's idempotency key
makes a second call harmless and a refusal final. Amount, currency and reference checks
of a callback, unknown provider statuses, the sweep's batch size and age limits are left
out, and "disputed" is a failure. The wallet row exists. The entry written when a
withdrawal succeeds has no effect on the balance, as in the code. A repeated read of a
row selected FOR UPDATE is fresh.

## 4. RideStates and RideLifecycle

`RideStates.tla` is the abstract specification: one status that follows
`ALLOWED_TRANSITIONS`. `RideLifecycle.tla` is the row of one ride and the handlers that
change it; `MCRideLifecycle.tla` names the requests of the run; `RideLifecycleProofs.tla`
holds the proofs.

| Model | Code |
|---|---|
| `ride` | the committed row: status, whether a driver, a start code, its use, a start of a wait and an early stop are set; attempts; waits billed; `supplements_total`; `final_fare` less the quote |
| `snap`, `base` | the domain object a handler has loaded, and the row that `save` reads again |
| `Load` with `Admits` | the load of the ride and every check before the save, early returns included |
| `Save`, `Update` with `After`, `Merge` | `SqlAlchemyRideRepository.save`: the row is read again, every attribute of the object is copied onto it, and the UPDATE, which waits for the lock, sets the columns that differ from that second reading |
| `Decide` | `decide_supplement`: the row and the supplement are read under a lock, the total is computed, and the ride loaded before the lock is saved |
| `Note`, `history` | `record_status_transition`, for the handlers that call it |
| `Commit`, `Abort` | the end of the request |

A request is a pair `<<handler, what it leads to>>`; `AllRequests` has every handler that
writes the row: those of the driver, the passenger, matching (`accept`, `giveup`), and
`touch`, any save that changes no field of the model (emergency, sharing).

| Run | Instance | What it shows |
|---|---|---|
| `ride` | 2 sessions, 2 supplements, every request (a PATCH to any status included) from `requested`, `MaxOverlaps` 0 | `StateMachine`, the refinement of RideStates; the fare of a completed ride covers its waits and accepted supplements, once; a ride that runs, waits or is completed was started with its code, within the attempts allowed; every status that a recording handler leads to is in the history; a decision is final, and the total it commits counts every accepted supplement |

Overlaps (`KeptTogether`). These handlers keep the properties beside one another: proposals and
decisions; proposals with waits, resumes, saves without change and the demand of an early
stop; a proposal with the confirmation of an early stop; two requests for arrival, for the
start, or for a no-show. The run has these beside each other, and every other handler when no
other one is under way; with `MaxOverlaps` 1 (`MaxWaits` 1, `MaxAttempts` 1, `MaxFare` 3) any
handler overlaps any other one once, and what is stated without condition holds on. The last
two of the table's properties, about supplements, have no condition. Two at a time are enough
for TLC, and the proofs have any number: each violation found is a write of one between the
read and the write of another, and the row lock lets one write at a time.

PATCH /status. `update_status` follows the graph and does none of the work of the other routes.
It refuses `in_progress` only, so that it may set a ride to arrived, which then has no start code,
or to waiting, which then has no start of a wait. `StartedWithCode` says what holds all the same:
such a ride does not run without a code. That it cannot go on is in section 13.

Bounds. `MaxWaits` 2, `MaxFare` 4 and `MaxAttempts` 2 stop the count of waits, the growth of
a fare and the wrong codes; two waits and two supplements are enough to tell a sum from a
last value, and they fill the fare, so that a retried billing would show in
`FareCoversExtras`. Deadlock is reported: a `touch` or an abort keeps the model going.

Abstractions. The two loads of `_stop_waiting` are one. A cancellation of a waiting ride saves
the same object twice, a completion of a waiting ride loads it again: `Update` has both. Fees
and prices are units (RideTariff has the amounts). The wait before the start, the expiry of an
early stop (RideFigures has it), ratings, stops and GPS batches are left out. One acceptance
runs at a time, which is what the claim of Matching is for.

## 5. Matching

`Matching.tla` models offers, claims, availability, timers and the two columns of a ride
that matter here; `MCMatching.tla` gives TLC the symmetry; `MatchingProofs.tla` holds the
proofs.

| Model | Code |
|---|---|
| `row`, `holder`, `draft` | status and driver of each ride; matched stands for every status from matched to waiting |
| `offered`, `tried`, `claim` | the keys `rides:offer:`, `rides:offer:tried:`, `rides:claim:` |
| `available`, `away` | the availability flag of a driver; `away` is history: those who have gone offline since they were last made available |
| `timers`, `Fire` | the tasks of `_schedule_offer_wave_expiry`, each with a session of its own (`Clocks`) |
| `Create`, `Accept`, `Decline`, `End`, `Retry` | the handlers, from their load of the ride; `Retry` is a repeated PATCH to completed |
| `Patch`, `patched` | a PATCH to another status than completed, which saves the ride and touches nothing else; history: the rides it has set |
| `Claim`, `Close`, `Refuse`, `Count`, `Open`, `Notify`, `Clear` | the calls to Redis, one action each, seen at once |
| `Match` with `Waves`, `Nearby` | `try_match`: give up, leave an open wave alone, or choose one |
| `Read`, `Write`, `Conflict` | `save` as in RideLifecycle, with the partial unique index `uq_rides_one_active_per_driver` |
| `SwitchOn`, `SwitchOff` | a driver goes online or offline, by his app or by the end of a socket |
| `Lapse`, `Fail`, `Restart` | the TTL of a wave, a rolled back request, a new process |

Every call to Redis is an action of its own because it is seen before the request's
commit, and stays when the request rolls back.

| Run | Instance | What it shows |
|---|---|---|
| `matching` | 2 rides, 2 drivers, waves of 2, 2 sessions and a timer, every request, `MaxOverlaps` 0, no fault | a driver has one active ride; no offer, claim or unavailable driver is left over when no request is under way, but for the rides a PATCH has set |
| `matching_liveness` | 1 ride, 2 drivers, 2 sessions and a timer, every request, `MaxOverlaps` 1, 1 fault, fairness | every requested ride is answered, as long as nothing has failed; nobody is asked twice for a ride, after a failed request or a restart too, until requests overlap that are not kept together |

Overlaps (`KeptTogether`). A creation runs beside an acceptance, a cancellation, a completion
and its retry, or a timer, and a completion and its retry beside a timer; timers are handled
one at a time. The first run has these, the second one any other overlap once. Section 13 has
what the others break, and `OneActiveRidePerDriver` is proved through all of them.

PATCH /status. Only a PATCH to completed calls `release_driver`: one to a cancelled status, to
no_driver_found or to matched leaves the offers of the ride open, its claim set, and its driver
out of the pool. `NothingLeftBehind` excepts what is left of these rides (`patched`) and holds
for all the others; section 13 has what is left.

Bounds. Two rides are the fewest that share a driver, and two drivers and waves of two give
waves of one and of two, a second wave when one of them comes back, and a last driver who is
alone in it. `MaxFaults` counts failed requests and restarts; what is left behind is stated
without them.

`CHECK_DEADLOCK FALSE`: the rides of the model are created once and end, and then
nothing is left to do.

Fairness. The event loop runs a started session and wakes a timer whose time has come,
and Redis expires keys. Nobody has to answer, create, cancel or go online.

Abstractions. Distance, ETA, vehicle, partner, balance and the growing radius choose the
candidates of a wave: the model takes any set of available drivers not tried before, and
lets `try_match` give up at any time (nobody suits, or the search budget is spent). The
TTLs of 900 s of tried drivers and claims and of 300 s of availability are left out: a
ride's search is shorter. A timer sleeps longer than its wave lives (`TimerDue`), and a
creation request is assumed to commit within that time.

## 6. Collection

`Collection.tla` models the payment of one completed ride: its rows in
`payment.transactions`, the DiddiPay intents behind them, and the entries it leaves in the
driver's ledger. `MCCollection.tla` adds the symmetry of rows, `CollectionProofs.tla` proves its
properties.

| Model | Code |
|---|---|
| `choice` | `payment_method` of the ride, fixed when it is created |
| `row`, `holder`, `draft` | status, method and intent of each transaction, locks and uncommitted versions as in section 2 |
| `provider` | the intents at DiddiPay, numbered by their idempotency key: the first key comes from the ride, the next from the intent that failed |
| `stored`, `event` | `payment_webhook_events`, and the event a session is inserting |
| `ledger`, `posts` | the ledger entries of the ride, committed or not (the balance is DriverWallet's) |
| `PrepareMobile`, `CreateIntent`, `Insert` or `Read` and `Update` | `prepare_payment` by mobile money: find the row, call DiddiPay, store a row or replace the intent |
| `PrepareCash`, `ConfirmCash` | `_prepare_cash`, `confirm_cash` |
| `Webhook`, `Repair`, `BeginSweep`, `SweepRow`, `SweepDone` | the callback, the repair of one ride, the loop that re-reads pending rows |
| `Settle` with `Entry` | `_record_ride_settlement`: by the method the ride was created with, not the one paid with |

| Run | Instance | What it shows |
|---|---|---|
| `collection` | 2 sessions, one of them also the sweep, 2 rows, 2 intents, `MaxOverlaps` 2 | one mobile payment at a time, even when a request dies after DiddiPay has answered it (the key is that of the lost intent); an intent leaves its row only when it has failed; a payout for an intent that was paid, a commission for cash, never both |

Overlaps (`KeptTogether`). Once the ride has a row, callbacks, sweeps, repairs and confirmations
of cash (`Marking`) run beside each other in any number: they leave the intent of a row as it is,
and keep every property. A session that replaces an intent, or inserts the row, beside another one
is counted: `OneAttemptAtATime` and `OnlyFailedIsReplaced` are stated until then, and break then
(section 13). `LedgerFollowsMoney` holds through every overlap.

Bounds. Two intents are a payment and a retry, and a callback or a sweep that knows the first one
may meet the second. A second row is there for two insertions at once. Two starts may be counted,
so that a third session meets what two have left. Other instances have passed: three intents
(a retry of a retry) without a counted overlap and with one, and a sweep of its own beside two
sessions.

Requests, callbacks (late, repeated or lost) and sweeps come in any order;
DiddiPay concludes an intent between any two steps, and a session may abort at each of them,
after the call to DiddiPay and before the commit included. Deadlock is reported: a
late request or a repair can always come.

Abstractions. Amounts (confirm_cash's tolerance, the checks of amount and currency), the
next action shown to the passenger, the return token, and the age window and limit of the
sweep are left out. Cancelled, expired and failed intents are one status, and so are
pending, processing and requires_action. One event stands for all those of an intent with
one status. Passenger debts are not in the model: they are listed and settled by
operations of their own, and nothing in the code creates one.

## 7. CapabilityView and CapabilityOutbox

`CapabilityView.tla` is the abstract specification: DiddiFreeID shows a status that has been
published, and never an older one after a newer one. `CapabilityOutbox.tla` is the outbox
that delivers them; `CapabilityOutboxProofs.tla` holds the proofs.

| Model | Code |
|---|---|
| `standing`, `online` | what the committed profile and vehicles of a driver, and his markers in Redis, say of his status |
| `state`, `event` | `driver_capability_projection_states` and `_events` |
| `holder`, `batch`, `marks` | the state rows a worker has locked in its transaction, the events it has locked and not sent, and those it has sent with the answer it will record |
| `shown`, `known` | DiddiFreeID: what it shows, and whether it knows the user |
| `GoOnline`, `GoOffline`, `Review`, `MoveMarkers` | what changes the status: presence, an admin's review, and without publication the end of a marker or a ride that takes the driver out of the pool and brings the driver back |
| `Publish` with `Enqueue`, `Fail` | `enqueue`, in the transaction of the request |
| `Poll`, `Send`, `Mark`, `CommitBatch` | `deliver_due`: the events that are due are selected with SKIP LOCKED, sent, and marked in one transaction |
| `Scan`, `Look`, `Reconcile` | the reconciliation: rows first, markers later, publication last, with a repeated event for what was sent long ago |
| `Crash`, `Register` | a worker dies with its transaction; a user becomes known to DiddiFreeID |

| Run | Instance | What it shows |
|---|---|---|
| `outbox` | 1 user, 1 request session, 1 worker, standings offline and suspended, 2 changes, 1 fault, fairness | a projection recorded as synchronised is the one shown; the outbox implements CapabilityView; once nothing changes, DiddiFreeID comes to show what rows and markers say, unless the last event was parked |

Bounds. Two changes publish a status and replace it while the first is on its way. One fault
is a failed request, a lost answer, an unavailable receiver or a crash; the safety
properties are proved for any number of workers, users, changes and faults.

Fairness. The loop goes on and a retry comes due (strong for the event that is the last of
a user: others may be due first), PostgreSQL hands a state row over in turn (strong for
`Mark`, `Scan` and the reconciliation), and a worker that can send, look or commit does.
Nothing is asked of requests, of DiddiFreeID's answers beyond `MaxFaults` failures, or of
the registration of a user.

Abstractions. Versions are numbers of events, as in the code's `desired_version`. Delays
between attempts, batch sizes and the payload are left out: any subset of the unsent events
may be due.

## 8. DriverDossier

`DriverDossier.tla` models the profile of one driver and his vehicles, their documents and
reviews, the status published from them, and the idempotent commands of the back office.
`DriverDossierProofs.tla` holds the proofs.

| Model | Code |
|---|---|
| `row` | `driver_profiles` and `vehicles`: status, KYC, activity, documents held and the review of each |
| `published` | the status that DriverService last gave to the outbox, `_operational_status` |
| `copy`, `seen`, `profile`, `told` | what a request has read: its copy of the row, the second reading of `save`, the profile, the status it will publish |
| `cmd`, `audited` | the Redis record of each idempotency key, and the audit rows written under it |
| `Begin` with `Admitted`, `Save`, `Write`, `Commit` | a request: checks, effect on the copy, second reading, UPDATE of the columns that differ, commit with publication and audit |
| `Finish`, `Fail`, `Forget`, `Crash`, `Expire` | the answer stored for the key, a failed request that releases its key, a record that is lost, a process that dies, a reservation that expires |
| `CandidateStatus`, `Cleared` | the status the reconciliation computes, and what `resolve_driver` asks of profile and vehicle |

| Run | Instance | What it shows |
|---|---|---|
| `kyc` | 2 sessions, 2 vehicles, three document types, a key, 5 requests (3 once two overlap), 1 fault | while requests do not overlap: an active dossier is approved on all it must hold, a refusal names a document, the published status is one the reconciler computes, and "offline" is published only to a driver whom `resolve_driver` lets through with one of his vehicles, and always when it does with all of them; always: a command takes effect once for its key, and with its audit row |

What going online asks. `POST /drivers/online` calls `resolve_driver` (`Cleared`) and then
`ensure_can_go_online` (`driver_router.py:316`, `driver_online_eligibility.py:35-71`: an active
partner, a balance that allows it). The status DriverService publishes knows nothing of the
second, so `ToldWhoIsCleared` speaks of the first only: a driver who is shown as offline, with
the action to go online, may be refused for his partner or his balance. What `POST /online` and
`/offline` publish themselves is in CapabilityOutbox.

Bounds. Five requests are enough to create a profile and two vehicles, or to create both kinds
of dossier, review each and correct one; six (without the optional paper) and, with one session, eight have passed too;
three with an overlap are enough for a command, its retry and another request. Two sessions in
the state, one key and one fault give a retry that runs beside the first attempt or after its
crash. `CHECK_DEADLOCK FALSE`: the requests are bounded.

Abstractions. The profile must hold one type of document, the vehicle a second one, and it may
hold a third; a partial review names any of them. Plates, provisioning by another service, the
texts of reasons and the back office's listings are left out.

## 9. PartnerFleet

`PartnerFleet.tla` models partners, their members, affiliated drivers and vehicles;
`PartnerFleetProofs.tla` holds the proofs.

| Model | Code |
|---|---|
| `partner`, `member` | the dossier and commission of each partner, and its members |
| `links`, `assigned` | the active rows of `partner_driver_links` and `vehicle_assignments`, under their partial unique indexes |
| `vehicle` | `ride.vehicles`: owner, driver, verification, activity |
| `Begin` with `Admitted`, `Reread`, `Apply` with `Effect`, `Possible` | a request: its checks, the second reading of what it saves, and its flush and commit; an index or the vanished row makes it impossible |
| `Fail` | an error before the commit |

| Run | Instance | What it shows |
|---|---|---|
| `partner` | 2 sessions, 2 partners, 2 drivers, a vehicle, a user, a paper, 4 requests (3 once two overlap) | through every overlap, one active partner per driver and one active assignment per vehicle; while requests do not overlap, the vehicle of an assignment belongs to the partner and the driver of the assignment |

Bounds. Four requests assign a vehicle, undo it and assign it elsewhere; both properties
are also proved, without these bounds. `CHECK_DEADLOCK FALSE`: the requests are bounded.

Abstractions. A commission rate is a share (at most 1) or an amount; names, contacts,
statistics and listings are left out, and so is `driver_is_blocked_by_partner`, a filter of
matching (whose candidates are any set of available drivers).

## 10. OneTimeCodes

`OneTimeCodes.tla` models what may be used once: the code of a phone, the code of a
withdrawal, and a return link. `OneTimeCodesProofs.tla` holds the proofs.

| Model | Code |
|---|---|
| `codes`, `spent` | `auth.otp_codes` and `payment.driver_withdrawal_verifications`; history: the quote each was consumed for |
| `account`, `tokens` | `auth.users` of the phone, absent, pending, active or suspended; whether tokens are out |
| `withdrawal`, `balance`, `locks` | the withdrawal of each quote, the wallet, and the rows selected FOR UPDATE |
| `Begin` with `Admitted`, `Send` | a request, and the delivery of a code it has asked for (with the delay between two codes) |
| `ReadAccount`, `Activate`, `IssueToken` | `verify_otp`: the code is consumed, an account that is absent or pending is activated and committed, the token made; one that is suspended stays so and gets its token |
| `Present`, `Refuse`, `Reserve`, `Commit` | `request_withdrawal`: the code is locked and compared, the quote and the wallet are locked, the code is consumed with the reservation |
| `CreateLink`, `ReadLink`, `SetLink`, `LooksUp`, `ConsumeLink`, `ExpireLink` | `return_contexts.py`: the context is set, read and set again with its payment, and consumed by GETDEL |
| `Tick`, `Fail` | the clock; a rolled back request |

| Run | Instance | What it shows |
|---|---|---|
| `codes` | 2 sessions, 2 codes, 2 quotes, a link, a balance for two withdrawals, codes that live 2 instants, 2 attempts, 5 requests | a code confirms one withdrawal and is consumed exactly with it, a token comes after the account is verified and no account found earlier undoes that, a link is recognised once |

Bounds. Two quotes and two codes are presented in all combinations by two requests at once,
and the clock lets a code and the quotes expire. The properties are proved without the
bounds. `CHECK_DEADLOCK FALSE`: the requests are bounded.

Accounts. A run starts with an account of any status. Only the copy of an identity account is
ever written as suspended (`auth_deps.py:206-218`), before these requests. `verify_otp` gives a
suspended user a token (`auth/application/services.py:143-165`), which is refused where it is used
(`auth_deps.py:124, 133`): hence `TokenMeansVerified` speaks of accounts active or suspended.

Abstractions. A code is right or wrong; the identity of the phone and of the beneficiary,
the contents of tokens, and the delivery by SMS are left out.

## 11. RideTariff and RideFigures

`RideTariff.tla` has the amounts as pure operators: quote, commission, early stop, waiting
fees, score, in scaled integers with the rounding of the code (half to even).
`RideFigures.tla` puts them into the rides of one passenger: quotes, fares, priority events,
scores, and the figures of a day behind their cache. The proofs are the second part of
`RideLifecycleProofs.tla`, which extends both modules about rides; hence the names of their
own that RideFigures gives to its `FiguresInit`, `FiguresNext` and `FiguresSpec`.

| Model | Code |
|---|---|
| `Estimates`, `Offers` | the rules, comfort levels, distances and times a quote may be asked for, and what `estimate_pricing` answers |
| `quotes`, `CreateQuote`, `RequestRide` | a quote with its lifetime, locked by the ride that consumes it |
| `rides`, `written`, `Write`, `CommitRow`, `AbortRow` | the row of a ride, and the transaction that changes it |
| `AskEarlyStop`, `Provisional`, `asked`, `EarlyStopTtl` | the demand of an early stop: the amount the passenger is told, over the way recorded so far, and how long it stands |
| `Arrive`, `Start`, `AddExtra`, `Complete`, `ConfirmEarlyStop`, `Cancel`, `NoShow`, `Rate` | the ends of a ride and what leads to them, with the billing of each (`BilledTotal`) |
| `priority` | the ledger of `_record_priority_outcome`, in the transaction of the end |
| `DriverScore`, `Score` | `driver_scoring_stats`, `_score_payload` |
| `Calculate`, `Store`, `pages`, `Share`, `DayOf` | `RideBreakdownService`: a figure is calculated, then stored with the life the clock then gives it |

| Run | Instance | What it shows |
|---|---|---|
| `tariff` | 2 quotes (a surge above the cap with the highest comfort; no base fare under a surge below 1), 2 rides, a driver, two days, a page of the cache | an early stop within the way of its quote costs the base fare, or no more than the quote but for the rounding its multipliers allow, and no more than the amount told for a way as long, with the extras since; commissions and shares add up every day; the priority ledger has one event of each end that counts and none of the others; the score moves the right way; a figure of a past day calculated after its end stays right but for transactions that were open then |

Bounds. The estimates of `MCRideFigures.tla` are chosen so that amounts round as far apart as they
can: the bound of the early stop is reached to the franc, and `EarlyStopCostsNoMore` is violated
with one franc less for the last rounding or for the multipliers, and without the base fare that
stands in for 0. That the base fare alone may exceed a quote is reached with a base fare of 300
under a surge of 0.6 in place of the second quote, an instance that has passed too. The waits are
above the free minutes and not whole minutes. One instant is a day, so a ride may lie on either
side of midnight or across it, and a demand of an early stop lives one. The theorem has every
tariff.

`CHECK_DEADLOCK FALSE`: rides end and the clock stops.

Abstractions. Requests on one ride do not overlap (RideLifecycle has that), request to
arrival is one action, and nobody is a review account. The delay before a no-show is not
modelled. A hit of the cache changes nothing and is not an
action. A DiddiMap that fails gives no quote, or no measure.

## 12. Proofs

TLAPS checks eight modules. Each theorem holds for every value of the constants: any number of
sessions, workers, drivers, rides, documents, quotes, codes and amounts, any tariff, any bounds,
and behaviours with any overlaps. They rest on the named assumption of their module alone, which
says that kinds of constants are disjoint and bounds are numbers. Where an overlap breaks a
property (section 13), the property itself is stated until requests overlap that are not kept
together (section 2), and the line says "until overlaps".

| Theorem | Says |
|---|---|
| **DriverWalletProofs** (`ConstantsAssumption`) | |
| `TypeCorrect`, `Invariant` | `TypeOK`; the inductive invariant |
| `WithdrawalLedgerHolds` | a withdrawal's status and its entries agree |
| `PaidIsPostedHolds` | nothing is shown as paid without its entry |
| `PayoutNeedsReservationHolds` | no payout is requested before its reservation is committed |
| `ReleasedIsNotPaidOutHolds` | an amount given back is never paid out |
| `FinalWithdrawalStaysHolds` | a final withdrawal never changes (an action property) |
| `ReservationIsCoveredHolds` | a reservation takes its amount from a balance that covers it (an action property) |
| **RideLifecycleProofs**, first part (`RideAssumption`) | |
| `Typing` | `TypeOK`, whatever overlaps |
| `PassengerDecidesOnce` | a supplement that is accepted or disputed stays so (an action property) |
| `NoAmountIsLost` | a decision that changes what is accepted commits a total that counts all of it (an action property) |
| `StatusFollowsGraph` | until overlaps, each step is one of RideStates or leaves the status alone |
| `ExtrasAreBilled` | until overlaps, the fare of a completed ride is its waits and its accepted supplements, once each |
| `RidesAreStarted` | until overlaps, a ride that runs, waits or is completed was started with its code, whatever PATCH does |
| `AuditIsWhole` | until overlaps, each status a recording handler has led to is in the history |
| **RideLifecycleProofs**, second part (`FiguresAssumption`, `TariffAssumption`) | |
| `FiguresTyping` | `FiguresTypeOK`: a ride has the date of its end exactly when it is completed |
| `EarlyStopIsCheap` | for any tariff, surge, distance and time, a ride stopped early within the way of its quote costs the base fare, or no more than the quote but for the rounding under its multipliers and the base fare that stands in for 0; and within the way of the demand no more than the amount told and the extras since (an action property) |
| `SharesMakeFares` | commissions and drivers' shares make the fares of each day |
| `LedgerFollowsOutcome` | one priority event for each end that counts, and none for the others |
| `ShownFiguresStand` | a figure calculated after its day is right but for the transactions then open |
| `ScoresMoveRightly` | completing never lowers a score, the driver's cancelling never raises it (an action property) |
| **MatchingProofs** (`MatchingAssumption`) | |
| `Typing`, `DriverHasOneRide` | `TypeOK`; a driver has one active ride, whatever overlaps, fails or restarts |
| `WavesGoForward` | until overlaps, nobody is asked twice for a ride, whatever fails or restarts (an action property) |
| `RequestsLeaveNothing` | until overlaps, and as long as nothing has failed, no offer, claim or unavailable driver is left over at rest, but for the rides PATCH has set |
| **CollectionProofs** (`CollectionAssumption`) | |
| `Typing`, `MoneyIsFollowed` | `TypeOK`; a payout for a paid intent, a commission for a cash ride, never both, whatever overlaps |
| `OneAttempt`, `FailedIsReplaced` | until overlaps, one attempt at a time, and an intent is replaced when it has failed (an action property) |
| **CapabilityOutboxProofs** (`OutboxAssumption`) | |
| `OutboxTypeOK` | `TypeOK`, with what a worker at rest holds |
| `OutboxSyncedIsShown` | what is recorded as synchronised is shown |
| `OutboxLastIsNeverRefused` | DiddiFreeID never refuses the last event of a user as out of date |
| `OutboxNeverGoesBack` | `Spec` implements CapabilityView |
| **DriverDossierProofs** (`DossierAssumption`) | |
| `Typing` | `TypeOK` |
| `CommandOnce` | a command takes effect at most once for its key, and with its audit row, whatever overlaps, fails or dies |
| `ReviewedBeforeActive`, `RefusalIsExplained` | while requests do not overlap, what is active has been approved on all it must hold, and a refusal names a document |
| `NothingToReconcile` | while requests do not overlap, the published status is the one the reconciliation computes |
| `PublishedIsCleared` | while requests do not overlap, and for any number of vehicles, "offline" is published only to a driver whom `resolve_driver` lets through with one of his vehicles, and always when it does with all |
| **PartnerFleetProofs** (`FleetAssumption`) | |
| `Typing` | `TypeOK` |
| `OneActiveEach` | one partner per driver, one active assignment per vehicle |
| `AssignmentKeepsVehicle` | while requests do not overlap, assignments and vehicles agree |
| **OneTimeCodesProofs** (`CodesAssumption`) | |
| `Typing` | `TypeOK` |
| `CodeConfirmsOnce` | a code confirms one withdrawal |
| `FailureKeepsTheCode` | a withdrawal code is consumed exactly with its reservation |
| `TokenAfterAccount` | who holds a token finds the account verified (active or suspended), and nothing moves one that is (also an action property) |
| `LinkRecognisedOnce` | a return link is recognised once |

The arguments. What a property says of committed rows is seldom inductive: a commit
publishes drafts, and what a session is about to write depends on what it has read or locked.

- **Wallet.** `IInv` says of drafts what the properties say of rows, and adds what each step
  knows. `Unlocked`: outside a transaction a session holds no row. `Knowledge`: where a
  session is tells what it holds and what is in the ledger (one that calls DiddiPay has its
  reservation committed; one that releases an amount has read a refusal or a failure, which
  are final). `DraftLedger`, `DraftPaid`: a draft is as coherent as a committed row, and never
  undoes a final status. `DraftCovered`: a drafted reservation goes with the drafted balance
  it is taken from, which is where the order quote lock, wallet lock matters. Only `Commit`
  and `CommitReservation` change committed rows (`OnlyCommitsPublish`); a publication turns
  the facts on drafts into facts on rows (`PublishInv`), and any other step disturbs the facts
  about one draft and one session: one lemma per shape of step, one case per action.
- **Ride.** `Decides`: from the lock to the commit, the session that decides holds the row,
  its supplement is still pending, and its drafted total counts `Accepting`, what will be
  accepted. `Chosen`: a supplement that is being proposed is worked on by nobody else, so that
  no commit changes the decisions under another's lock but through that lock. `overlaps` is
  not used: these theorems and `Typing` allow every overlap. For the others, while `overlaps = 0`,
  `RInv` says that two handlers under way are kept together, and that of those allowed
  beside their like (arrival, start, no-show) both have read the same ride (`Paired`).
  `Beside`: what the row may have become since a handler has read it, which is the columns that
  its companions write, or what its double has already done. `Working`: this is true of the row
  and of the second reading of `save`. `Holds`: what a handler has written is sound, a status
  the graph allows, in the history with what it will note, and the row it leaves when it has
  the ride to itself (`Done`) or differs from it where `Beside` lets it. Each commit is then a
  step of RideStates or leaves the status alone, and makes a sound row of a sound one.
- **Matching.** `Locking`: a session that holds a row works on that ride, and has not written
  more than its step says. `Apart`: no two rides, committed or drafted, are active with one
  driver, which the index check of `Write` keeps against rows and drafts. While `overlaps = 0`,
  `WInv` says what each request relies on (`Works`: what it has read, its claim, the offers it
  has seen) and that those under way are kept together (`Beside`, by `Kind`: giving up is part
  of what does it). Two of them on one ride are two acceptances, two cancellations, or
  completions and their retries (`SameRide`), so that a step leaves the others what they rely on
  (`Steady`, `Undisturbed`), and a wave is chosen and opened by one of them. `Left`: while
  nothing has failed, an offer belongs to a ride that is asked for, a claim to a matched ride or
  to the acceptance under way, and a driver who is neither available nor away is on a ride or
  about to be; rides that PATCH has set (`patched`) are past being asked for, and apart.
- **Collection.** For any sessions: a row shown as paid, committed, drafted or read, has a paid
  intent behind it (`Good`), an entry has its reason (`Backed`), and DiddiPay's answers only
  grow (`Grows`); an update written from a stale row merges two good rows, and stays good. While
  `overlaps = 0` (`Ordered`): sessions under way beside each other all leave intents as they are
  (`Together`), so that what one of them has listed, read or written still names the intent of
  its row (`Targets`, `Holds`), and one that replaces an intent is alone, and finds the row as it
  has read it (`Follows`). DiddiPay knows no intent beyond the one after that of a row (`Last`), a
  status that is written is what DiddiPay has said of that intent (`Brings`), and what is drafted
  replaces a failed intent only (`Replaces`).
- **Outbox.** Events are numbered by their version; what DiddiFreeID shows is one of them
  (`RowInv`), and what a worker is about to record about an event is true of what is shown
  (`Answered`), because what is shown only advances. Every step therefore maps to a
  publication, a later status, or a stutter of CapabilityView for each user.
- **Dossiers.** `Reserved`: a request holds its key alone, and the key has had no effect before
  its commit; when Redis loses a record this is gone, and only the audit remains. For requests
  that do not overlap, `Prepared` says that the one that is open has read and was admitted on
  what is still there; then what its UPDATE merges is its copy (`MergedAlone`), and each
  operation makes a good dossier of a good one (`EffectGood`). The status an open request will
  publish (`Announces`) is the one the rows will have after its commit (`Computed`), and
  what is published was computed from the rows as they are, or a vehicle has been taken off the
  road since (`Stands`, which says of a driver shown as offline that a vehicle of his is `Cleared`).
- **Partners.** Rows that exist stay, sessions save what they may, and an index entry is made
  only where there is none. For requests that do not overlap, `Alone` says that the one that
  is open has read what is still there (`Prepared`).
- **Codes.** `Presents`: a request that has accepted a withdrawal code holds its lock and the
  code is not consumed. `Spending`: consumed codes, quotes and withdrawals point at each other.
  `Issued` and `LinkInv` speak of the steps before a token and around the binding of a link.
- **Figures.** `FiguresInv` says of a row and of what an open transaction has written that its
  amounts are those of its end (`Settled`), and that ledger and event agree with it (`Ledgered`,
  `Outcome`). For the early stop every rounding is a bound on a product (`Nearly`): the amounts
  of distance and time each exceed those of the rule by half an XOF at most, which the
  multipliers enlarge, with what the default base fare adds, and half an XOF comes from each of
  the two totals (`EarlyStopBound`, whatever the surge). What the passenger was told is compared
  with the fare of a way as long (`ShorterCostsNoMore`: rounding is monotone). Sums over the
  rides are folds; `SumRecurs` unfolds one, and `SumGrows` and `SumAdds` follow by a least
  counterexample among the cardinalities (`LeastNat`, `OneByOne`), since the prover instantiates
  no induction scheme. `PagesInv` writes the value of a shown figure as a sum over the rides,
  and what was open then as another (`Accounted`): the share of a ride never falls below the
  first (`Carries`), and exceeds it by the second at most, because whatever begins later is
  dated later (`Dated`, `OverIsOver`). For the score, rounding is monotone (`RoundsInOrder`),
  the weighted mean rises with a completed ride and falls with a cancelled one
  (`WeightedRises`), and a commit moves one ride from one count to the next (`RidesCounted`,
  with `TimesInv`: only an active ride ends).

`TypeOK` of every component is proved and is not a run's invariant. `LastIsNeverRefused` is
proved and not run either.

Only model-checked: liveness (`PaidTopupIsCredited`, `KnownPayoutIsSettled`,
`RequestedIsAnswered`, `ComesToShow`), which is out of the prover's reach with its fairness.
Every other property of a passing run is stated by a theorem. `BalanceIsLedgerSum` is false
(section 13).

## 13. Where the code does not keep a property

One of these is kept as a run, with a counterexample TLC finds:

| Run | The code does | Said at |
|---|---|---|
| `wallet_race` | `record_ledger_entry_once` adds to a balance it read without a lock; one of two concurrent entries is lost | `docs/testing/DIDDIGO_TEST_CHECKLIST_2026-10-19.md:163`: "Wallet : solde et ledger refletent les ecritures financieres" |

TLC finds the following when the property is stated without its condition (`overlaps = 0`,
`~overlapped`, `patched`) and the run, where it has `MaxOverlaps` 0, is given 1. They are not
kept as runs.

| Property | With | What happens |
|---|---|---|
| `StateMachine`, `FareCoversExtras` | `ride`, decide beside PATCH to completed | `decide_supplement` (`services.py:911`) saves the ride it loaded before its lock: a completed ride runs again, although `entities.py:67` says "Terminal states — no further transitions allowed", or the fare misses the supplement |
| `StateMachine` | `ride`, one of PATCH/cancel, decide/cancel, confirm/cancel, accept/touch, arrive/touch, start/wrong code | the stale status is saved over the new one, by `save` copying every attribute |
| an arrived or waiting ride can go on | `ride`, PATCH to arrived or waiting | the ride has not what the handlers of these statuses set: an arrived ride without a start code cannot start, a waiting one without the start of its wait can neither be resumed, completed nor cancelled |
| `NothingLeftBehind` | `matching`, PATCH to cancelled, no_driver_found or matched | the route releases the driver on completed only (`router.py:369-371`, `services.py:388-465`): the offers of the ride stay open until their TTL, the claim and the tried drivers stay, and the driver of a cancelled ride stays out of the pool until he goes online again |
| an accepted ride stays accepted | `matching`, accept beside expire or decline | a timer or a refusal that loaded the ride before an acceptance saves `no_driver_found` over it (`matching_service.py:598`), although "The first accept wins" (`tests/test_matching.py:290`) and "If the ride has already been accepted/cancelled, no action is needed" (`matching_service.py:329`) |
| `NotAskedAgain` | `matching`, decline beside accept, create or decline | both see no driver left and both open the next wave |
| `NotAskedAgain`, `NothingLeftBehind` | `matching`, two clocks | two timers of one ride (an old one may still sleep when the next wave starts its own) both open the next wave |
| `NothingLeftBehind` | `matching`, accept beside cancel, complete or expire | offers are dropped before the commit, and a session that still reads the old ride opens new ones or leaves its claim |
| a busy driver is not asked | `matching`, a retried completion | the second release puts a driver who is on the next ride back into the pool, although those on a ride "must not be offered another ride" (`driver_location.py:18`) |
| `RequestedIsAnswered` | `matching_liveness`, without its exception | timers are tasks in memory; after a restart or a failed request nothing moves a requested ride on |
| `UnknownPayoutIsRetried` | `wallet_liveness` | a withdrawal whose payout DiddiPay does not know is counted as missing by each sweep, and neither sent again nor released; `docs/product/DIDDIGO-MVP-FIGE.md:140` says "Un payout inconnu est réessayé puis réconcilié" |
| `OneAttemptAtATime`, `OnlyFailedIsReplaced` | `collection`, a sweep beside a retry | the sweep listed the row with its first intent; it marks the row failed although a retry that succeeded holds it, and the passenger can be asked to pay again |
| a ride has one row | `collection`, two preparations at once | both insert a row for the ride; `find_by_ride_id` raises from then on |
| what is paid is settled | `collection` | `_prepare_diddipay` stores an intent that DiddiPay answers as succeeded at once, without the settlement; a callback may still bring it, the sweep does not look at it |
| `ActiveIsReviewed`, `RejectionNamesDocument` | `kyc`, without "while requests do not overlap" | a resubmission during an approval leaves an active driver with a document nobody reviewed; opposite decisions of two admins leave an active profile with a rejected KYC; a photo or a rating that overlaps a rejection makes the driver active again, although "Only an admin KYC review may activate the driver" (`driver_service.py:8`) |
| `ReconcilerAgrees` | `kyc`, likewise; or with a vehicle its partner has taken off the road | two approvals at once publish a stale status until the next reconciliation; service and reconciliation see an inactive vehicle differently |
| "offline" is published exactly when a vehicle is `Cleared` | `kyc` | `find_active_for_driver` (`ride/infra/repositories.py:1041`) gives either of two active vehicles: the status published when one of them is approved may be computed from the other, which is pending. Hence the two sides of `ToldWhoIsCleared` |
| `OncePerKey` | `kyc`, without its exception | when Redis loses the record of a finished command, its retry approves again, documents resubmitted in between included |
| wrong withdrawal codes are counted | `codes` | the attempt is counted in a transaction that the error rolls back (`payment/infra/repositories.py:664`), so that a code is never locked; `docs/configuration/CONFIGURATION_REFERENCE.md:48` says "Nombre maximal de codes erronés avant verrouillage du challenge". The start code of a ride commits its counter for this reason (`ride/application/services.py:628`) |

Seen while modelling, and in the models as the code has it:

- Rides. Cancellations and waits are not written to `ride_status_history`, which
  `StepIsRecorded` therefore leaves out. Two requests of one passenger at once may create two
  rides; no index forbids it.
- Partners. The end of an affiliation leaves the driver's assignment. Any partner's route may
  end an assignment or a membership of another. A membership that has ended cannot be added
  again. A stale save may make a suspended partner active, or give a vehicle its former owner
  back. A driver may be affiliated to a partner suspended meanwhile.
- Codes. Using a newer phone code makes an older unused one the latest again. A code whose
  delivery failed stays, and no other may be asked for until the delay has passed. The context
  of a link may be written again after it was consumed or has expired; one consumed before it
  was bound comes back bound and is used once: a second recognition is what `LinkVerifiesOnce`
  excludes. A suspended user's code gives him a token (section 10).
- Capabilities. `POST /offline` publishes "offline" with the action to go online for any
  business driver, whatever his vehicle (`driver_router.py:350-369`), and the status of a review
  leaves out partner and balance (section 8).
- Figures. A figure calculated before midnight and stored after it gets the life of a final
  figure, though `breakdown_cache.py:1` calls such pages immutable; rides committed in between
  are missing until it expires. `min_fare` is read by nothing. A base fare of 0 is replaced by
  250 in the price of an early stop, which may then cost more than the quote, as it may on a way
  that is longer than the quoted one, or under a rule whose surge is below 1, since the base
  fare is billed at least. `EarlyStopCostsNoMore` says by how much. A no-show writes no priority
  event and counts as a cancellation by the driver in the score. An early stop that fails
  because DiddiMap does has already ended the trace there.

## 14. What is not modelled

- Dispatch configuration: one row read at each matching; its values are parameters of
  Matching.
- Websocket sessions: sockets live in the memory of one process and carry positions and
  messages. What they change of the state here, taking a driver offline at their end, is
  `SwitchOff` of Matching and `GoOffline` of CapabilityOutbox, at any time.
- Notifications, logs, metrics, audit rows other than those of commands, schemas and wiring.
  They change no state the properties speak of; where a handler waits for one of them, its
  failure is an aborted request.
- The protocol of DiddiMap, DiddiPay and DiddiFreeID beyond the answers the code
  distinguishes. They are external, modelled by how the code calls them.
- In the modelled parts: listings, earnings and statistics; ratings but for the score, GPS
  batches and stops of a ride; positions; priority windows, bonus and manual adjustments;
  summaries other than the breakdowns; provisioning of drivers by another service; scopes of
  tokens; passenger debts, which nothing creates.

## 15. Plan

| Module | Composes | Done | Next |
|---|---|---|---|
| DriverWallet | | checked, liveness, proofs | |
| RideStates, RideLifecycle | RideLifecycle implements RideStates | checked, refinement and properties proved | |
| Matching | the rows of RideLifecycle, reduced to two columns | checked, liveness, proofs | presence with its TTL, as sockets renew it |
| Collection | its ledger entries are DriverWallet's | checked, proofs | an abstract specification (a ride is collected and settled once) |
| CapabilityView, CapabilityOutbox | CapabilityOutbox implements CapabilityView; what it is told is `published` of DriverDossier | checked, liveness, refinement, proofs | |
| DriverDossier | | checked, proofs | provisioning by another service |
| PartnerFleet | shares the vehicle rows with DriverDossier | checked, proofs | the idempotent commands of the partner routes |
| OneTimeCodes | the code DriverWallet assumes | checked, proofs | |
| RideTariff, RideFigures | the fares of RideLifecycle as amounts | checked, proofs | priority windows and bonus |
