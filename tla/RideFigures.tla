------------------------------- MODULE RideFigures -------------------------------
(***************************************************************************)
(* The money of the rides of one passenger and the figures made of it: the  *)
(* quote a ride consumes, the fare that ends it, the priority ledger and    *)
(* the score of its driver, and the breakdowns Pilotage reads through a     *)
(* cache.                                                                   *)
(*                                                                          *)
(* A handler works in a transaction: what it writes is a draft until the    *)
(* commit.  Handlers of one ride do not overlap here (RideLifecycle is      *)
(* about that); those of two rides, the reader of figures and the clock do. *)
(***************************************************************************)
EXTENDS RideTariff, Sequences, FiniteSets, Functions

CONSTANTS
    Quotes, Rides, Drivers,
    NoDriver, Nothing,
    Estimates,     \* the <<rule, comfort, km, time>> a quote may be asked for
    Driven,        \* the <<km, time>> DiddiMap may measure
    ArrivalWaits,  \* the seconds a driver may have waited at the pickup
    Extras,        \* the amounts waits and accepted supplements may add
    Stars,         \* the ratings a passenger may give, among 1..5
    MaxExtras,     \* bound: their sum in a ride
    DayLength,     \* instants of a day
    QuoteTtl,      \* ride_quote_ttl_seconds, in instants
    EarlyStopTtl,  \* the two minutes an early stop may be confirmed, in instants
    CurrentTtl,    \* pilotage_breakdown_current_ttl_seconds
    FinalTtl,      \* pilotage_breakdown_final_ttl_seconds
    Figures,       \* the <<day, metric>> Pilotage may ask for
    MaxPages,      \* bound: the pages in the cache when a figure is calculated
    MaxTime        \* bound: the last instant

CancelledStatuses == {"cancelled_by_passenger", "cancelled_by_driver"}
Active == {"requested", "arrived", "in_progress"}
AllStatuses == Active \cup CancelledStatuses \cup {"completed"}
Events == {"none", "ride_completed", "ride_cancelled_by_driver"}

\* The rows of pricing_rules, and the multipliers of the comfort levels.
Rules == [base : Nat, perKm : Nat, perMin : Nat, surge : Nat]
ComfortLevels == {20, 23, 26}

\* What estimate_pricing answers; a distance of 0 is refused.
Offers == {Quoted(e[1], e[2], e[3], e[4]) : e \in Estimates}

QuoteRows == [offer : Offers, expires : Nat, ride : Rides \cup {Nothing}]
\* A demand of an early stop, with the provisional amount the passenger was
\* told, for which way and over which extras (history).
Asks == [until : Nat, way : Driven, extras : Nat, told : Nat]
RideRows == [quote : Quotes, status : AllStatuses, driver : Drivers \cup {NoDriver},
             requested : Nat, completed : Nat \cup {Nothing}, preRide : Nat, extras : Nat,
             measured : Driven \cup {Nothing}, early : BOOLEAN, noShow : BOOLEAN,
             asked : Asks \cup {Nothing}, fare : Nat, commission : Int, payout : Int, stars : 0..5]
Drafts == [row : RideRows, event : Events]

Day(t) == t \div DayLength
Days == 0..Day(MaxTime)
Metrics == {"rides_requested", "completed_fare_total_xof"}

ASSUME FiguresAssumption ==
    /\ IsFiniteSet(Rides) /\ NoDriver \notin Drivers
    /\ Nothing \notin Nat \cup Driven \cup Asks \cup QuoteRows \cup RideRows \cup Drafts
    /\ Estimates \subseteq Rules \X ComfortLevels \X (Nat \ {0}) \X Nat
    /\ Driven \subseteq Nat \X Nat /\ ArrivalWaits \subseteq Nat /\ Extras \subseteq Nat
    /\ Stars \subseteq 1..5
    /\ DayLength \in Nat \ {0} /\ QuoteTtl \in Nat /\ EarlyStopTtl \in Nat
    /\ CurrentTtl \in Nat \ {0} /\ FinalTtl \in Nat \ {0}
    /\ Figures \subseteq Days \X Metrics
    /\ MaxExtras \in Nat /\ MaxPages \in Nat /\ MaxTime \in Nat

VARIABLES
    now,
    quotes,   \* each quote, with the ride it was consumed by
    rides,    \* the committed rides
    written,    \* what an open transaction has written of a ride, and its priority event
    priority, \* the priority events of each ride, in the order of their commits
    pages,    \* the cached breakdowns
    reader    \* the request for a breakdown under way

figureVars == <<now, quotes, rides, written, priority, pages, reader>>

Idle == [step |-> "idle"]

FiguresInit ==
    /\ now = 0
    /\ quotes = [q \in Quotes |-> Nothing]
    /\ rides = [r \in Rides |-> Nothing]
    /\ written = [r \in Rides |-> Nothing]
    /\ priority = [r \in Rides |-> <<>>]
    /\ pages = [p \in Days \X Metrics |-> Nothing]
    /\ reader = Idle

\* The pages whose time is over leave the cache.
Tick ==
    /\ now < MaxTime
    /\ now' = now + 1
    /\ pages' = [p \in DOMAIN pages |->
                   IF pages[p] # Nothing /\ pages[p].until <= now + 1 THEN Nothing ELSE pages[p]]
    /\ UNCHANGED <<quotes, rides, written, priority, reader>>

----------------------------------------------------------------------------
(* Transactions on a ride. *)

Write(r, row, event) ==
    /\ written' = [written EXCEPT ![r] = [row |-> row, event |-> event]]
    /\ UNCHANGED <<now, quotes, rides, priority, pages, reader>>

CommitRow(r) ==
    /\ written[r] # Nothing
    /\ LET row == written[r].row
           event == written[r].event
       IN  /\ rides' = [rides EXCEPT ![r] = row]
           /\ quotes' = [quotes EXCEPT ![row.quote].ride = r]
           /\ priority' = IF event = "none" THEN priority
                          ELSE [priority EXCEPT ![r] = Append(@, event)]
    /\ written' = [written EXCEPT ![r] = Nothing]
    /\ UNCHANGED <<now, pages, reader>>

AbortRow(r) ==
    /\ written[r] # Nothing
    /\ written' = [written EXCEPT ![r] = Nothing]
    /\ UNCHANGED <<now, quotes, rides, priority, pages, reader>>

----------------------------------------------------------------------------
(* Quotes and requests. *)

CreateQuote(q, offer) ==
    /\ quotes[q] = Nothing
    /\ quotes' = [quotes EXCEPT ![q] = [offer |-> offer, expires |-> now + QuoteTtl, ride |-> Nothing]]
    /\ UNCHANGED <<now, rides, written, priority, pages, reader>>

\* find_by_id locks the quote's row until the end of the transaction, and two
\* rows of rides cannot name one quote.
QuoteIsFree(q) == \A r \in Rides : written[r] # Nothing => ~ (written[r].row.quote = q /\ rides[r] = Nothing)

RequestRide(r, q) ==
    /\ rides[r] = Nothing /\ written[r] = Nothing
    /\ quotes[q] # Nothing
    /\ QuoteIsFree(q)
    /\ quotes[q].ride = Nothing
    /\ quotes[q].expires > now
    /\ \A x \in Rides : rides[x] # Nothing => rides[x].status \notin Active
    /\ Write(r, [quote |-> q, status |-> "requested", driver |-> NoDriver,
                 requested |-> now, completed |-> Nothing, preRide |-> 0, extras |-> 0,
                 measured |-> Nothing, early |-> FALSE, noShow |-> FALSE, asked |-> Nothing,
                 fare |-> 0, commission |-> quotes[q].offer.commission,
                 payout |-> quotes[q].offer.payout, stars |-> 0], "none")

Locked(ride) == quotes[ride.quote].offer

\* The ride a handler finds, in one of the given statuses.
Loads(r, statuses) == written[r] = Nothing /\ rides[r] # Nothing /\ rides[r].status \in statuses

----------------------------------------------------------------------------
(* A ride under way.  The steps between the request and the arrival change  *)
(* no amount: they are one action.                                          *)

Arrive(r, d) ==
    /\ Loads(r, {"requested"})
    /\ Write(r, [rides[r] EXCEPT !.status = "arrived", !.driver = d], "none")

Start(r, seconds) ==
    /\ Loads(r, {"arrived"})
    /\ Write(r, [rides[r] EXCEPT !.status = "in_progress", !.preRide = PreRideFee(seconds)], "none")

\* A wait is stopped, or the passenger accepts a supplement.
AddExtra(r, amount) ==
    /\ Loads(r, {"in_progress"})
    /\ rides[r].extras + amount <= MaxExtras
    /\ Write(r, [rides[r] EXCEPT !.extras = @ + amount], "none")

----------------------------------------------------------------------------
(* The end of a ride.  A wait still running is stopped first: AddExtra. *)

\* A demand of an early stop is not read any more: it is dropped.
Ended(ride, status) == [ride EXCEPT !.status = status, !.asked = Nothing]

\* Mutant: the commission is taken before the extras are added.
BilledApart(ride, fare) ==
    LET total == fare + ride.preRide + ride.extras
    IN  [Ended(ride, "completed") EXCEPT !.completed = now, !.fare = total,
                     !.commission = Commission(fare), !.payout = total - Commission(total)]

BilledTotal(ride, fare) ==
    LET total == fare + ride.preRide + ride.extras
    IN  [Ended(ride, "completed") EXCEPT !.completed = now, !.fare = total,
                     !.commission = Commission(total), !.payout = total - Commission(total)]

\* What DiddiMap may say of the trace: nothing when it has no sample, is not
\* usable for scoring, or when a call fails.
Measures == Driven \cup {Nothing}

\* The measured price is recorded (left out here) and the quoted one is billed.
CompletionFare(ride, measured) == Locked(ride).fare

\* Without a measure the completion goes on.
Complete(r, measured) ==
    /\ Loads(r, {"in_progress"})
    /\ Write(r, BilledTotal(rides[r], CompletionFare(rides[r], measured)), "ride_completed")

\* The amount over the way the points recorded so far make.
Provisional(ride, way) ==
    EarlyStopFare(Locked(ride), way[1], way[2]) + ride.preRide + ride.extras
\* The passenger may ask again, and the last demand counts.
AskEarlyStop(r, way) ==
    /\ Loads(r, {"in_progress"})
    /\ Write(r, [rides[r] EXCEPT !.asked =
                    [until |-> now + EarlyStopTtl, way |-> way, extras |-> rides[r].extras,
                     told |-> Provisional(rides[r], way)]], "none")

\* An early stop the passenger has asked for; without a measure it is refused.
ConfirmEarlyStop(r, measured) ==
    /\ Loads(r, {"in_progress"})
    /\ rides[r].asked # Nothing /\ rides[r].asked.until > now
    /\ LET fare == EarlyStopFare(Locked(rides[r]), measured[1], measured[2])
       IN  Write(r, [BilledTotal(rides[r], fare) EXCEPT !.measured = measured, !.early = TRUE],
                 "ride_completed")

\* Mutant: every cancellation of the driver is recorded, its driver unknown or not.
OutcomeOfAny(status, driver) == IF status = "cancelled_by_driver" THEN "ride_cancelled_by_driver" ELSE "none"

\* record_ride_outcome: nothing for another status or a ride without a driver.
CancelOutcome(status, driver) ==
    IF status = "cancelled_by_driver" /\ driver # NoDriver THEN "ride_cancelled_by_driver" ELSE "none"

\* transition stamps cancelled_at, which no figure reads.  The passenger may
\* give the driver as the reason, before there is one.
Cancel(r, status) ==
    /\ Loads(r, Active)
    /\ Write(r, Ended(rides[r], status), CancelOutcome(status, rides[r].driver))

\* The fee of the wait is dropped, and no priority event is recorded.
NoShow(r) ==
    /\ Loads(r, {"arrived"})
    /\ Write(r, [rides[r] EXCEPT !.status = "cancelled_by_driver", !.noShow = TRUE], "none")

Rate(r, stars) ==
    /\ Loads(r, {"completed"})
    /\ rides[r].stars = 0
    /\ Write(r, [rides[r] EXCEPT !.stars = stars], "none")

----------------------------------------------------------------------------
(* The scores: driver_scoring_stats and _score_payload. *)

EligibleStatuses == {"completed", "cancelled_by_driver"}

Of(d, statuses) == {r \in Rides : rides[r] # Nothing /\ rides[r].driver = d /\ rides[r].status \in statuses}

DriverScore(d) ==
    LET rated == {r \in Of(d, {"completed"}) : rides[r].stars > 0}
    IN  Score(Cardinality(Of(d, EligibleStatuses)), Cardinality(Of(d, {"completed"})),
              Cardinality(Of(d, {"cancelled_by_driver"})),
              <<SumFunction([r \in rated |-> rides[r].stars]), Cardinality(rated)>>)

----------------------------------------------------------------------------
(* The breakdowns of Pilotage, by day and metric. *)

\* Mutant: fares belong to the day of the request.
DayOfRequest(ride, metric) == Day(ride.requested)

DayOf(ride, metric) == Day(IF metric = "rides_requested" THEN ride.requested ELSE ride.completed)

Share(ride, day, metric) ==
    IF \/ ride = Nothing
       \/ metric = "completed_fare_total_xof" /\ ride.status # "completed"
    THEN 0
    ELSE IF DayOf(ride, metric) # day THEN 0
    ELSE IF metric = "rides_requested" THEN 1 ELSE ride.fare

Aggregate(day, metric) == SumFunction([r \in Rides |-> Share(rides[r], day, metric)])

\* The commissions and the drivers' shares of the finance summary of a day.
Split(ride, day) ==
    IF ride = Nothing \/ ride.status # "completed" THEN 0
    ELSE IF Day(ride.completed) # day THEN 0
    ELSE ride.commission + ride.payout
Shared(day) == SumFunction([r \in Rides |-> Split(rides[r], day)])

\* What the open transactions will add to it (history, for the properties).
Unseen(day, metric) ==
    SumFunction([r \in Rides |-> IF written[r] = Nothing THEN 0
                                 ELSE Share(written[r].row, day, metric) - Share(rides[r], day, metric)])

\* A page still in the cache is the answer, and nothing changes.  Otherwise,
\* or when Redis fails, the figure is calculated.  A day to come is refused.
Calculate(day, metric) ==
    /\ reader = Idle
    /\ Cardinality({p \in DOMAIN pages : pages[p] # Nothing}) < MaxPages
    /\ day <= Day(now)
    /\ reader' = [step |-> "store", page |-> <<day, metric>>,
                   shown |-> [value |-> Aggregate(day, metric), at |-> now, unseen |-> Unseen(day, metric)]]
    /\ UNCHANGED <<now, quotes, rides, written, priority, pages>>

\* The time to live depends on the day it is when the page is stored.  Redis
\* may fail again, and the figure is the answer all the same.
Store ==
    /\ reader.step = "store"
    /\ LET ttl == IF reader.page[1] = Day(now) THEN CurrentTtl ELSE FinalTtl
       IN  \/ pages' = [pages EXCEPT ![reader.page] = [shown |-> reader.shown, until |-> now + ttl]]
           \/ UNCHANGED pages
    /\ reader' = Idle
    /\ UNCHANGED <<now, quotes, rides, written, priority>>

----------------------------------------------------------------------------

Handle(r) ==
    \/ CommitRow(r)
    \/ AbortRow(r)
    \/ \E q \in Quotes : RequestRide(r, q)
    \/ \E d \in Drivers : Arrive(r, d)
    \/ \E seconds \in ArrivalWaits : Start(r, seconds)
    \/ \E amount \in Extras : AddExtra(r, amount)
    \/ \E measured \in Measures : Complete(r, measured)
    \/ \E way \in Driven : AskEarlyStop(r, way)
    \/ \E measured \in Driven : ConfirmEarlyStop(r, measured)
    \/ \E status \in CancelledStatuses : Cancel(r, status)
    \/ NoShow(r)
    \/ \E stars \in Stars : Rate(r, stars)

FiguresNext ==
    \/ Tick
    \/ \E q \in Quotes, offer \in Offers : CreateQuote(q, offer)
    \/ \E r \in Rides : Handle(r)
    \/ \E figure \in Figures : Calculate(figure[1], figure[2])
    \/ Store

FiguresSpec == FiguresInit /\ [][FiguresNext]_figureVars

----------------------------------------------------------------------------
(* Properties. *)

\* Every state is made of rides, quotes, pages and drafts of their kinds.
FiguresTypeOK ==
    /\ now \in 0..MaxTime
    /\ quotes \in [Quotes -> QuoteRows \cup {Nothing}]
    /\ rides \in [Rides -> RideRows \cup {Nothing}]
    /\ written \in [Rides -> Drafts \cup {Nothing}]
    /\ \A r \in Rides : rides[r] # Nothing =>
          /\ (rides[r].completed # Nothing) <=> (rides[r].status = "completed")
          /\ rides[r].completed # Nothing => rides[r].completed \in rides[r].requested..now
    /\ \A p \in DOMAIN pages : pages[p] # Nothing => pages[p].shown.at \in 0..now
    /\ reader.step \in {"idle", "store"}

Taken == {r \in Rides : rides[r] # Nothing}
Finished == {r \in Taken : rides[r].status = "completed"}

Within(way, longer) == way[1] <= longer[1] /\ way[2] <= longer[2]

\* The row of a ride stopped early, after the demand the passenger had made.
EarlyStopRight(ride, asked) ==
    LET locked == Locked(ride)
        part == ride.fare - ride.preRide - ride.extras
    IN  /\ Within(ride.measured, <<locked.km, locked.time>>) =>
              \/ part = BaseOr(locked)
              \/ 100 * (part - locked.fare) <=
                    100 + (1 + BaseOr(locked) - locked.base) * locked.comfort * locked.surge
        /\ Within(ride.measured, asked.way) => ride.fare <= asked.told + ride.extras - asked.extras

\* What a ride stopped early costs.  For no more than the way of its quote: the
\* base fare, or no more than the quote, though the prices are inferred from
\* amounts rounded apart: but for 1 XOF by the last rounding, and by the
\* multipliers on 1 XOF and on the base fare that stands in for one of 0.  For
\* no more than the way the passenger was told an amount for: no more than that
\* amount and the extras added since.
EarlyStopCostsNoMore ==
    [][\A r \in Rides :
          (written'[r] # written[r] /\ written'[r] # Nothing
             /\ written'[r].row.early /\ ~ rides[r].early) =>
            EarlyStopRight(written'[r].row, rides[r].asked)]_figureVars

\* On every day the commissions and the drivers' shares make the fares, and
\* the commission is the rate of the whole fare: pilotage_finance_summary
\* never answers FARE_ALLOCATION_MISMATCH.
FinanceAddsUp ==
    /\ \A day \in Days : Shared(day) = Aggregate(day, "completed_fare_total_xof")
    /\ \A r \in Finished : rides[r].commission = Commission(rides[r].fare)

\* The priority ledger holds one event of a completed ride and one of a ride
\* its driver cancelled, and none of a ride without driver, cancelled by its
\* passenger, not shown up for or still open (_record_priority_outcome).
PriorityFollowsOutcome ==
    \A r \in Rides : priority[r] =
        CASE r \in Finished -> <<"ride_completed">>
          [] r \in Taken /\ rides[r].status = "cancelled_by_driver" /\ rides[r].driver # NoDriver
               /\ ~ rides[r].noShow -> <<"ride_cancelled_by_driver">>
          [] OTHER -> <<>>

\* A figure of an ended day calculated after its end stays right: what the day
\* gains later are the transactions that were open at the calculation
\* (RideBreakdownService: "immutable" pages).
FinalFiguresStand ==
    LET Right(page, shown) ==
            shown.at >= (page[1] + 1) * DayLength =>
                Aggregate(page[1], page[2]) \in shown.value..(shown.value + shown.unseen)
    IN  /\ \A page \in DOMAIN pages : pages[page] # Nothing => Right(page, pages[page].shown)
        /\ reader.step = "store" => Right(reader.page, reader.shown)

\* A ride that completes never lowers the score of its driver, one the driver
\* cancels never raises it, and one the passenger cancels leaves it alone
\* (driver_scoring_stats and _score_payload).
ScoreMovesRightly ==
    [][\A r \in Rides, d \in Drivers :
          (rides'[r] # rides[r] /\ rides'[r].driver = d /\ rides[r] # Nothing
             /\ rides'[r].status # rides[r].status) =>
            CASE rides'[r].status = "completed"           -> DriverScore(d)' >= DriverScore(d)
              [] rides'[r].status = "cancelled_by_driver" -> DriverScore(d)' <= DriverScore(d)
              [] OTHER                                    -> DriverScore(d)' = DriverScore(d)]_figureVars
=============================================================================
