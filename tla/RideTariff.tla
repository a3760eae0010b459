------------------------------- MODULE RideTariff -------------------------------
(***************************************************************************)
(* The amounts of a ride, from modules/ride/application/services.py.        *)
(*                                                                          *)
(* Money is in XOF.  A distance counts tenths of a kilometre, a time counts *)
(* tens of seconds, a comfort multiplier twentieths and a surge multiplier  *)
(* fifths.  A price per unit is a fraction <<n, d>>, because the price of a *)
(* ride in progress is inferred from two rounded amounts.                   *)
(***************************************************************************)
EXTENDS Integers

CONSTANTS
    CommissionPercent,  \* diddigo_commission_rate
    FreeSeconds,        \* pre_ride_wait_free_seconds
    MinutePrice         \* pre_ride_wait_price_per_minute_xof, waiting_price_per_minute_xof

ASSUME TariffAssumption ==
    /\ CommissionPercent \in 0..100
    /\ FreeSeconds \in Nat
    /\ MinutePrice \in Nat

DefaultBase == 250
DefaultPerKm == 240
SurgeCap == 8

AtLeast(m, n) == IF m >= n THEN m ELSE n
AtMost(m, n) == IF m <= n THEN m ELSE n

\* round(float(...)) and quantize(Decimal("1")): a tie goes to the even side.
NearestEven(n, d) ==
    LET q == n \div d
        r == n % d
    IN  IF 2 * r < d \/ (2 * r = d /\ q % 2 = 0) THEN q ELSE q + 1

Commission(fare) == NearestEven(fare * CommissionPercent, 100)

TotalFare(base, perKm, perMin, comfort, surge, km, time) ==
    NearestEven((base * perKm[2] * perMin[2]
                   + perKm[1] * km * perMin[2]
                   + perMin[1] * time * perKm[2]) * comfort * surge,
                perKm[2] * perMin[2] * 100)

\* No active pricing rule of the city and category: the defaults.
DefaultRule == [base |-> DefaultBase, perKm |-> DefaultPerKm, perMin |-> 0, surge |-> 5]

\* What a quote locks.  The amounts of the distance and of the time are
\* rounded apart from the total, and nothing is known of the rule any more.
Quoted(rule, comfort, km, time) ==
    LET surge == AtMost(rule.surge, SurgeCap)
        fare == TotalFare(rule.base, <<rule.perKm, 10>>, <<rule.perMin, 6>>, comfort, surge, km, time)
    IN  [base |-> rule.base, comfort |-> comfort, surge |-> surge, km |-> km, time |-> time,
         distance |-> NearestEven(rule.perKm * km, 10),
         duration |-> NearestEven(rule.perMin * time, 6),
         fare |-> fare, commission |-> Commission(fare), payout |-> fare - Commission(fare)]

\* A base fare of 0 counts as absent.
BaseOr(q) == IF q.base = 0 THEN DefaultBase ELSE q.base
InferredPerKm(q) == <<q.distance, q.km>>

\* Mutant: the amount of the time is taken for its price.
PerMinOfAmount(q) == <<q.duration, 1>>

InferredPerMin(q) == IF q.time > 0 THEN <<q.duration, q.time>> ELSE <<0, 1>>

ActualFare(q, km, time) ==
    TotalFare(BaseOr(q), InferredPerKm(q), InferredPerMin(q), q.comfort, q.surge, km, time)

EarlyStopFare(q, km, time) == AtLeast(BaseOr(q), ActualFare(q, km, time))

\* Waiting before the ride is billed by the second after the free minutes;
\* waiting during the ride is billed by the minute begun, one at least.
PreRideFee(seconds) == NearestEven(MinutePrice * AtLeast(0, seconds - FreeSeconds), 60)
WaitFee(seconds) == MinutePrice * AtLeast(1, (seconds + 59) \div 60)

\* The score of a driver or of a passenger, in hundredths: 70% the rating,
\* 20% the rides completed, 10% the rides not cancelled, among the eligible
\* ones.  rating is <<sum, count>>, 5 stars when there is none.
Score(eligible, completed, cancelled, rating) ==
    LET n == AtLeast(1, eligible)
        stars == IF rating[2] = 0 THEN <<5, 1>> ELSE rating
    IN  AtLeast(100, AtMost(500,
            NearestEven(10 * (7 * stars[1] * n + 10 * stars[2] * completed
                                + 5 * stars[2] * (n - cancelled)),
                        stars[2] * n)))
=============================================================================
