------------------------------ MODULE RateModel ------------------------------
(***************************************************************************)
(* The interest-rate controller: state/rate_model.rs.  Above a band of     *)
(* utilization the rate grows exponentially, below it decays, within it    *)
(* rests; a floor and an optional ceiling cut it off.  A rate is NAD-scaled *)
(* per year, and what debtors are charged is its integral over the time    *)
(* since the last accrual.                                                 *)
(*                                                                         *)
(* A panic of the Rust code (a division by zero, an overflow that is not   *)
(* saturated) is the falsity of CalculateRateOk.                           *)
(***************************************************************************)
EXTENDS FixedPoint

CONSTANTS
  MILLISECONDS_PER_YEAR,
  MIN_RATE_HALF_LIFE_MS, MAX_RATE_HALF_LIFE_MS

RATE_BPS               == 10000      \* BPS_DENOMINATOR
MIN_TARGET_UTIL_BPS    == 100
MAX_TARGET_UTIL_BPS    == 10000
MAX_ALLOWED_RATE_BPS   == 100000
MIN_INITIAL_RATE_BPS   == 10
MAX_INITIAL_RATE_BPS   == 10000

ASSUME RateTimeAssumption ==
  /\ MILLISECONDS_PER_YEAR \in Nat \ {0}
  /\ MIN_RATE_HALF_LIFE_MS \in Nat \ {0}
  /\ MAX_RATE_HALF_LIFE_MS \in Nat
  /\ MIN_RATE_HALF_LIFE_MS <= MAX_RATE_HALF_LIFE_MS

\* the highest rate and one itself are u64 values
ASSUME RateFitsAssumption ==
  (NAD * MAX_ALLOWED_RATE_BPS) \div RATE_BPS <= MaxU64

Greater(a, b)   == IF a < b THEN b ELSE a
SatMul128(a, b) == IF MulFits(a, b) THEN a * b ELSE MaxU128     \* u128::saturating_mul

\* ceil_div(..).unwrap_or(floor)
CeilDivOr(a, b) == IF a + b - 1 <= MaxU128 THEN CeilDiv(a, b) ELSE a \div b

----------------------------------------------------------------------------
(* The account: arguments in basis points, validated when it is created.    *)

RateArgs == [target_util_start : Nat, target_util_end : Nat, half_life_ms : Nat,
             min_rate : Nat, max_rate : Nat, initial_rate : Nat]

ValidUtilBounds(a) ==
  /\ a.target_util_start < a.target_util_end
  /\ a.target_util_start >= MIN_TARGET_UTIL_BPS
  /\ a.target_util_end <= MAX_TARGET_UTIL_BPS

ValidRateParams(a) ==
  /\ a.half_life_ms \in MIN_RATE_HALF_LIFE_MS .. MAX_RATE_HALF_LIFE_MS
  /\ a.min_rate <= MAX_ALLOWED_RATE_BPS
  /\ a.max_rate > 0 => a.max_rate <= MAX_ALLOWED_RATE_BPS /\ a.min_rate <= a.max_rate
  /\ a.initial_rate \in MIN_INITIAL_RATE_BPS .. MAX_INITIAL_RATE_BPS
  /\ a.initial_rate >= a.min_rate
  /\ a.max_rate > 0 => a.initial_rate <= a.max_rate

BpsToNad(bps) == (NAD * bps) \div RATE_BPS

\* max_rate 0 is "no ceiling"
New(a) ==
  [exp_rate          |-> NATURAL_LOG_OF_TWO_NAD \div a.half_life_ms,
   half_life_ms      |-> a.half_life_ms,
   target_util_start |-> BpsToNad(a.target_util_start),
   target_util_end   |-> BpsToNad(a.target_util_end),
   min_rate          |-> BpsToNad(a.min_rate),
   max_rate          |-> BpsToNad(a.max_rate),
   initial_rate      |-> BpsToNad(a.initial_rate)]

----------------------------------------------------------------------------
(* ln x of a ratio x >= NAD, which is all time_to_reach_closed_form asks    *)
(* for: halved into [NAD, 2 NAD), five terms of the tanh series, and ln 2   *)
(* per halving.                                                             *)

LnNad(x) ==
  LET Halved[z \in 0 .. x] ==
        IF z >= 2 * NAD
        THEN [Halved[z \div 2] EXCEPT !.halvings = @ + 1]
        ELSE [z |-> z, halvings |-> 0]
      z  == Halved[x].z
      v  == ((z - NAD) * NAD) \div (z + NAD)
      v2 == (v * v) \div NAD
      v3 == (v2 * v) \div NAD
      v5 == (v3 * v2) \div NAD
      v7 == (v5 * v2) \div NAD
      v9 == (v7 * v2) \div NAD
  IN  2 * (v + v3 \div 3 + v5 \div 5 + v7 \div 7 + v9 \div 9)
        + Halved[x].halvings * NATURAL_LOG_OF_TWO_NAD

\* milliseconds of exponential movement between two rates, low < high
TimeToReach(low, high, exp_rate) ==
  LnNad(Lesser(SatMul128(high, NAD) \div Greater(low, 1), MaxU64)) \div exp_rate

----------------------------------------------------------------------------
(* calculate_rate.  `area` is a rate times milliseconds.                    *)

Charge(rate, area) ==
  [rate     |-> Lesser(rate, MaxU64),
   integral |-> Lesser(CeilDivOr(area, MILLISECONDS_PER_YEAR), MaxU64)]

Resting(rate, dt) == Charge(rate, SatMul128(rate, dt))

\* Variant: the difference of two scaled rates is not scaled again.
MovingUnscaled(m, low, high, rate) == Charge(rate, (high - low) \div m.exp_rate)

\* all of dt on the exponential between two rates: the area is their
\* difference over the exponent
Moving(m, low, high, rate) ==
  Charge(rate, SatMul128(high - low, NAD) \div m.exp_rate)

\* Variant: the limit is charged for all of dt, on top of the way to it.
AreaToLimitTwice(m, low, high, limit, dt) ==
  CeilDivOr(SatMul128(high - low, NAD), m.exp_rate) + SatMul128(limit, dt)

\* Variant: the way to the limit is not charged.
AreaAfterLimit(m, low, high, limit, dt) ==
  SatMul128(limit, SatSub(dt, Lesser(TimeToReach(low, high, m.exp_rate), dt)))

\* the exponential as far as the limit, then the limit for the rest of dt
AreaToLimit(m, low, high, limit, dt) ==
  CeilDivOr(SatMul128(high - low, NAD), m.exp_rate)
    + SatMul128(limit, SatSub(dt, Lesser(TimeToReach(low, high, m.exp_rate), dt)))

ToLimit(m, low, high, limit, dt) == Charge(limit, AreaToLimit(m, low, high, limit, dt))

\* e^(-kt)
DecayFactor(m, dt)  == ExpOfMinus(SatMul128(m.exp_rate, dt))

\* Variant: the division before the multiplication.
GrownTruncated(m, last, dt) == (last \div Greater(DecayFactor(m, dt), 1)) * NAD

Grown(m, last, dt)   == SatMul128(last, NAD) \div Greater(DecayFactor(m, dt), 1)
Decayed(m, last, dt) == SatMul128(last, DecayFactor(m, dt)) \div NAD

\* Variant: the ceiling is looked at before the rate grows.
HitsMaxAtStart(m, last, dt) == m.max_rate > 0 /\ last > m.max_rate

HitsMax(m, last, dt) == m.max_rate > 0 /\ Grown(m, last, dt) > m.max_rate
HitsMin(m, last, dt) == Decayed(m, last, dt) < m.min_rate

CalculateRate(m, last_rate, dt, util) ==
  LET last == Greater(last_rate, m.min_rate)
      up   == Grown(m, last, dt)
      down == Decayed(m, last, dt)
  IN  CASE dt = 0 -> [rate |-> last_rate, integral |-> 0]
        [] dt > 0 /\ util > m.target_util_end ->
             IF ~HitsMax(m, last, dt) THEN Moving(m, last, up, up)
             ELSE IF last >= m.max_rate THEN Resting(m.max_rate, dt)
             ELSE ToLimit(m, last, m.max_rate, m.max_rate, dt)
        [] dt > 0 /\ util < m.target_util_start ->
             IF ~HitsMin(m, last, dt) THEN Moving(m, down, last, down)
             ELSE IF last <= m.min_rate THEN Resting(m.min_rate, dt)
             ELSE ToLimit(m, m.min_rate, last, m.min_rate, dt)
        [] OTHER -> Resting(last, dt)

\* outside the band exp_rate divides, unless the rate already rests at its
\* limit; the two areas are added without saturation
CalculateRateOk(m, last_rate, dt, util) ==
  LET last == Greater(last_rate, m.min_rate)
      rests == \/ dt = 0
               \/ util \in m.target_util_start .. m.target_util_end
               \/ util > m.target_util_end /\ HitsMax(m, last, dt) /\ last >= m.max_rate
               \/ util < m.target_util_start /\ HitsMin(m, last, dt) /\ last <= m.min_rate
  IN  ~rests =>
        /\ m.exp_rate > 0
        /\ util > m.target_util_end /\ HitsMax(m, last, dt) =>
             AreaToLimit(m, last, m.max_rate, m.max_rate, dt) \in U128
        /\ util < m.target_util_start /\ HitsMin(m, last, dt) =>
             AreaToLimit(m, m.min_rate, last, m.min_rate, dt) \in U128

=============================================================================
