----------------------------- MODULE RateProofs -----------------------------
(***************************************************************************)
(* The life of a rate, for every model that validation accepts, every      *)
(* utilization, every length of time and every moment of a switch: the     *)
(* limits of the model hold, a longer time never costs less, a half-life   *)
(* doubles the rate, and a charge lies between those of the old and the    *)
(* new rate.                                                               *)
(***************************************************************************)
EXTENDS RateControl, RateLemmas

\* the inductive invariant
RateInv ==
  /\ \E a \in Models : rate_model = New(a)
  /\ IsRateModel(rate_model)
  /\ last_rate \in U64
  /\ elapsed \in Nat
  /\ elapsed <= MaxElapsed

----------------------------------------------------------------------------
(* The invariant, and the limits. *)

\* a new pair's rate is its model's initial rate
LEMMA InitRateInv == Init => RateInv
BY ModelsAssumption, RateBoundsAssumption, NewIsRateModel DEF Init, RateInv

\* an accrual: the rate model's answer for the elapsed time
LEMMA AccrueStep ==
  ASSUME RateInv, NEW util \in Utils, Accrue(util)
  PROVE  /\ RateInv'
         /\ elapsed > 0 =>
              /\ last_rate' >= rate_model.min_rate
              /\ rate_model.max_rate > 0 /\ last_rate <= rate_model.max_rate =>
                   last_rate' <= rate_model.max_rate
<1>1. /\ util \in U64 /\ elapsed \in Nat /\ last_rate \in U64
      /\ IsRateModel(rate_model)
      /\ CalculateRateOk(rate_model, last_rate, elapsed, util)
      /\ last_rate' = NewRate(rate_model, last_rate, elapsed, util)
      /\ elapsed' = 0 /\ rate_model' = rate_model
  BY UtilsAssumption DEF Accrue, RateInv, NewRate
<1>2. CASE elapsed = 0
  <2>1. last_rate' = last_rate
    BY <1>1, <1>2 DEF NewRate, CalculateRate
  <2> QED
    BY <1>1, <1>2, <2>1 DEF RateInv
<1>3. CASE elapsed > 0
  BY <1>1, <1>3, RateBoundsAssumption, RateWithinLimits DEF RateInv
<1> QED
  BY <1>1, <1>2, <1>3

\* time, accruals and new models keep the invariant
LEMMA RateNextInv == RateInv /\ [Next]_vars => RateInv'
<1> SUFFICES ASSUME RateInv, [Next]_vars PROVE RateInv'
  OBVIOUS
<1>1. CASE Tick
  BY <1>1, ScaleAssumption DEF Tick, RateInv
<1>2. ASSUME NEW util \in Utils, Accrue(util) PROVE RateInv'
  BY <1>2, AccrueStep
<1>3. ASSUME NEW a \in Models, SetPairRateModel(a) PROVE RateInv'
  BY <1>3, ModelsAssumption, NewIsRateModel DEF SetPairRateModel, RateInv
<1>4. CASE UNCHANGED vars
  BY <1>4 DEF vars, RateInv
<1> QED
  BY <1>1, <1>2, <1>3, <1>4 DEF Next

\* The rate of every pair is a u64 and its model a legal one.
THEOREM RateTyped == Spec => []RateInv
BY InitRateInv, RateNextInv, PTL DEF Spec

\* What the floor and the ceiling of a rate model are for: no accrual, under
\* any model that can be created, after any time and at any utilization,
\* leaves a rate below the floor, or lifts one that was within the ceiling
\* above it.
THEOREM LimitsKept == Spec => AccrualKeepsLimits
<1> DEFINE Kept == elapsed > 0 /\ elapsed' = 0 =>
                     /\ last_rate' >= rate_model.min_rate
                     /\ rate_model.max_rate > 0 /\ last_rate <= rate_model.max_rate =>
                          last_rate' <= rate_model.max_rate
<1>1. RateInv /\ [Next]_vars => [Kept]_vars
  <2> SUFFICES ASSUME RateInv, Next, elapsed > 0, elapsed' = 0
               PROVE  /\ last_rate' >= rate_model.min_rate
                      /\ rate_model.max_rate > 0 /\ last_rate <= rate_model.max_rate =>
                           last_rate' <= rate_model.max_rate
    OBVIOUS
  <2>1. CASE Tick
    BY <2>1, ScaleAssumption DEF Tick, RateInv
  <2>2. ASSUME NEW util \in Utils, Accrue(util)
        PROVE  /\ last_rate' >= rate_model.min_rate
               /\ rate_model.max_rate > 0 /\ last_rate <= rate_model.max_rate =>
                    last_rate' <= rate_model.max_rate
    BY <2>2, AccrueStep
  <2>3. ASSUME NEW a \in Models, SetPairRateModel(a) PROVE FALSE
    BY <2>3 DEF SetPairRateModel, RateInv
  <2> QED
    BY <2>1, <2>2, <2>3 DEF Next
<1> QED
  BY <1>1, RateTyped, PTL DEF Spec, AccrualKeepsLimits

----------------------------------------------------------------------------
(* What a longer time is charged: the exponential moves further, or to its  *)
(* limit, and at the limit the rest of the time is charged.                 *)

\* saturation keeps the order of products
LEMMA SatMul128Monotone ==
  ASSUME NEW a \in Nat, NEW b \in Nat, NEW p \in Nat, NEW q \in Nat, a <= p, b <= q
  PROVE  /\ SatMul128(a, b) \in Nat /\ SatMul128(p, q) \in Nat
         /\ SatMul128(a, b) <= SatMul128(p, q)
<1>1. SatMul128(a, b) \in Nat /\ SatMul128(p, q) \in Nat /\ MaxU128 \in Nat
  BY SatMul128Nat, WidthAssumption
<1>2. CASE MulFits(p, q)
  BY <1>2, MulFitsWithin DEF SatMul128
<1>3. CASE ~MulFits(p, q)
  <2>1. MulFits(a, b) => a * b <= MaxU128
    BY MulFitsBound DEF U128
  <2> QED
    BY <1>1, <1>3, <2>1 DEF SatMul128
<1> QED
  BY <1>1, <1>2, <1>3

\* a greater area is charged no less, also where the rounding up no longer
\* fits: the charge is then the highest there is
LEMMA ChargeMonotone ==
  ASSUME (MaxU64 + 1) * MILLISECONDS_PER_YEAR <= MaxU128,
         NEW a \in Nat, NEW b \in Nat, a <= b, NEW rate, NEW other
  PROVE  Charge(rate, a).integral <= Charge(other, b).integral
<1> DEFINE y == MILLISECONDS_PER_YEAR
           n == MaxU64 + 1
<1>1. y \in Nat \ {0} /\ MaxU64 \in Nat /\ MaxU128 \in Nat /\ n \in Nat
  BY RateTimeAssumption, WidthAssumption
<1>2. n * y <= MaxU128 /\ n * y \in Nat
  BY <1>1, MulNat
<1>3. CeilDivOr(a, y) \in Nat /\ CeilDivOr(b, y) \in Nat
  BY <1>1, CeilDivNat, DivFloor DEF CeilDivOr
<1>4. CASE a + y - 1 <= MaxU128 /\ b + y - 1 <= MaxU128
  <2>1. a + y - 1 \in Nat /\ b + y - 1 \in Nat /\ a + y - 1 <= b + y - 1
    BY <1>1
  <2>2. (a + y - 1) \div y <= (b + y - 1) \div y
    BY <1>1, <2>1, DivMonotone
  <2>3. CeilDivOr(a, y) <= CeilDivOr(b, y)
    BY <1>4, <2>2 DEF CeilDivOr, CeilDiv
  <2> HIDE DEF y
  <2>4. Lesser(CeilDivOr(a, y), MaxU64) <= Lesser(CeilDivOr(b, y), MaxU64)
    BY <1>1, <1>3, <2>3 DEF Lesser
  <2> QED
    BY <2>4 DEF Charge, y
<1>5. CASE ~(b + y - 1 <= MaxU128)
  <2> HIDE DEF y
  <2>1. MaxU64 * y <= b /\ MaxU64 * y \in Nat
    <3>1. n * y = MaxU64 * y + y /\ MaxU64 * y \in Nat
      BY <1>1, MulNat
    <3> HIDE DEF n
    <3> QED
      BY <1>1, <1>2, <1>5, <3>1
  <2>2. b \div y >= MaxU64
    BY <1>1, <2>1, DivAtLeast
  <2>3. CeilDivOr(b, y) = b \div y
    BY <1>5 DEF CeilDivOr
  <2>4. Lesser(CeilDivOr(a, y), MaxU64) <= Lesser(CeilDivOr(b, y), MaxU64)
    BY <1>1, <1>3, <2>2, <2>3 DEF Lesser
  <2> QED
    BY <2>4 DEF Charge, y
<1>6. b + y - 1 <= MaxU128 => a + y - 1 <= MaxU128
  BY <1>1
<1> QED
  BY <1>4, <1>5, <1>6

\* a wider way on the exponential is charged no less
LEMMA MovingMonotone ==
  ASSUME (MaxU64 + 1) * MILLISECONDS_PER_YEAR <= MaxU128,
         NEW m, m.exp_rate \in Nat \ {0},
         NEW low \in Nat, NEW high \in Nat, NEW lower \in Nat, NEW higher \in Nat,
         lower <= low, low <= high, high <= higher, NEW rate, NEW other
  PROVE  Moving(m, low, high, rate).integral <= Moving(m, lower, higher, other).integral
<1>1. high - low \in Nat /\ higher - lower \in Nat /\ high - low <= higher - lower /\ NAD \in Nat
      /\ NAD <= NAD
  BY ScaleAssumption
<1> DEFINE p == SatMul128(high - low, NAD)
           q == SatMul128(higher - lower, NAD)
<1>2. p \in Nat /\ q \in Nat /\ p <= q
  BY <1>1, SatMul128Monotone
<1> HIDE DEF p, q
<1>3. /\ p \div m.exp_rate \in Nat /\ q \div m.exp_rate \in Nat
      /\ p \div m.exp_rate <= q \div m.exp_rate
  BY <1>2, DivFloor, DivMonotone
<1> QED
  BY <1>3, ChargeMonotone DEF Moving, p, q

\* the way to the limit is an area of its own
WayToLimit(m, low, high) == CeilDivOr(SatMul128(high - low, NAD), m.exp_rate)

\* it is at least what the exponential's area rounds down to
LEMMA WayAtLeast ==
  ASSUME NEW m, m.exp_rate \in Nat \ {0}, NEW low \in Nat, NEW high \in Nat, low <= high
  PROVE  /\ WayToLimit(m, low, high) \in Nat
         /\ SatMul128(high - low, NAD) \div m.exp_rate \in Nat
         /\ SatMul128(high - low, NAD) \div m.exp_rate <= WayToLimit(m, low, high)
<1> DEFINE p == SatMul128(high - low, NAD)
           e == m.exp_rate
<1>1. high - low \in Nat /\ NAD \in Nat /\ e \in Nat \ {0}
  BY ScaleAssumption
<1>2. p \in Nat
  BY <1>1, SatMul128Nat
<1> HIDE DEF p, e
<1>3. p \div e \in Nat /\ CeilDiv(p, e) \in Nat
  BY <1>1, <1>2, DivFloor, CeilDivNat
<1>4. p \div e <= (p + e - 1) \div e
  <2>1. p + e - 1 \in Nat /\ p <= p + e - 1
    BY <1>1, <1>2
  <2> QED
    BY <1>1, <1>2, <2>1, DivMonotone
<1>5. CeilDivOr(p, e) \in Nat /\ p \div e <= CeilDivOr(p, e)
  BY <1>3, <1>4 DEF CeilDivOr, CeilDiv
<1> QED
  BY <1>3, <1>5 DEF WayToLimit, p, e

\* time on the way to a limit is an integer, and what is left of a longer time
\* is no less
LEMMA AreaToLimitMonotone ==
  ASSUME NEW m, m.exp_rate \in Nat \ {0}, NEW low \in Nat, NEW high \in Nat, low <= high,
         NEW limit \in Nat, NEW dt \in Nat, NEW later \in Nat, dt <= later
  PROVE  /\ AreaToLimit(m, low, high, limit, dt) \in Nat
         /\ AreaToLimit(m, low, high, limit, later) \in Nat
         /\ AreaToLimit(m, low, high, limit, dt) <= AreaToLimit(m, low, high, limit, later)
         /\ WayToLimit(m, low, high) <= AreaToLimit(m, low, high, limit, dt)
<1> DEFINE t == TimeToReach(low, high, m.exp_rate)
           rest(d) == SatSub(d, Lesser(t, d))
<1>1. t \in Int
  <2>1. Greater(low, 1) \in Nat \ {0} /\ NAD \in Nat /\ MaxU64 \in Nat
    BY ScaleAssumption, WidthAssumption DEF Greater
  <2>2. SatMul128(high, NAD) \in Nat
    BY <2>1, SatMul128Nat
  <2>3. SatMul128(high, NAD) \div Greater(low, 1) \in Nat
    BY <2>1, <2>2, DivFloor
  <2>4. Lesser(SatMul128(high, NAD) \div Greater(low, 1), MaxU64) \in Nat
    BY <2>1, <2>3, LesserRange
  <2> DEFINE ln == LnNad(Lesser(SatMul128(high, NAD) \div Greater(low, 1), MaxU64))
  <2>5. ln \in Int
    BY <2>4, LnNadInt
  <2> HIDE DEF ln
  <2>6. ln \div m.exp_rate \in Int
    BY <2>5
  <2> QED
    BY <2>6 DEF TimeToReach, ln
<1> HIDE DEF t
<1>2. rest(dt) \in Nat /\ rest(later) \in Nat /\ rest(dt) <= rest(later)
  BY <1>1 DEF SatSub, Lesser
<1>3. /\ AreaToLimit(m, low, high, limit, dt) =
           WayToLimit(m, low, high) + SatMul128(limit, rest(dt))
      /\ AreaToLimit(m, low, high, limit, later) =
           WayToLimit(m, low, high) + SatMul128(limit, rest(later))
  BY DEF AreaToLimit, WayToLimit, t
<1> HIDE DEF rest
<1>4. /\ SatMul128(limit, rest(dt)) \in Nat /\ SatMul128(limit, rest(later)) \in Nat
      /\ SatMul128(limit, rest(dt)) <= SatMul128(limit, rest(later))
  <2>1. limit <= limit
    OBVIOUS
  <2> QED
    BY <1>2, <2>1, SatMul128Monotone
<1>5. WayToLimit(m, low, high) \in Nat
  BY WayAtLeast
<1> QED
  BY <1>3, <1>4, <1>5

\* the longer rates move, the smaller the decay
LEMMA DecayFactorAntitone ==
  ASSUME NEW m, IsRateModel(m), m.exp_rate > 0, NEW dt \in Nat, NEW later \in Nat,
         0 < dt, dt <= later, later <= MaxElapsed
  PROVE  /\ DecayFactor(m, dt) \in Nat /\ DecayFactor(m, later) \in Nat
         /\ DecayFactor(m, later) <= DecayFactor(m, dt) /\ DecayFactor(m, dt) <= NAD
<1> DEFINE e == m.exp_rate
           l == NATURAL_LOG_OF_TWO_NAD
           x == SatMul128(e, dt)
           y == SatMul128(e, later)
<1>1. /\ e \in Nat /\ e > 0 /\ e <= l /\ l \in Nat /\ NAD \in Nat \ {0} /\ MaxElapsed \in Nat
      /\ MaxU128 \in Nat
  BY ScaleAssumption, WidthAssumption, RateBoundsAssumption DEF IsRateModel
<1>2. (l * MaxElapsed) * NAD <= MaxU128
  BY RateWidthAssumption
<1> HIDE DEF e, l
<1> DEFINE w == e * later
<1>3. w \in Nat /\ w <= l * MaxElapsed /\ l * MaxElapsed \in Nat
  <2>1. e * later <= l * later /\ later * l <= MaxElapsed * l
    BY <1>1, MulMonotone
  <2>2. e * later \in Nat /\ l * later \in Nat /\ l * MaxElapsed \in Nat
    BY <1>1, MulNat
  <2> QED
    BY <1>1, <2>1, <2>2
<1> HIDE DEF w
<1>4. w * NAD <= MaxU128 /\ w * NAD \in Nat
  <2>1. w * NAD <= (l * MaxElapsed) * NAD /\ w * NAD \in Nat /\ (l * MaxElapsed) * NAD \in Nat
    BY <1>1, <1>3, MulMonotone, MulNat
  <2> QED
    BY <1>1, <1>2, <2>1
<1>6. w <= MaxU128
  <2>1. w * 1 <= w * NAD
    <3>1. 1 * w <= NAD * w
      BY <1>1, <1>3, MulMonotone
    <3> QED
      BY <1>1, <1>3, <3>1
  <2> QED
    BY <1>1, <1>3, <1>4, <2>1
<1>7. y = w
  <2>1. MulFits(e, later)
    BY <1>1, <1>6, FitsByBound DEF w
  <2> QED
    BY <2>1 DEF SatMul128, w
<1>8. x \in Nat /\ x <= y /\ x > 0
  <2>1. e <= e
    BY <1>1
  <2>2. x \in Nat /\ x <= y
    BY <1>1, <2>1, SatMul128Monotone
  <2>3. e * dt \in Nat /\ 1 <= e * dt
    <3>1. 1 * dt <= e * dt
      BY <1>1, MulMonotone
    <3> QED
      BY <1>1, <3>1, MulNat
  <2>4. x > 0
    BY <1>1, <2>3, WidthAssumption DEF SatMul128
  <2> QED
    BY <2>2, <2>4
<1>9. MulFits(NAD, y \div 10)
  <2> DEFINE v == w \div 10
  <2>1. v \in Nat /\ v <= w
    BY <1>3
  <2> HIDE DEF v
  <2>2. NAD <= NAD /\ NAD * v <= MaxU128 /\ NAD * v \in Nat
    <3>1. v * NAD <= w * NAD /\ v * NAD \in Nat
      BY <1>1, <1>3, <2>1, MulMonotone, MulNat
    <3> QED
      BY <1>1, <1>4, <2>1, <3>1
  <2>3. MulFits(NAD, v)
    BY <1>1, <2>1, <2>2, FitsByBound
  <2> QED
    BY <1>7, <2>3 DEF v
<1>10. NAD <= MaxU64 /\ NAD * NAD < MaxU128 /\ NAD * NAD * NAD <= MaxU128
  BY <1>1, ScaleWithinWidth, RateWidthAssumption
<1>11. y \in Nat /\ DecayFactor(m, dt) = ExpOfMinus(x) /\ DecayFactor(m, later) = ExpOfMinus(y)
  BY <1>3, <1>7 DEF DecayFactor, e
<1> HIDE DEF x, y
<1> QED
  BY <1>8, <1>9, <1>10, <1>11, ExpOfMinusAntitone

\* a rate that has grown longer is no less
LEMMA GrownMonotone ==
  ASSUME NEW m, IsRateModel(m), m.exp_rate > 0, NEW last \in U64,
         NEW dt \in Nat, NEW later \in Nat, 0 < dt, dt <= later, later <= MaxElapsed
  PROVE  /\ Grown(m, last, dt) \in Nat /\ Grown(m, last, later) \in Nat
         /\ Grown(m, last, dt) >= last /\ Grown(m, last, dt) <= Grown(m, last, later)
<1> DEFINE f == Greater(DecayFactor(m, dt), 1)
           g == Greater(DecayFactor(m, later), 1)
           n == SatMul128(last, NAD)
<1>1. f \in Nat \ {0} /\ g \in Nat \ {0} /\ g <= f
  <2>1. /\ DecayFactor(m, dt) \in Nat /\ DecayFactor(m, later) \in Nat
        /\ DecayFactor(m, later) <= DecayFactor(m, dt)
    BY DecayFactorAntitone
  <2> QED
    BY <2>1 DEF Greater
<1>2. n \in Nat
  <2>1. last \in Nat /\ NAD \in Nat
    BY ScaleAssumption, WidthAssumption DEF U64
  <2> QED
    BY <2>1, SatMul128Nat
<1>3. Grown(m, last, dt) = n \div f /\ Grown(m, last, later) = n \div g
  BY DEF Grown
<1>4. Grown(m, last, dt) \in Nat /\ Grown(m, last, dt) >= last
  <2>1. dt > 0
    OBVIOUS
  <2> HIDE DEF f, g, n
  <2> QED
    BY <2>1, GrownAtLeast
<1> HIDE DEF f, g, n
<1>5. n \div f \in Nat /\ n \div g \in Nat /\ n \div f <= n \div g
  BY <1>1, <1>2, DivFloor, DivAntitone
<1> QED
  BY <1>3, <1>4, <1>5

\* a rate that has decayed longer is no greater
LEMMA DecayedAntitone ==
  ASSUME NEW m, IsRateModel(m), m.exp_rate > 0, NEW last \in U64,
         NEW dt \in Nat, NEW later \in Nat, 0 < dt, dt <= later, later <= MaxElapsed
  PROVE  /\ Decayed(m, last, dt) \in Nat /\ Decayed(m, last, later) \in Nat
         /\ Decayed(m, last, dt) <= last /\ Decayed(m, last, later) <= Decayed(m, last, dt)
<1> DEFINE f == DecayFactor(m, dt)
           g == DecayFactor(m, later)
           p == SatMul128(last, f)
           q == SatMul128(last, g)
<1>1. f \in Nat /\ g \in Nat /\ g <= f
  BY DecayFactorAntitone
<1>2. last \in Nat /\ NAD \in Nat \ {0} /\ last <= last
  BY ScaleAssumption, WidthAssumption DEF U64
<1>3. Decayed(m, last, dt) = p \div NAD /\ Decayed(m, last, later) = q \div NAD
  BY DEF Decayed
<1>4. Decayed(m, last, dt) <= last
  BY DecayedAtMost
<1> HIDE DEF f, g
<1>5. p \in Nat /\ q \in Nat /\ q <= p
  BY <1>1, <1>2, SatMul128Monotone
<1> HIDE DEF p, q
<1>6. p \div NAD \in Nat /\ q \div NAD \in Nat /\ q \div NAD <= p \div NAD
  BY <1>2, <1>5, DivFloor, DivMonotone
<1> QED
  BY <1>3, <1>4, <1>6

\* what a rising rate is charged, by how far it comes
Rise(m, last, dt) ==
  IF ~HitsMax(m, last, dt) THEN Moving(m, last, Grown(m, last, dt), Grown(m, last, dt))
  ELSE IF last >= m.max_rate THEN Resting(m.max_rate, dt)
  ELSE ToLimit(m, last, m.max_rate, m.max_rate, dt)

\* what a falling rate is charged
Fall(m, last, dt) ==
  IF ~HitsMin(m, last, dt) THEN Moving(m, Decayed(m, last, dt), last, Decayed(m, last, dt))
  ELSE IF last <= m.min_rate THEN Resting(m.min_rate, dt)
  ELSE ToLimit(m, m.min_rate, last, m.min_rate, dt)

\* a constant rate costs more over a longer time
LEMMA RestingMonotone ==
  ASSUME (MaxU64 + 1) * MILLISECONDS_PER_YEAR <= MaxU128,
         NEW rate \in Nat, NEW dt \in Nat, NEW later \in Nat, dt <= later
  PROVE  Resting(rate, dt).integral <= Resting(rate, later).integral
<1>1. rate <= rate
  OBVIOUS
<1>2. /\ SatMul128(rate, dt) \in Nat /\ SatMul128(rate, later) \in Nat
      /\ SatMul128(rate, dt) <= SatMul128(rate, later)
  BY <1>1, SatMul128Monotone
<1> QED
  BY <1>2, ChargeMonotone DEF Resting

\* the exponential as far as it comes before a limit costs at most the way
\* to the limit and the rest of the time there
LEMMA MovingWithinLimit ==
  ASSUME (MaxU64 + 1) * MILLISECONDS_PER_YEAR <= MaxU128,
         NEW m, m.exp_rate \in Nat \ {0}, NEW low \in Nat, NEW high \in Nat,
         NEW lower \in Nat, NEW higher \in Nat, lower <= low, low <= high, high <= higher,
         NEW limit \in Nat, NEW later \in Nat, NEW rate
  PROVE  Moving(m, low, high, rate).integral <= ToLimit(m, lower, higher, limit, later).integral
<1> DEFINE p == SatMul128(high - low, NAD) \div m.exp_rate
           q == SatMul128(higher - lower, NAD) \div m.exp_rate
           area == AreaToLimit(m, lower, higher, limit, later)
<1>1. lower <= higher /\ later <= later
  OBVIOUS
<1>2. q \in Nat /\ WayToLimit(m, lower, higher) \in Nat /\ q <= WayToLimit(m, lower, higher)
  BY <1>1, WayAtLeast
<1>3. area \in Nat /\ WayToLimit(m, lower, higher) <= area
  BY <1>1, AreaToLimitMonotone
<1>4. Moving(m, low, high, rate).integral <= Moving(m, lower, higher, rate).integral
  BY MovingMonotone
<1>5. Moving(m, lower, higher, rate).integral = Charge(rate, q).integral
  BY DEF Moving
<1>6. ToLimit(m, lower, higher, limit, later).integral = Charge(limit, area).integral
  BY DEF ToLimit
<1> HIDE DEF q, area
<1>7. q <= area
  BY <1>2, <1>3
<1>8. Charge(rate, q).integral <= Charge(limit, area).integral
  BY <1>2, <1>3, <1>7, ChargeMonotone
<1>9. Charge(rate, q).integral \in Nat /\ Charge(limit, area).integral \in Nat
      /\ Moving(m, low, high, rate).integral \in Int
  <2>1. Charge(rate, q).integral \in Nat /\ Charge(limit, area).integral \in Nat
    BY <1>2, <1>3, ChargeInU64, WidthAssumption DEF U64
  <2>2. /\ high - low \in Nat /\ NAD \in Nat
    BY ScaleAssumption
  <2>3. SatMul128(high - low, NAD) \in Nat
    BY <2>2, SatMul128Nat
  <2>4. p \in Nat
    BY <2>3, DivFloor
  <2> HIDE DEF p
  <2>5. Charge(rate, p).integral \in Nat
    BY <2>4, ChargeInU64, WidthAssumption DEF U64
  <2> QED
    BY <2>1, <2>5 DEF Moving, p
<1> QED
  BY <1>4, <1>5, <1>6, <1>8, <1>9

\* moving nowhere costs nothing
LEMMA MovingNowhere ==
  ASSUME (MaxU64 + 1) * MILLISECONDS_PER_YEAR <= MaxU128,
         NEW m, m.exp_rate \in Nat \ {0}, NEW last \in Nat, NEW rate,
         NEW limit \in Nat, NEW later \in Nat
  PROVE  Moving(m, last, last, rate).integral <= Resting(limit, later).integral
<1>1. last - last = 0 /\ NAD \in Nat \ {0} /\ MaxU128 \in Nat /\ 0 * NAD = 0
  BY ScaleAssumption, WidthAssumption
<1>2. MaxU128 \div NAD \in Nat
  BY <1>1, DivFloor
<1>3. SatMul128(0, NAD) = 0
  BY <1>1, <1>2 DEF SatMul128, MulFits
<1>4. 0 \div m.exp_rate = 0
  <2> DEFINE e == m.exp_rate
  <2>1. e \in Nat \ {0} /\ 0 < 0 * e + e
    OBVIOUS
  <2> HIDE DEF e
  <2>2. 0 \div e \in Nat /\ 0 \div e <= 0
    BY <2>1, DivFloor, DivAtMost
  <2> QED
    BY <2>2 DEF e
<1>5. Moving(m, last, last, rate) = Charge(rate, 0)
  BY <1>1, <1>3, <1>4 DEF Moving
<1>6. SatMul128(limit, later) \in Nat
  BY SatMul128Nat
<1> DEFINE area == SatMul128(limit, later)
<1>7. area \in Nat /\ 0 \in Nat /\ 0 <= area
  BY <1>6
<1>8. Resting(limit, later) = Charge(limit, area)
  BY DEF Resting
<1> HIDE DEF area
<1>9. Charge(rate, 0).integral <= Charge(limit, area).integral
  BY <1>7, ChargeMonotone
<1> QED
  BY <1>5, <1>8, <1>9

\* what a longer time on the way to a limit, and at it, costs
LEMMA ToLimitMonotone ==
  ASSUME (MaxU64 + 1) * MILLISECONDS_PER_YEAR <= MaxU128,
         NEW m, m.exp_rate \in Nat \ {0}, NEW low \in Nat, NEW high \in Nat, low <= high,
         NEW limit \in Nat, NEW dt \in Nat, NEW later \in Nat, dt <= later
  PROVE  ToLimit(m, low, high, limit, dt).integral <= ToLimit(m, low, high, limit, later).integral
<1>1. /\ AreaToLimit(m, low, high, limit, dt) \in Nat
      /\ AreaToLimit(m, low, high, limit, later) \in Nat
      /\ AreaToLimit(m, low, high, limit, dt) <= AreaToLimit(m, low, high, limit, later)
  BY AreaToLimitMonotone
<1> QED
  BY <1>1, ChargeMonotone DEF ToLimit

\* a rising rate costs more over a longer time
LEMMA RiseMonotone ==
  ASSUME NEW m, IsRateModel(m), m.exp_rate > 0, NEW last \in U64,
         NEW dt \in Nat, NEW later \in Nat, 0 < dt, dt <= later, later <= MaxElapsed
  PROVE  Rise(m, last, dt).integral <= Rise(m, last, later).integral
<1> DEFINE up == Grown(m, last, dt)
           top == Grown(m, last, later)
           max == m.max_rate
<1>1. (MaxU64 + 1) * MILLISECONDS_PER_YEAR <= MaxU128
  BY RateWidthAssumption
<1>2. m.exp_rate \in Nat \ {0} /\ last \in Nat /\ max \in Nat
  BY ScaleAssumption, WidthAssumption DEF IsRateModel, U64
<1>3. up \in Nat /\ top \in Nat /\ last <= up /\ up <= top
  BY GrownMonotone
<1>4. /\ HitsMax(m, last, dt) <=> max > 0 /\ up > max
      /\ HitsMax(m, last, later) <=> max > 0 /\ top > max
  BY DEF HitsMax
<1>5. /\ ~HitsMax(m, last, dt) => Rise(m, last, dt) = Moving(m, last, up, up)
      /\ HitsMax(m, last, dt) /\ last >= max => Rise(m, last, dt) = Resting(max, dt)
      /\ HitsMax(m, last, dt) /\ ~(last >= max) =>
           Rise(m, last, dt) = ToLimit(m, last, max, max, dt)
  BY DEF Rise
<1>6. /\ ~HitsMax(m, last, later) => Rise(m, last, later) = Moving(m, last, top, top)
      /\ HitsMax(m, last, later) /\ last >= max => Rise(m, last, later) = Resting(max, later)
      /\ HitsMax(m, last, later) /\ ~(last >= max) =>
           Rise(m, last, later) = ToLimit(m, last, max, max, later)
  BY DEF Rise
<1> HIDE DEF up, top, max
<1>7. CASE ~HitsMax(m, last, later)
  <2>1. ~HitsMax(m, last, dt)
    BY <1>2, <1>3, <1>4, <1>7
  <2>2. last <= last
    BY <1>2
  <2>3. Moving(m, last, up, up).integral <= Moving(m, last, top, top).integral
    BY <1>1, <1>2, <1>3, <2>2, MovingMonotone
  <2> QED
    BY <1>5, <1>6, <1>7, <2>1, <2>3
<1>8. CASE HitsMax(m, last, later) /\ last >= max
  <2>1. CASE HitsMax(m, last, dt)
    <3>1. Resting(max, dt).integral <= Resting(max, later).integral
      BY <1>1, <1>2, RestingMonotone
    <3> QED
      BY <1>5, <1>6, <1>8, <2>1, <3>1
  <2>2. CASE ~HitsMax(m, last, dt)
    <3>1. up = last
      BY <1>2, <1>3, <1>4, <1>8, <2>2
    <3>2. Moving(m, last, last, up).integral <= Resting(max, later).integral
      BY <1>1, <1>2, MovingNowhere
    <3> QED
      BY <1>5, <1>6, <1>8, <2>2, <3>1, <3>2
  <2> QED
    BY <2>1, <2>2
<1>9. CASE HitsMax(m, last, later) /\ ~(last >= max)
  <2>1. last <= max /\ last <= last
    BY <1>2, <1>9
  <2>2. CASE HitsMax(m, last, dt)
    <3>1. ToLimit(m, last, max, max, dt).integral <= ToLimit(m, last, max, max, later).integral
      BY <1>1, <1>2, <2>1, ToLimitMonotone
    <3> QED
      BY <1>5, <1>6, <1>9, <2>2, <3>1
  <2>3. CASE ~HitsMax(m, last, dt)
    <3>1. up <= max
      BY <1>2, <1>3, <1>4, <1>9, <2>3
    <3>2. Moving(m, last, up, up).integral <= ToLimit(m, last, max, max, later).integral
      BY <1>1, <1>2, <1>3, <2>1, <3>1, MovingWithinLimit
    <3> QED
      BY <1>5, <1>6, <1>9, <2>3, <3>2
  <2> QED
    BY <2>2, <2>3
<1> QED
  BY <1>7, <1>8, <1>9

\* a falling rate costs more over a longer time
LEMMA FallMonotone ==
  ASSUME NEW m, IsRateModel(m), m.exp_rate > 0, NEW last \in U64, last >= m.min_rate,
         NEW dt \in Nat, NEW later \in Nat, 0 < dt, dt <= later, later <= MaxElapsed
  PROVE  Fall(m, last, dt).integral <= Fall(m, last, later).integral
<1> DEFINE down == Decayed(m, last, dt)
           bottom == Decayed(m, last, later)
           min == m.min_rate
<1>1. (MaxU64 + 1) * MILLISECONDS_PER_YEAR <= MaxU128
  BY RateWidthAssumption
<1>2. m.exp_rate \in Nat \ {0} /\ last \in Nat /\ min \in Nat /\ min <= last
  BY ScaleAssumption, WidthAssumption DEF IsRateModel, U64
<1>3. down \in Nat /\ bottom \in Nat /\ down <= last /\ bottom <= down
  BY DecayedAntitone
<1>4. /\ HitsMin(m, last, dt) <=> down < min
      /\ HitsMin(m, last, later) <=> bottom < min
  BY DEF HitsMin
<1>5. /\ ~HitsMin(m, last, dt) => Fall(m, last, dt) = Moving(m, down, last, down)
      /\ HitsMin(m, last, dt) /\ last <= min => Fall(m, last, dt) = Resting(min, dt)
      /\ HitsMin(m, last, dt) /\ ~(last <= min) =>
           Fall(m, last, dt) = ToLimit(m, min, last, min, dt)
  BY DEF Fall
<1>6. /\ ~HitsMin(m, last, later) => Fall(m, last, later) = Moving(m, bottom, last, bottom)
      /\ HitsMin(m, last, later) /\ last <= min => Fall(m, last, later) = Resting(min, later)
      /\ HitsMin(m, last, later) /\ ~(last <= min) =>
           Fall(m, last, later) = ToLimit(m, min, last, min, later)
  BY DEF Fall
<1> HIDE DEF down, bottom, min
<1>7. CASE ~HitsMin(m, last, later)
  <2>1. ~HitsMin(m, last, dt)
    BY <1>2, <1>3, <1>4, <1>7
  <2>2. last <= last
    BY <1>2
  <2>3. Moving(m, down, last, down).integral <= Moving(m, bottom, last, bottom).integral
    BY <1>1, <1>2, <1>3, <2>2, MovingMonotone
  <2> QED
    BY <1>5, <1>6, <1>7, <2>1, <2>3
<1>8. CASE HitsMin(m, last, later) /\ last <= min
  <2>1. CASE HitsMin(m, last, dt)
    <3>1. Resting(min, dt).integral <= Resting(min, later).integral
      BY <1>1, <1>2, RestingMonotone
    <3> QED
      BY <1>5, <1>6, <1>8, <2>1, <3>1
  <2>2. CASE ~HitsMin(m, last, dt)
    <3>1. down = last
      BY <1>2, <1>3, <1>4, <1>8, <2>2
    <3>2. Moving(m, last, last, down).integral <= Resting(min, later).integral
      BY <1>1, <1>2, MovingNowhere
    <3> QED
      BY <1>5, <1>6, <1>8, <2>2, <3>1, <3>2
  <2> QED
    BY <2>1, <2>2
<1>9. CASE HitsMin(m, last, later) /\ ~(last <= min)
  <2>1. min <= last /\ last <= last
    BY <1>2
  <2>2. CASE HitsMin(m, last, dt)
    <3>1. ToLimit(m, min, last, min, dt).integral <= ToLimit(m, min, last, min, later).integral
      BY <1>1, <1>2, <2>1, ToLimitMonotone
    <3> QED
      BY <1>5, <1>6, <1>9, <2>2, <3>1
  <2>3. CASE ~HitsMin(m, last, dt)
    <3>1. min <= down
      BY <1>2, <1>3, <1>4, <2>3
    <3>2. Moving(m, down, last, down).integral <= ToLimit(m, min, last, min, later).integral
      BY <1>1, <1>2, <1>3, <2>1, <3>1, MovingWithinLimit
    <3> QED
      BY <1>5, <1>6, <1>9, <2>3, <3>2
  <2> QED
    BY <2>2, <2>3
<1> QED
  BY <1>7, <1>8, <1>9

\* the three answers of calculate_rate, by utilization
LEMMA RateAnswers ==
  ASSUME NEW m, IsRateModel(m), NEW last_r \in U64, NEW dt \in Nat, dt > 0, NEW util \in U64
  PROVE  LET last == Greater(last_r, m.min_rate)
         IN  /\ util > m.target_util_end =>
                  CalculateRate(m, last_r, dt, util) = Rise(m, last, dt)
             /\ ~(util > m.target_util_end) /\ util < m.target_util_start =>
                  CalculateRate(m, last_r, dt, util) = Fall(m, last, dt)
             /\ ~(util > m.target_util_end) /\ ~(util < m.target_util_start) =>
                  CalculateRate(m, last_r, dt, util) = Resting(last, dt)
<1> DEFINE last == Greater(last_r, m.min_rate)
           high == util > m.target_util_end
           low  == util < m.target_util_start
           rises == Rise(m, last, dt)
           falls == Fall(m, last, dt)
<1>1. dt # 0
  OBVIOUS
<1>2. CalculateRate(m, last_r, dt, util) =
        CASE dt = 0 -> [rate |-> last_r, integral |-> 0]
          [] dt > 0 /\ high -> rises
          [] dt > 0 /\ low -> falls
          [] OTHER -> Resting(last, dt)
  BY DEF CalculateRate, Rise, Fall
<1>3. ~(high /\ low)
  BY DEF IsRateModel, U64
<1> HIDE DEF rises, falls, high, low, last
<1>4. high => CalculateRate(m, last_r, dt, util) = rises
  BY <1>1, <1>2, <1>3
<1>5. ~high /\ low => CalculateRate(m, last_r, dt, util) = falls
  BY <1>1, <1>2
<1>6. ~high /\ ~low => CalculateRate(m, last_r, dt, util) = Resting(last, dt)
  BY <1>1, <1>2
<1> QED
  BY <1>4, <1>5, <1>6 DEF high, low, last, rises, falls

\* waiting longer is never cheaper
LEMMA LongerCostsMore ==
  ASSUME NEW m, IsRateModel(m), NEW last_r \in U64, NEW util \in U64,
         NEW dt \in Nat, NEW later \in Nat, dt <= later, later <= MaxElapsed,
         CalculateRateOk(m, last_r, dt, util), CalculateRateOk(m, last_r, later, util)
  PROVE  CalculateRate(m, last_r, dt, util).integral
           <= CalculateRate(m, last_r, later, util).integral
<1> DEFINE last == Greater(last_r, m.min_rate)
           start == m.target_util_start
           end == m.target_util_end
<1>1. (MaxU64 + 1) * MILLISECONDS_PER_YEAR <= MaxU128
  BY RateWidthAssumption
<1>2. /\ last \in U64 /\ last \in Nat /\ last >= m.min_rate /\ m.exp_rate \in Nat
      /\ m.max_rate \in Nat /\ m.min_rate \in Nat
      /\ start \in Nat /\ end \in Nat /\ start <= end /\ util \in Nat
  BY ScaleAssumption, WidthAssumption DEF IsRateModel, U64, Greater
<1>3. CASE dt = 0
  <2>1. CalculateRate(m, last_r, dt, util).integral = 0
    BY <1>3 DEF CalculateRate
  <2>2. CalculateRate(m, last_r, later, util).integral \in Nat
    BY IntegralInU64, WidthAssumption DEF U64
  <2> QED
    BY <2>1, <2>2
<1>4. CASE dt > 0
  <2>1. dt # 0 /\ later # 0 /\ later > 0 /\ dt > 0
    BY <1>4
  <2>2. CASE util > end
    <3>1. /\ CalculateRate(m, last_r, dt, util) = Rise(m, last, dt)
          /\ CalculateRate(m, last_r, later, util) = Rise(m, last, later)
      BY <1>4, <2>1, <2>2, RateAnswers
    <3>2. ~(util \in start .. end) /\ ~(util < start)
      BY <1>2, <2>2
    <3>3. CASE m.exp_rate > 0
      BY <1>2, <1>4, <3>1, <3>3, RiseMonotone
    <3>4. CASE ~(m.exp_rate > 0)
      <4>1. /\ HitsMax(m, last, dt) /\ last >= m.max_rate
            /\ HitsMax(m, last, later)
        BY <2>1, <3>2, <3>4, Zenon DEF CalculateRateOk
      <4>2. /\ Rise(m, last, dt) = Resting(m.max_rate, dt)
            /\ Rise(m, last, later) = Resting(m.max_rate, later)
        BY <4>1 DEF Rise
      <4> QED
        BY <1>1, <1>2, <3>1, <4>2, RestingMonotone
    <3> QED
      BY <3>3, <3>4
  <2>3. CASE ~(util > end) /\ util < start
    <3>1. /\ CalculateRate(m, last_r, dt, util) = Fall(m, last, dt)
          /\ CalculateRate(m, last_r, later, util) = Fall(m, last, later)
      BY <1>4, <2>1, <2>3, RateAnswers
    <3>2. ~(util \in start .. end)
      BY <1>2, <2>3
    <3>3. CASE m.exp_rate > 0
      BY <1>2, <1>4, <3>1, <3>3, FallMonotone
    <3>4. CASE ~(m.exp_rate > 0)
      <4>1. /\ HitsMin(m, last, dt) /\ last <= m.min_rate
            /\ HitsMin(m, last, later)
        BY <2>1, <2>3, <3>2, <3>4, Zenon DEF CalculateRateOk
      <4>2. /\ Fall(m, last, dt) = Resting(m.min_rate, dt)
            /\ Fall(m, last, later) = Resting(m.min_rate, later)
        BY <4>1 DEF Fall
      <4> QED
        BY <1>1, <1>2, <3>1, <4>2, RestingMonotone
    <3> QED
      BY <3>3, <3>4
  <2>4. CASE ~(util > end) /\ ~(util < start)
    <3>1. /\ CalculateRate(m, last_r, dt, util) = Resting(last, dt)
          /\ CalculateRate(m, last_r, later, util) = Resting(last, later)
      BY <1>4, <2>1, <2>4, RateAnswers
    <3> QED
      BY <1>1, <1>2, <3>1, RestingMonotone
  <2> QED
    BY <2>2, <2>3, <2>4
<1> QED
  BY <1>3, <1>4

\* Waiting never makes a debtor's interest smaller: at every utilization, from
\* every rate under every model, the charge of calculate_rate for a period is
\* at most the charge for the period one slot longer, as long as neither
\* panics: also where the rate meets its limit in between, where the tenth
\* power or a term of the exponential leaves u128, and where an area saturates.
THEOREM ChargeGrows == Spec => []ChargeGrowsWithTime
<1>1. RateInv => ChargeGrowsWithTime
  <2> SUFFICES ASSUME RateInv, NEW util \in Utils,
                      elapsed + TARGET_MS_PER_SLOT <= MaxElapsed,
                      \A dt \in {elapsed, elapsed + TARGET_MS_PER_SLOT} :
                        CalculateRateOk(rate_model, last_rate, dt, util)
               PROVE  Accrual(elapsed, util).integral
                        <= Accrual(elapsed + TARGET_MS_PER_SLOT, util).integral
    BY DEF ChargeGrowsWithTime
  <2> DEFINE later == elapsed + TARGET_MS_PER_SLOT
  <2>1. /\ elapsed \in Nat /\ later \in Nat /\ elapsed <= later /\ later <= MaxElapsed
        /\ util \in U64 /\ IsRateModel(rate_model) /\ last_rate \in U64
    BY ScaleAssumption, UtilsAssumption DEF RateInv
  <2>2. /\ CalculateRateOk(rate_model, last_rate, elapsed, util)
        /\ CalculateRateOk(rate_model, last_rate, later, util)
    OBVIOUS
  <2> HIDE DEF later
  <2>3. Accrual(elapsed, util).integral <= Accrual(later, util).integral
    BY <2>1, <2>2, LongerCostsMore DEF Accrual
  <2> QED
    BY <2>3 DEF later
<1> QED
  BY <1>1, RateTyped, PTL

----------------------------------------------------------------------------
(* What the pressure of utilization is made of: updates that each raise the *)
(* rate.                                                                    *)

\* a rate grows by a unit or more in one slot when the floor does
LEMMA GrownInASlot ==
  ASSUME NEW m, IsRateModel(m), m.exp_rate > 0, FloorGrowsInASlot(m),
         NEW last \in U64, last >= m.min_rate,
         NEW dt \in Nat, TARGET_MS_PER_SLOT <= dt, dt <= MaxElapsed
  PROVE  Grown(m, last, dt) \in Nat /\ Grown(m, last, dt) > last
<1> DEFINE slot  == TARGET_MS_PER_SLOT
           decay == Greater(DecayFactor(m, slot), 1)
           up    == Grown(m, last, slot)
<1>1. slot \in Nat /\ slot > 0 /\ slot <= dt
  BY ScaleAssumption
<1> HIDE DEF slot
<1>2. /\ Grown(m, last, dt) \in Nat /\ up \in Nat /\ up <= Grown(m, last, dt)
  BY <1>1, GrownMonotone
<1>3. decay \in Nat \ {0} /\ decay <= NAD
  BY <1>1, OneInU64, DecayFactorAtMostOne DEF Greater
<1>4. /\ last \in Nat /\ NAD \in Nat /\ m.min_rate \in Nat
  BY OneInU64 DEF U64, IsRateModel
<1>5. m.min_rate * (NAD - decay) >= decay
  BY DEF FloorGrowsInASlot, slot
<1>6. up = (last * NAD) \div decay
  BY OneInU64, ProductInU128 DEF Grown, SatMul128
<1> HIDE DEF decay, up
<1>7. (last + 1) * decay <= last * NAD
  <2>1. m.min_rate * (NAD - decay) <= last * (NAD - decay)
    <3>1. NAD - decay \in Nat
      BY <1>3, <1>4
    <3> QED
      BY <1>4, <3>1, MulMonotone
  <2>2. last * (NAD - decay) = last * NAD - last * decay /\ last * NAD \in Nat /\ last * decay \in Nat
    BY <1>3, <1>4, MulNat
  <2>3. m.min_rate * (NAD - decay) \in Int /\ (last + 1) * decay = last * decay + decay
    BY <1>3, <1>4
  <2> QED
    BY <1>3, <1>5, <2>1, <2>2, <2>3
<1>8. up >= last + 1
  <2>1. last * NAD \in Nat
    BY <1>4, MulNat
  <2> QED
    BY <1>3, <1>4, <1>6, <1>7, <2>1, DivAtLeast
<1> QED
  BY <1>2, <1>4, <1>8

\* time passes in whole slots
WholeSlots == elapsed = 0 \/ elapsed >= TARGET_MS_PER_SLOT

LEMMA AlwaysWholeSlots == Spec => []WholeSlots
<1>1. Init => WholeSlots
  BY DEF Init, WholeSlots
<1>2. RateInv /\ WholeSlots /\ [Next]_vars => WholeSlots'
  BY ScaleAssumption DEF RateInv, WholeSlots, Next, Tick, Accrue, SetPairRateModel, vars
<1> QED
  BY <1>1, <1>2, RateTyped, PTL DEF Spec

\* With utilization above the band every update raises the rate or finds it at
\* the ceiling of the model, or of u64, provided that a slot's growth of the
\* floor is a unit: whatever is between two updates, none is lost to rounding.
\* It is the safety half of HighUtilizationReachesCeiling, for all half-lives.
THEOREM PressureRaises ==
  Spec => [][ \A util \in Utils :
                /\ util > rate_model.target_util_end /\ Accrue(util)
                /\ elapsed > 0 /\ FloorGrowsInASlot(rate_model)
                => \/ last_rate' > last_rate
                   \/ rate_model.max_rate > 0 /\ last_rate' = rate_model.max_rate
                   \/ last_rate' = MaxU64 ]_vars
<1>1. ASSUME RateInv, WholeSlots, NEW util \in Utils, util > rate_model.target_util_end,
             Accrue(util), elapsed > 0, FloorGrowsInASlot(rate_model)
      PROVE  \/ last_rate' > last_rate
             \/ rate_model.max_rate > 0 /\ last_rate' = rate_model.max_rate
             \/ last_rate' = MaxU64
  <2> DEFINE m    == rate_model
             last == Greater(last_rate, m.min_rate)
             up   == Grown(m, last, elapsed)
  <2>1. /\ util \in U64 /\ elapsed \in Nat /\ elapsed <= MaxElapsed
        /\ elapsed >= TARGET_MS_PER_SLOT
        /\ last_rate \in U64 /\ IsRateModel(m)
        /\ CalculateRateOk(m, last_rate, elapsed, util)
        /\ last_rate' = NewRate(m, last_rate, elapsed, util)
    BY <1>1, UtilsAssumption DEF RateInv, WholeSlots, Accrue, NewRate
  <2>2. /\ last \in U64 /\ last >= last_rate /\ last >= m.min_rate
        /\ last_rate \in Nat /\ MaxU64 \in Nat
        /\ m.max_rate \in Nat /\ m.max_rate <= MaxU64
        /\ m.target_util_start <= m.target_util_end
        /\ m.target_util_start \in Nat /\ m.target_util_end \in Nat /\ util \in Nat
    BY <2>1, OneInU64 DEF IsRateModel, U64, Greater
  <2>3. last_rate' = Lesser(IF HitsMax(m, last, elapsed) THEN m.max_rate ELSE up, MaxU64)
    BY <1>1, <2>1, RateBranches
  <2>4. CASE HitsMax(m, last, elapsed)
    BY <2>2, <2>3, <2>4 DEF HitsMax, Lesser
  <2>5. CASE ~HitsMax(m, last, elapsed)
    <3>1. m.exp_rate > 0
      <4>1. /\ elapsed # 0 /\ util \notin m.target_util_start .. m.target_util_end
            /\ ~(util < m.target_util_start)
        BY <1>1, <2>2
      <4> QED
        BY <2>1, <2>5, <4>1 DEF CalculateRateOk
    <3>2. up \in Nat /\ up > last
      BY <1>1, <2>1, <2>2, <3>1, GrownInASlot
    <3>3. last \in Nat /\ last_rate' = Lesser(up, MaxU64)
      BY <2>2, <2>3, <2>5 DEF U64
    <3> HIDE DEF up, last
    <3> QED
      BY <2>2, <3>2, <3>3 DEF Lesser
  <2> QED
    BY <2>4, <2>5
<1>2. RateInv /\ WholeSlots =>
        [ \A util \in Utils :
            /\ util > rate_model.target_util_end /\ Accrue(util)
            /\ elapsed > 0 /\ FloorGrowsInASlot(rate_model)
            => \/ last_rate' > last_rate
               \/ rate_model.max_rate > 0 /\ last_rate' = rate_model.max_rate
               \/ last_rate' = MaxU64 ]_vars
  BY <1>1
<1> QED
  BY <1>2, RateTyped, AlwaysWholeSlots, PTL

----------------------------------------------------------------------------
(* One half-life at high utilization, in millionths of one: its exponent is  *)
(* ln 2 to within a hundredth, a tenth of which the series takes to about    *)
(* the tenth root of two, ten products of which make about two. Every        *)
(* product is rounded down by less than one unit, at most a thousandth of    *)
(* NAD whatever the scale.                                                   *)

\* x lies between a and b millionths of one
PPM == 1000000

Between(x, a, b) == a * NAD <= PPM * x /\ PPM * x <= b * NAD

\* a product of two such numbers, in square millionths of one squared
LEMMA ProductBetween ==
  ASSUME NEW r \in Nat, NEW s \in Nat,
         NEW a \in Nat, NEW b \in Nat, NEW c \in Nat, NEW d \in Nat,
         Between(r, a, b), Between(s, c, d)
  PROVE  /\ r * s \in Nat /\ NAD * NAD \in Nat /\ a * c \in Nat /\ b * d \in Nat
         /\ (a * c) * (NAD * NAD) <= PPM * (PPM * (r * s))
         /\ PPM * (PPM * (r * s)) <= (b * d) * (NAD * NAD)
<1> DEFINE p == PPM * r
           q == PPM * s
<1>1. NAD \in Nat \ {0} /\ PPM \in Nat
  BY ScaleAssumption DEF PPM
<1>2. /\ p \in Nat /\ q \in Nat
      /\ a * NAD \in Nat /\ b * NAD \in Nat /\ c * NAD \in Nat /\ d * NAD \in Nat
  BY <1>1, MulNat
<1>3. a * NAD <= p /\ p <= b * NAD /\ c * NAD <= q /\ q <= d * NAD
  BY DEF Between
<1>4. p * q = PPM * (PPM * (r * s))
  BY <1>1
<1> HIDE DEF p, q
<1>5. (a * NAD) * (c * NAD) <= p * q
  <2>1. (a * NAD) * (c * NAD) <= p * (c * NAD) /\ (c * NAD) * p <= q * p
    BY <1>2, <1>3, MulMonotone
  <2> DEFINE t == c * NAD
             w == (a * NAD) * t
  <2>2. t \in Nat /\ w \in Nat /\ w <= p * t /\ t * p <= q * p
    BY <1>2, <2>1, MulNat
  <2> HIDE DEF t, w
  <2>3. w <= p * q
    BY <1>2, <2>2
  <2> QED
    BY <2>3 DEF t, w
<1>6. p * q <= (b * NAD) * (d * NAD)
  <2>1. p * q <= (b * NAD) * q /\ q * (b * NAD) <= (d * NAD) * (b * NAD)
    BY <1>2, <1>3, MulMonotone
  <2> DEFINE t == b * NAD
             w == d * NAD
  <2>2. t \in Nat /\ w \in Nat /\ p * q <= t * q /\ q * t <= w * t
    BY <1>2, <2>1
  <2> HIDE DEF t, w
  <2>3. p * q <= t * w
    BY <1>2, <2>2
  <2> QED
    BY <2>3 DEF t, w
<1>7. (a * NAD) * (c * NAD) = (a * c) * (NAD * NAD) /\ (b * NAD) * (d * NAD) = (b * d) * (NAD * NAD)
  BY <1>1
<1>8. r * s \in Nat /\ NAD * NAD \in Nat /\ a * c \in Nat /\ b * d \in Nat
  BY <1>1, MulNat
<1> QED
  BY <1>4, <1>5, <1>6, <1>7, <1>8

\* the bounds of a rounded product: at most a thousandth of one is lost
LEMMA ScaledMulBetween ==
  ASSUME NEW r \in Nat, NEW s \in Nat,
         NEW a \in Nat, NEW b \in Nat, NEW c \in Nat, NEW d \in Nat, NEW e \in Nat, NEW f \in Nat,
         Between(r, a, b), Between(s, c, d), b <= 3 * PPM, d <= 3 * PPM
  PROVE  /\ ScaledMul(r, s) \in Nat
         /\ (e + 1000) * PPM <= a * c => e * NAD <= PPM * ScaledMul(r, s)
         /\ b * d <= f * PPM => PPM * ScaledMul(r, s) <= f * NAD
<1> DEFINE n == NAD * NAD
           w == r * s
<1>1. NAD \in Nat /\ NAD >= 1000 /\ MaxU128 \in Nat
  BY ScaleAssumption, WidthAssumption, LnTwoAssumption
<1>2. /\ w \in Nat /\ n \in Nat /\ a * c \in Nat /\ b * d \in Nat
      /\ (a * c) * n <= PPM * (PPM * w) /\ PPM * (PPM * w) <= (b * d) * n
  BY ProductBetween
<1>3. 100 * n <= MaxU128
  BY ScaleWithinWidth
<1>4. MulFits(r, s)
  <2>1. r <= 3 * NAD /\ s <= 3 * NAD
    <3>1. b * NAD <= (3 * PPM) * NAD /\ d * NAD <= (3 * PPM) * NAD
      BY <1>1, MulMonotone DEF PPM
    <3>2. b * NAD \in Nat /\ d * NAD \in Nat
      BY <1>1, MulNat
    <3> QED
      BY <1>1, <3>1, <3>2 DEF Between, PPM
  <2>2. w <= 9 * n
    <3> DEFINE m == 3 * NAD
    <3>1. m \in Nat /\ r <= m /\ s <= m
      BY <1>1, <2>1
    <3>2. m * m = 9 * n
      BY <1>1
    <3> HIDE DEF m, n
    <3>3. r * s <= m * s /\ s * m <= m * m /\ m * s \in Nat /\ r * s \in Nat
      BY <3>1, MulMonotone, MulNat
    <3> QED
      BY <3>1, <3>2, <3>3
  <2>3. r * s <= MaxU128
    BY <1>1, <1>2, <1>3, <2>2
  <2> QED
    BY <2>3, FitsByBound
<1> DEFINE z == w \div NAD
<1>5. z \in Nat /\ NAD * z <= w /\ w < NAD * z + NAD
  <2> HIDE DEF w
  <2>1. NAD \in Nat \ {0}
    BY <1>1
  <2> QED
    BY <1>2, <2>1, DivFloor
<1>6. ScaledMul(r, s) = z
  BY <1>4 DEF ScaledMul
<1>7. ASSUME b * d <= f * PPM PROVE PPM * w <= f * n
  <2>1. (b * d) * n <= (f * PPM) * n
    BY <1>2, <1>7, MulMonotone DEF PPM
  <2>2. (f * PPM) * n = PPM * (f * n) /\ f * n \in Nat
    BY <1>2, MulNat DEF PPM
  <2> HIDE DEF n, w
  <2> DEFINE g == f * n
             h == (b * d) * n
  <2>3. h \in Nat /\ PPM * (PPM * w) <= h /\ h <= PPM * g /\ g \in Nat
    BY <1>2, <2>1, <2>2, MulNat
  <2> HIDE DEF g, h
  <2>4. PPM * w <= g
    BY <1>2, <2>3 DEF PPM
  <2> QED
    BY <2>4 DEF g
<1>8. ASSUME (e + 1000) * PPM <= a * c PROVE (e + 1000) * n <= PPM * w
  <2>1. ((e + 1000) * PPM) * n <= (a * c) * n
    BY <1>2, <1>8, MulMonotone DEF PPM
  <2>2. ((e + 1000) * PPM) * n = PPM * ((e + 1000) * n) /\ (e + 1000) * n \in Nat
    BY <1>2, MulNat DEF PPM
  <2> HIDE DEF n, w
  <2> DEFINE g == (e + 1000) * n
             h == (a * c) * n
  <2>3. h \in Nat /\ h <= PPM * (PPM * w) /\ PPM * g <= h /\ g \in Nat
    BY <1>2, <2>1, <2>2, MulNat
  <2> HIDE DEF g, h
  <2>4. g <= PPM * w
    BY <1>2, <2>3 DEF PPM
  <2> QED
    BY <2>4 DEF g
<1> HIDE DEF z, w
<1>9. ASSUME b * d <= f * PPM PROVE PPM * z <= f * NAD
  <2> DEFINE p == PPM * z
             q == f * NAD
  <2>1. p \in Nat /\ q \in Nat /\ p * NAD = PPM * (NAD * z) /\ q * NAD = f * n /\ NAD * z \in Nat
    BY <1>1, <1>5, MulNat DEF PPM
  <2>2. PPM * (NAD * z) <= PPM * w
    BY <1>2, <1>5, <2>1 DEF PPM
  <2>3. p * NAD <= q * NAD /\ q * NAD \in Nat /\ p * NAD \in Nat
    BY <1>1, <1>2, <1>7, <1>9, <2>1, <2>2, MulNat DEF PPM
  <2> HIDE DEF p, q
  <2>4. ~(q < p)
    <3>1. SUFFICES ASSUME q < p PROVE FALSE
      OBVIOUS
    <3>2. (q + 1) * NAD <= p * NAD
      BY <1>1, <2>1, <3>1, MulMonotone
    <3>3. (q + 1) * NAD = q * NAD + NAD
      BY <1>1, <2>1
    <3> QED
      BY <1>1, <2>3, <3>2, <3>3
  <2> QED
    BY <2>1, <2>4 DEF p, q
<1>10. ASSUME (e + 1000) * PPM <= a * c PROVE e * NAD <= PPM * z
  <2> DEFINE p == PPM * (z + 1)
             q == (e + 1000) * NAD
  <2>1. p \in Nat /\ q \in Nat /\ p * NAD = PPM * (NAD * z + NAD) /\ q * NAD = (e + 1000) * n
        /\ NAD * z \in Nat
    BY <1>1, <1>5, MulNat DEF PPM
  <2>2. PPM * w < PPM * (NAD * z + NAD)
    BY <1>1, <1>2, <1>5, <2>1 DEF PPM
  <2>3. q * NAD < p * NAD
    BY <1>1, <1>2, <1>8, <1>10, <2>1, <2>2, MulNat DEF PPM
  <2>4. q = e * NAD + 1000 * NAD /\ p = PPM * z + PPM /\ e * NAD \in Nat
    BY <1>1, <1>5, MulNat DEF PPM
  <2> HIDE DEF p, q
  <2>5. q < p
    BY <1>1, <2>1, <2>3, LessByFactor
  <2> QED
    BY <1>1, <1>5, <2>4, <2>5 DEF PPM
<1> QED
  BY <1>5, <1>6, <1>9, <1>10

\* a natural number between bounds, and bounds that those of a product by a
\* number between c and d lead to
Lies(x, a, b) == x \in Nat /\ a \in Nat /\ b \in Nat /\ Between(x, a, b)

Leads(a, b, c, d, e, f) ==
  /\ e \in Nat /\ f \in Nat /\ b <= 3 * PPM
  /\ (e + 1000) * PPM <= a * c /\ b * d <= f * PPM

LEMMA LeadsOn ==
  ASSUME NEW s, NEW c, NEW d, Lies(s, c, d), d <= 3 * PPM
  PROVE  \A r, a, b, e, f :
           Lies(r, a, b) /\ Leads(a, b, c, d, e, f) => Lies(ScaledMul(r, s), e, f)
<1> TAKE r, a, b, e, f
<1> HAVE Lies(r, a, b) /\ Leads(a, b, c, d, e, f)
<1>1. /\ r \in Nat /\ s \in Nat /\ a \in Nat /\ b \in Nat /\ c \in Nat /\ d \in Nat
      /\ e \in Nat /\ f \in Nat /\ Between(r, a, b) /\ Between(s, c, d)
  BY DEF Lies, Leads
<1>2. b <= 3 * PPM /\ (e + 1000) * PPM <= a * c /\ b * d <= f * PPM
  BY DEF Leads
<1>3. ScaledMul(r, s) \in Nat /\ Between(ScaledMul(r, s), e, f)
  <2>1. d <= 3 * PPM
    OBVIOUS
  <2>2. /\ ScaledMul(r, s) \in Nat
        /\ (e + 1000) * PPM <= a * c => e * NAD <= PPM * ScaledMul(r, s)
        /\ b * d <= f * PPM => PPM * ScaledMul(r, s) <= f * NAD
    BY <1>1, <1>2, <2>1, ScaledMulBetween
  <2> QED
    BY <1>2, <2>2 DEF Between
<1> QED
  BY <1>1, <1>3 DEF Lies

\* ten products by about the tenth root of two
LEMMA TenthPowerOfTwo ==
  ASSUME NEW s, Lies(s, 1067707, 1074578)
  PROVE  Lies(TenthPower(s), 1911726, 2052960)
<1> DEFINE r0 == NAD
           r1 == ScaledMul(r0, s)
           r2 == ScaledMul(r1, s)
           r3 == ScaledMul(r2, s)
           r4 == ScaledMul(r3, s)
           r5 == ScaledMul(r4, s)
           r6 == ScaledMul(r5, s)
           r7 == ScaledMul(r6, s)
           r8 == ScaledMul(r7, s)
           r9 == ScaledMul(r8, s)
           r10 == ScaledMul(r9, s)
<1>1. TenthPower(s) = r10
  BY SMT DEF TenthPower
<1>step. \A r, a, b, e, f :
        Lies(r, a, b) /\ Leads(a, b, 1067707, 1074578, e, f) => Lies(ScaledMul(r, s), e, f)
  <2>1. 1074578 <= 3 * PPM
    BY SMT DEF PPM
  <2> QED
    BY <2>1, LeadsOn, SMT
<1>2. Lies(r0, 1000000, 1000000)
  BY ScaleAssumption, SMT DEF Lies, Between, PPM
<1> HIDE DEF r0
<1>3. Lies(r1, 1066707, 1074578)
  <2>1. Leads(1000000, 1000000, 1067707, 1074578, 1066707, 1074578)
    BY SMT DEF PPM, Leads
  <2> QED
    BY <1>step, <1>2, <2>1, SMT
<1> HIDE DEF r1
<1>4. Lies(r2, 1137930, 1154718)
  <2>1. Leads(1066707, 1074578, 1067707, 1074578, 1137930, 1154718)
    BY SMT DEF PPM, Leads
  <2> QED
    BY <1>step, <1>3, <2>1, SMT
<1> HIDE DEF r2
<1>5. Lies(r3, 1213975, 1240835)
  <2>1. Leads(1137930, 1154718, 1067707, 1074578, 1213975, 1240835)
    BY SMT DEF PPM, Leads
  <2> QED
    BY <1>step, <1>4, <2>1, SMT
<1> HIDE DEF r3
<1>6. Lies(r4, 1295169, 1333374)
  <2>1. Leads(1213975, 1240835, 1067707, 1074578, 1295169, 1333374)
    BY SMT DEF PPM, Leads
  <2> QED
    BY <1>step, <1>5, <2>1, SMT
<1> HIDE DEF r4
<1>7. Lies(r5, 1381861, 1432815)
  <2>1. Leads(1295169, 1333374, 1067707, 1074578, 1381861, 1432815)
    BY SMT DEF PPM, Leads
  <2> QED
    BY <1>step, <1>6, <2>1, SMT
<1> HIDE DEF r5
<1>8. Lies(r6, 1474422, 1539672)
  <2>1. Leads(1381861, 1432815, 1067707, 1074578, 1474422, 1539672)
    BY SMT DEF PPM, Leads
  <2> QED
    BY <1>step, <1>7, <2>1, SMT
<1> HIDE DEF r6
<1>9. Lies(r7, 1573250, 1654498)
  <2>1. Leads(1474422, 1539672, 1067707, 1074578, 1573250, 1654498)
    BY SMT DEF PPM, Leads
  <2> QED
    BY <1>step, <1>8, <2>1, SMT
<1> HIDE DEF r7
<1>10. Lies(r8, 1678770, 1777888)
  <2>1. Leads(1573250, 1654498, 1067707, 1074578, 1678770, 1777888)
    BY SMT DEF PPM, Leads
  <2> QED
    BY <1>step, <1>9, <2>1, SMT
<1> HIDE DEF r8
<1>11. Lies(r9, 1791434, 1910480)
  <2>1. Leads(1678770, 1777888, 1067707, 1074578, 1791434, 1910480)
    BY SMT DEF PPM, Leads
  <2> QED
    BY <1>step, <1>10, <2>1, SMT
<1> HIDE DEF r9
<1>12. Lies(r10, 1911726, 2052960)
  <2>1. Leads(1791434, 1910480, 1067707, 1074578, 1911726, 2052960)
    BY SMT DEF PPM, Leads
  <2> QED
    BY <1>step, <1>11, <2>1, SMT
<1> QED
  BY <1>1, <1>12, SMT

\* a term of the series, from the term before it
LEMMA TaylorTermBelow ==
  ASSUME NEW term \in Nat, NEW x \in Nat, NEW i \in 1 .. 5, NEW b \in Nat, NEW d \in Nat,
         NEW f \in Nat, PPM * term <= b * NAD, PPM * x <= d * NAD, b <= 3 * PPM, d <= 3 * PPM,
         b * d <= f * PPM
  PROVE  TaylorTerm(term, i, x) \in Nat /\ PPM * TaylorTerm(term, i, x) <= f * NAD
<1>1. NAD \in Nat \ {0} /\ i * NAD \in Nat \ {0} /\ NAD <= i * NAD
  BY ScaleAssumption, SMT
<1>2. Between(term, 0, b) /\ Between(x, 0, d)
  BY <1>1, SMT DEF Between, PPM
<1>3. 0 \in Nat
  OBVIOUS
<1>4. /\ ScaledMul(term, x) \in Nat
      /\ b * d <= f * PPM => PPM * ScaledMul(term, x) <= f * NAD
  BY <1>2, <1>3, ScaledMulBetween
<1> DEFINE w == term * x
           k == i * NAD
<1>5. w \in Nat /\ k \in Nat \ {0} /\ NAD <= k
  BY <1>1, MulNat
<1>6. TaylorTerm(term, i, x) = IF MulFits(term, x) THEN w \div k ELSE 0
  BY DEF TaylorTerm
<1>7. ScaledMul(term, x) = IF MulFits(term, x) THEN w \div NAD ELSE MaxU128
  BY DEF ScaledMul
<1> HIDE DEF w, k
<1>8. w \div k \in Nat /\ w \div NAD \in Nat /\ w \div k <= w \div NAD
  BY <1>1, <1>5, DivFloor, DivAntitone
<1>9. TaylorTerm(term, i, x) \in Nat /\ TaylorTerm(term, i, x) <= ScaledMul(term, x)
  BY <1>4, <1>6, <1>7, <1>8
<1>10. f * NAD \in Nat
  BY <1>1, MulNat
<1> DEFINE t == TaylorTerm(term, i, x)
           v == ScaledMul(term, x)
<1>11. t \in Nat /\ v \in Nat /\ t <= v /\ PPM * v <= f * NAD
  BY <1>4, <1>9
<1> HIDE DEF t, v
<1>12. PPM * t <= f * NAD
  BY <1>10, <1>11 DEF PPM
<1> QED
  BY <1>11, <1>12 DEF t

\* a natural number below a bound, and the bound this leads to for its product
\* by a number below d
Below(x, b) == x \in Nat /\ b \in Nat /\ PPM * x <= b * NAD

LeadsTo(b, d, f) == f \in Nat /\ b <= 3 * PPM /\ b * d <= f * PPM

LEMMA TermsOn ==
  ASSUME NEW x, NEW d, Below(x, d), d <= 3 * PPM
  PROVE  \A t, b, f : \A i \in 1 .. 5 :
           Below(t, b) /\ LeadsTo(b, d, f) => Below(TaylorTerm(t, i, x), f)
<1> TAKE t, b, f
<1> TAKE i \in 1 .. 5
<1> HAVE Below(t, b) /\ LeadsTo(b, d, f)
<1>1. /\ t \in Nat /\ x \in Nat /\ b \in Nat /\ d \in Nat /\ f \in Nat
      /\ PPM * t <= b * NAD /\ PPM * x <= d * NAD
  BY DEF Below, LeadsTo
<1>2. b <= 3 * PPM /\ d <= 3 * PPM /\ b * d <= f * PPM
  BY DEF LeadsTo
<1>3. TaylorTerm(t, i, x) \in Nat /\ PPM * TaylorTerm(t, i, x) <= f * NAD
  BY <1>1, <1>2, TaylorTermBelow
<1> QED
  BY <1>1, <1>3 DEF Below

\* the series of about a tenth of ln 2
LEMMA TaylorSumOfTenthOfLnTwo ==
  ASSUME NEW u \in Nat, Between(u, 67707, 69400)
  PROVE  Lies(TaylorSum(u), 1067707, 1074578)
<1> DEFINE t1 == TaylorTerm(NAD, 1, u)
           t2 == TaylorTerm(t1, 2, u)
           t3 == TaylorTerm(t2, 3, u)
           t4 == TaylorTerm(t3, 4, u)
           t5 == TaylorTerm(t4, 5, u)
<1>1. NAD \in Nat \ {0} /\ MaxU128 \in Nat
  BY ScaleAssumption, WidthAssumption, SMT
<1>2. TaylorSum(u) = NAD + t1 + t2 + t3 + t4 + t5
  BY SMT DEF TaylorSum
<1>3. MulFits(NAD, u)
  <2>1. u <= NAD
    BY <1>1, SMT DEF Between, PPM
  <2>2. u * NAD <= NAD * NAD /\ u * NAD = NAD * u
    BY <1>1, <2>1, MulMonotone, SMT
  <2>3. NAD * u \in Nat /\ NAD * u <= MaxU128
    BY <1>1, <2>2, MulNat, ScaleWithinWidth, SMT
  <2> QED
    BY <1>1, <2>3, FitsByBound, SMT
<1>4. TaylorSum(u) \in Nat /\ TaylorSum(u) >= NAD + u
  BY <1>3, TaylorSumAtLeast, SMT
<1>5. \A t, b, f : \A i \in 1 .. 5 :
        Below(t, b) /\ LeadsTo(b, 69400, f) => Below(TaylorTerm(t, i, u), f)
  <2>1. Below(u, 69400) /\ 69400 <= 3 * PPM
    BY SMT DEF Below, Between, PPM
  <2> QED
    BY <2>1, TermsOn, SMT
<1>6. \A i \in {1, 2, 3, 4, 5} : i \in 1 .. 5
  BY SMT
<1>7. Below(NAD, 1000000)
  BY <1>1, SMT DEF Below, PPM
<1>8. /\ LeadsTo(1000000, 69400, 69400) /\ LeadsTo(69400, 69400, 4817) /\ LeadsTo(4817, 69400, 335)
      /\ LeadsTo(335, 69400, 24) /\ LeadsTo(24, 69400, 2)
  BY SMT DEF LeadsTo, PPM
<1>9. Below(t1, 69400)
  BY <1>5, <1>6, <1>7, <1>8, SMT
<1>10. Below(t2, 4817)
  <2> HIDE DEF t1
  <2> QED
    BY <1>5, <1>6, <1>8, <1>9, SMT
<1>11. Below(t3, 335)
  <2> HIDE DEF t2
  <2> QED
    BY <1>5, <1>6, <1>8, <1>10, SMT
<1>12. Below(t4, 24)
  <2> HIDE DEF t3
  <2> QED
    BY <1>5, <1>6, <1>8, <1>11, SMT
<1>13. Below(t5, 2)
  <2> HIDE DEF t4
  <2> QED
    BY <1>5, <1>6, <1>8, <1>12, SMT
<1> HIDE DEF t1, t2, t3, t4, t5
<1>14. PPM * TaylorSum(u) <= 1074578 * NAD
  BY <1>1, <1>2, <1>9, <1>10, <1>11, <1>12, <1>13, SMT DEF Below, PPM
<1>15. 1067707 * NAD <= PPM * TaylorSum(u)
  BY <1>1, <1>4, SMT DEF Between, PPM
<1> QED
  BY <1>4, <1>14, <1>15, SMT DEF Lies, Between

\* a remainder is what the divisors leave
LEMMA Remainder ==
  ASSUME NEW a \in Nat, NEW b \in Nat \ {0}
  PROVE  a % b = a - b * (a \div b)
BY SMT

\* products of naturals in the same order have factors in that order
LEMMA AtMostByFactor ==
  ASSUME NEW a \in Nat, NEW b \in Nat, NEW c \in Nat \ {0}, a * c <= b * c
  PROVE  a <= b
<1>1. SUFFICES ASSUME b < a PROVE FALSE
  OBVIOUS
<1>2. (b + 1) * c <= a * c
  BY <1>1, MulMonotone
<1>3. (b + 1) * c = b * c + c /\ b * c \in Nat /\ a * c \in Nat
  BY MulNat
<1> QED
  BY <1>2, <1>3

\* the exponent of one half-life, that lost at most a hundredth of ln 2
LEMMA HalfLifeExponent ==
  ASSUME NEW h \in Nat \ {0}, 100 * (NATURAL_LOG_OF_TWO_NAD % h) <= NATURAL_LOG_OF_TWO_NAD
  PROVE  LET x == SatMul128(NATURAL_LOG_OF_TWO_NAD \div h, h)
         IN  x \in Nat /\ x > 0 /\ Between(x \div 10, 67707, 69400)
<1> DEFINE l == NATURAL_LOG_OF_TWO_NAD
           e == l \div h
           x == SatMul128(e, h)
           u == x \div 10
<1>1. /\ l \in Nat /\ NAD \in Nat /\ NAD >= 1000 /\ MaxU64 \in Nat /\ MaxU128 \in Nat
      /\ 693 * NAD <= 1000 * l /\ 1000 * l <= 694 * NAD
  BY ScaleAssumption, WidthAssumption, LnTwoAssumption, SMT
<1>2. e \in Nat /\ h * e <= l /\ l % h = l - h * e
  <2> HIDE DEF l
  <2> QED
    BY <1>1, DivFloor, Remainder
<1> HIDE DEF e
<1>3. e * h \in Nat /\ h * e = e * h
  BY <1>2, MulNat
<1>4. l <= MaxU128
  <2>1. l <= NAD
    BY <1>1, SMT
  <2>2. NAD <= NAD * NAD
    <3>1. 1 * NAD <= NAD * NAD
      BY <1>1, MulMonotone, SMT
    <3> QED
      BY <1>1, <3>1, SMT
  <2>3. NAD * NAD < MaxU128 /\ NAD * NAD \in Nat
    BY ScaleWithinWidth
  <2> HIDE DEF l
  <2> QED
    BY <1>1, <2>1, <2>2, <2>3, SMT
<1>5. x = e * h
  <2>1. e * h <= MaxU128
    BY <1>1, <1>2, <1>3, <1>4, SMT
  <2>2. MulFits(e, h)
    BY <1>2, <2>1, FitsByBound
  <2> QED
    BY <2>2 DEF SatMul128
<1>6. 100 * (l - x) <= l
  BY <1>2, <1>3, <1>5
<1>7. x \in Nat /\ x <= l
  BY <1>1, <1>2, <1>3, <1>5
<1> HIDE DEF x
<1>8. u \in Nat /\ 10 * u <= x /\ x < 10 * u + 10
  BY <1>7, DivFloor
<1> HIDE DEF u, l
<1>9. x > 0
  BY <1>1, <1>6, <1>7, SMT
<1>10. PPM * u <= 69400 * NAD
  BY <1>1, <1>7, <1>8, SMT DEF PPM
<1>11. 67707 * NAD <= PPM * u
  BY <1>1, <1>6, <1>7, <1>8, SMT DEF PPM
<1> QED
  BY <1>7, <1>9, <1>10, <1>11 DEF Between, u, x, e, l

\* with such an exponent a rate doubles
LEMMA DoublesByPower ==
  ASSUME NEW last \in Nat, last >= 100, NEW t \in Nat, NEW d \in Nat, NEW up \in Nat,
         Between(t, 1911726, 2052960), t > 0, d > 0,
         t * d <= NAD * NAD, NAD * NAD < t * d + t,
         d * up <= last * NAD, last * NAD < d * up + d
  PROVE  38 * last <= 20 * up /\ 20 * up <= 42 * last
<1> DEFINE n == NAD * NAD
           w == t * d
           v == last * NAD
<1>1. NAD \in Nat /\ NAD >= 1000 /\ n \in Nat \ {0} /\ w \in Nat /\ v \in Nat
  BY ScaleAssumption, LnTwoAssumption, ScaleWithinWidth, MulNat, SMT
<1>2. 1911726 * NAD <= PPM * t /\ PPM * t <= 2052960 * NAD
  BY SMT DEF Between
<1>3. w <= n /\ n < w + t /\ d * up <= v /\ v < d * up + d
  BY SMT
<1>4. /\ w * up \in Nat /\ w * (up + 1) \in Nat /\ n * (up + 1) \in Nat /\ n * up \in Nat
      /\ t * v \in Nat /\ last * n \in Nat
  BY <1>1, MulNat, SMT
<1>5. t * v <= w * (up + 1)
  <2>1. v <= d * (up + 1) /\ d * (up + 1) \in Nat
    BY <1>1, <1>3, MulNat, SMT
  <2>2. v * t <= (d * (up + 1)) * t
    BY <1>1, <2>1, MulMonotone, SMT
  <2>3. (d * (up + 1)) * t = w * (up + 1)
    BY SMT
  <2>4. v * t = t * v
    BY <1>1, SMT
  <2> QED
    BY <2>2, <2>3, <2>4, SMT
<1>6. w * up <= t * v
  <2>1. (d * up) * t <= v * t
    BY <1>1, <1>3, MulMonotone, MulNat, SMT
  <2>2. (d * up) * t = w * up /\ v * t = t * v
    BY <1>1, SMT
  <2> QED
    BY <2>1, <2>2, SMT
<1>7. 1911726 * (last * n) <= PPM * (t * v) /\ PPM * (t * v) <= 2052960 * (last * n)
  <2> DEFINE p == PPM * t
  <2>1. p \in Nat /\ 1911726 * NAD \in Nat /\ 2052960 * NAD \in Nat
    BY <1>1, MulNat, SMT DEF PPM
  <2>2. (1911726 * NAD) * v <= p * v /\ p * v <= (2052960 * NAD) * v
    BY <1>1, <1>2, <2>1, MulMonotone, SMT
  <2>3. /\ (1911726 * NAD) * v = 1911726 * (last * n)
        /\ (2052960 * NAD) * v = 2052960 * (last * n)
    BY <1>1, SMT
  <2>4. p * v = PPM * (t * v)
    BY <1>1, SMT DEF PPM
  <2> QED
    BY <2>2, <2>3, <2>4, SMT
<1>8. 38 * last <= 20 * up
  <2>1. w * (up + 1) <= n * (up + 1)
    BY <1>1, <1>3, MulMonotone, SMT
  <2>2. 1911726 * (last * n) <= PPM * (n * (up + 1))
    BY <1>1, <1>4, <1>5, <1>7, <2>1, SMT DEF PPM
  <2>3. (1911726 * last) * n <= (PPM * (up + 1)) * n
    BY <1>1, <2>2, SMT DEF PPM
  <2>4. 1911726 * last <= PPM * (up + 1)
    BY <1>1, <2>3, AtMostByFactor, SMT DEF PPM
  <2> QED
    BY <2>4, SMT DEF PPM
<1>9. 20 * up <= 42 * last
  <2>1. 1000 * (PPM * t) <= 2052960 * n
    <3>1. 1000 * NAD <= NAD * NAD
      BY <1>1, MulMonotone, SMT
    <3> QED
      BY <1>1, <1>2, <3>1, SMT DEF PPM
  <2>2. 997947040 * n <= 1000 * (PPM * w)
    BY <1>1, <1>3, <2>1, SMT DEF PPM
  <2>3. (997947040 * n) * up <= (1000 * (PPM * w)) * up
    BY <1>1, <2>2, MulMonotone, SMT DEF PPM
  <2>4. /\ (997947040 * n) * up = (997947040 * up) * n
        /\ (1000 * (PPM * w)) * up = 1000 * (PPM * (w * up))
    BY <1>1, SMT DEF PPM
  <2>5. PPM * (w * up) <= 2052960 * (last * n)
    BY <1>1, <1>4, <1>6, <1>7, SMT DEF PPM
  <2>6. 1000 * (2052960 * (last * n)) = (2052960000 * last) * n
    BY <1>1, SMT
  <2>7. (997947040 * up) * n <= (2052960000 * last) * n
    BY <1>1, <1>4, <2>3, <2>4, <2>5, <2>6, SMT DEF PPM
  <2>8. 997947040 * up <= 2052960000 * last
    BY <1>1, <2>7, AtMostByFactor, SMT
  <2> QED
    BY <2>8, SMT
<1> QED
  BY <1>8, <1>9, SMT

\* one half-life of growth
LEMMA GrownOverHalfLife ==
  ASSUME NEW m, NEW h \in Nat \ {0}, m.exp_rate = NATURAL_LOG_OF_TWO_NAD \div h,
         100 * (NATURAL_LOG_OF_TWO_NAD % h) <= NATURAL_LOG_OF_TWO_NAD,
         NEW last \in U64, last >= 100
  PROVE  /\ Grown(m, last, h) \in Nat
         /\ 38 * last <= 20 * Grown(m, last, h) /\ 20 * Grown(m, last, h) <= 42 * last
<1> DEFINE x == SatMul128(NATURAL_LOG_OF_TWO_NAD \div h, h)
           u == x \div 10
           t == TenthPower(TaylorSum(u))
           d == (NAD * NAD) \div t
           v == last * NAD
           up == v \div d
<1>1. NAD \in Nat \ {0} /\ NAD >= 1000 /\ last \in Nat /\ MaxU64 \in Nat /\ NAD \in U64
  BY OneInU64, LnTwoAssumption, SMT DEF U64
<1>2. x \in Nat /\ x > 0 /\ Between(u, 67707, 69400)
  BY HalfLifeExponent, SMT
<1>3. u \in Nat
  <2> HIDE DEF x
  <2> QED
    BY <1>2, DivFloor, SMT
<1>4. DecayFactor(m, h) = ExpOfMinus(x)
  BY SMT DEF DecayFactor
<1>5. ExpOfMinus(x) = CastU64(d)
  <2> HIDE DEF x
  <2> QED
    BY <1>2, SMT DEF ExpOfMinus
<1> HIDE DEF x, u
<1>6. Lies(TaylorSum(u), 1067707, 1074578)
  BY <1>2, <1>3, TaylorSumOfTenthOfLnTwo, SMT
<1>7. Lies(t, 1911726, 2052960)
  BY <1>6, TenthPowerOfTwo, SMT
<1>8. TaylorSum(u) \in Nat /\ TaylorSum(u) >= NAD /\ NAD <= MaxU64
  BY <1>1, <1>3, TaylorSumAtLeastOne, OneInU64, SMT
<1>9. t \in Nat /\ t >= NAD
  BY <1>8, TenthPowerAtLeastOne, SMT
<1> HIDE DEF t
<1>10. NAD * NAD \in Nat /\ d \in Nat /\ t * d <= NAD * NAD /\ NAD * NAD < t * d + t
  <2> DEFINE n == NAD * NAD
  <2>1. n \in Nat /\ t \in Nat \ {0}
    BY <1>1, <1>9, MulNat, SMT
  <2> HIDE DEF n
  <2>2. n \div t \in Nat /\ t * (n \div t) <= n /\ n < t * (n \div t) + t
    BY <2>1, DivFloor, SMT
  <2> QED
    BY <2>1, <2>2, SMT DEF n
<1> HIDE DEF d
<1>11. d <= NAD
  <2>1. NAD * d <= t * d
    BY <1>1, <1>9, <1>10, MulMonotone, SMT
  <2>2. d * NAD <= NAD * NAD
    BY <1>1, <1>9, <1>10, <2>1, MulNat, SMT
  <2> QED
    BY <1>1, <1>10, <2>2, AtMostByFactor, SMT
<1>12. d > 0
  <2>1. SUFFICES ASSUME d = 0 PROVE FALSE
    BY <1>10, SMT
  <2>2. NAD * NAD < t
    BY <1>9, <1>10, <2>1, SMT
  <2>3. 1000 * NAD <= NAD * NAD
    BY <1>1, MulMonotone, SMT
  <2>4. PPM * t <= 2052960 * NAD
    BY <1>7, SMT DEF Lies, Between
  <2> QED
    BY <1>1, <1>9, <1>10, <2>2, <2>3, <2>4, SMT DEF PPM
<1>13. CastU64(d) = d
  BY <1>1, <1>8, <1>10, <1>11, SMT DEF CastU64
<1>14. Greater(DecayFactor(m, h), 1) = d
  BY <1>4, <1>5, <1>10, <1>12, <1>13, SMT DEF Greater
<1>15. SatMul128(last, NAD) = v
  <2>1. MulFits(last, NAD)
    BY <1>1, ProductInU128, SMT
  <2> QED
    BY <2>1, SMT DEF SatMul128
<1>16. Grown(m, last, h) = up
  BY <1>14, <1>15, SMT DEF Grown
<1>17. v \in Nat
  BY <1>1, MulNat, SMT
<1>18. up \in Nat /\ d * up <= v /\ v < d * up + d
  <2>1. d \in Nat \ {0}
    BY <1>10, <1>12, SMT
  <2> HIDE DEF v
  <2> QED
    BY <1>17, <2>1, DivFloor, SMT
<1> HIDE DEF up
<1>19. 38 * last <= 20 * up /\ 20 * up <= 42 * last
  <2>1. Between(t, 1911726, 2052960) /\ t \in Nat /\ t > 0
    BY <1>1, <1>7, <1>9, SMT DEF Lies
  <2>2. d \in Nat /\ d > 0 /\ t * d <= NAD * NAD /\ NAD * NAD < t * d + t
    BY <1>10, <1>12
  <2>3. up \in Nat /\ d * up <= last * NAD /\ last * NAD < d * up + d
    BY <1>18
  <2>4. last \in Nat /\ last >= 100
    BY <1>1
  <2> HIDE DEF v
  <2> QED
    BY <2>1, <2>2, <2>3, <2>4, DoublesByPower, SMTT(60)
<1> QED
  BY <1>16, <1>18, <1>19, SMT

\* High utilization doubles a rate in the time the model is named for: for
\* every half-life that leaves exp_rate enough digits, every rate large enough
\* to be rounded, and whatever one is scaled by.
THEOREM HalfLifeHolds == Spec => []HalfLifeDoubles
<1>1. RateInv => HalfLifeDoubles
  <2> DEFINE m == rate_model
             h == rate_model.half_life_ms
  <2> SUFFICES ASSUME RateInv, elapsed = h, m.max_rate = 0,
                      last_rate >= 100, last_rate >= m.min_rate,
                      100 * (NATURAL_LOG_OF_TWO_NAD % h) <= NATURAL_LOG_OF_TWO_NAD,
                      Accrual(elapsed, MaxU64).rate < MaxU64
               PROVE  20 * Accrual(elapsed, MaxU64).rate \in 38 * last_rate .. 42 * last_rate
    BY DEF HalfLifeDoubles
  <2>1. PICK a \in Models : rate_model = New(a)
    BY DEF RateInv
  <2>2. a \in RateArgs /\ ValidUtilBounds(a) /\ ValidRateParams(a)
    BY <2>1, ModelsAssumption
  <2>3. h \in Nat \ {0} /\ m.exp_rate = NATURAL_LOG_OF_TWO_NAD \div h
    <3>1. h = a.half_life_ms /\ m.exp_rate = NATURAL_LOG_OF_TWO_NAD \div a.half_life_ms
      BY <2>1 DEF New
    <3>2. a.half_life_ms \in MIN_RATE_HALF_LIFE_MS .. MAX_RATE_HALF_LIFE_MS
          /\ a.half_life_ms \in Nat
      BY <2>2 DEF ValidRateParams, RateArgs
    <3> QED
      BY <3>1, <3>2, RateTimeAssumption
  <2>4. m.target_util_end < MaxU64 /\ MaxU64 \in U64
    <3>1. m.target_util_end = (NAD * a.target_util_end) \div 10000
      BY <2>1 DEF New, BpsToNad, RATE_BPS
    <3>2. a.target_util_end \in Nat /\ a.target_util_end <= 10000
      BY <2>2, SMT DEF RateArgs, ValidUtilBounds, MAX_TARGET_UTIL_BPS
    <3>3. NAD \in Nat \ {0} /\ 10 * NAD <= MaxU64 /\ MaxU64 \in Nat
      BY OneInU64, ScaleWithinWidth, SMT
    <3>4. NAD * a.target_util_end <= NAD * 10000 /\ NAD * a.target_util_end \in Nat
      <4>1. a.target_util_end * NAD <= 10000 * NAD
        BY <3>2, <3>3, MulMonotone, SMT
      <4> QED
        BY <3>2, <3>3, <4>1, MulNat, SMT
    <3> DEFINE z == NAD * a.target_util_end
    <3>5. z \in Nat /\ z < NAD * 10000 + 10000
      BY <3>3, <3>4, SMT
    <3> HIDE DEF z
    <3>6. z \div 10000 <= NAD
      BY <3>3, <3>5, DivAtMost, SMT
    <3>7. m.target_util_end <= NAD
      BY <3>1, <3>6, SMT DEF z
    <3> QED
      BY <2>1, <3>1, <3>3, <3>5, <3>7, SMT DEF U64, z
  <2>5. IsRateModel(m) /\ last_rate \in U64 /\ elapsed \in Nat /\ elapsed > 0
    BY <2>3 DEF RateInv
  <2>6. Greater(last_rate, m.min_rate) = last_rate
    BY <2>5, SMT DEF Greater, IsRateModel, U64
  <2>7. ~HitsMax(m, last_rate, elapsed)
    BY SMT DEF HitsMax
  <2>8. NewRate(m, last_rate, elapsed, MaxU64) = Lesser(Grown(m, last_rate, elapsed), MaxU64)
    BY <2>4, <2>5, <2>6, <2>7, RateBranches, SMT
  <2>9. Accrual(elapsed, MaxU64).rate = Grown(m, last_rate, elapsed)
    <3>1. Accrual(elapsed, MaxU64).rate = Lesser(Grown(m, last_rate, elapsed), MaxU64)
      BY <2>8 DEF Accrual, NewRate
    <3>2. MaxU64 \in Nat
      BY WidthAssumption
    <3> QED
      BY <3>1, <3>2, SMT DEF Lesser
  <2>10. /\ Grown(m, last_rate, h) \in Nat
         /\ 38 * last_rate <= 20 * Grown(m, last_rate, h)
         /\ 20 * Grown(m, last_rate, h) <= 42 * last_rate
    BY <2>3, <2>5, GrownOverHalfLife, SMT
  <2> DEFINE r == Grown(m, last_rate, h)
  <2>11. Accrual(elapsed, MaxU64).rate = r
    BY <2>9
  <2>12. r \in Nat /\ 38 * last_rate <= 20 * r /\ 20 * r <= 42 * last_rate /\ last_rate \in Nat
    BY <2>5, <2>10, SMT DEF U64
  <2> HIDE DEF r
  <2>13. 20 * r \in 38 * last_rate .. 42 * last_rate
    BY <2>12, SMT
  <2> QED
    BY <2>11, <2>13
<1> QED
  BY <1>1, RateTyped, PTL

----------------------------------------------------------------------------
(* The exponential of -x lies between one less x and the reciprocal of one  *)
(* and x, where x loses at most nine units to the division by ten: the      *)
(* truncations of the products and of the reciprocal cost nothing.          *)

\* a product of numbers above one is above one by both excesses
LEMMA ScaledMulAbove ==
  ASSUME NEW r \in Nat, NEW s \in Nat, NEW a \in Nat, NEW u \in Nat,
         r >= NAD + a, s >= NAD + u, NAD + a + u <= MaxU128
  PROVE  ScaledMul(r, s) \in Nat /\ ScaledMul(r, s) >= NAD + a + u
<1> DEFINE p == NAD + a
           q == NAD + u
           c == NAD + a + u
<1>1. NAD \in Nat \ {0} /\ MaxU128 \in Nat
  BY ScaleAssumption, WidthAssumption
<1>2. p \in Nat /\ q \in Nat /\ c \in Nat /\ r >= p /\ s >= q
  BY <1>1
<1>3. c * NAD <= p * q
  <2>1. p * q = c * NAD + a * u /\ a * u \in Nat /\ c * NAD \in Nat
    BY <1>1, MulNat
  <2> QED
    BY <2>1
<1> HIDE DEF p, q, c
<1>4. p * q <= r * s /\ p * q \in Nat /\ r * s \in Nat /\ c * NAD \in Nat
  <2>1. p * q <= r * q /\ q * r <= s * r
    BY <1>2, MulMonotone
  <2>2. p * q \in Nat /\ r * q \in Nat /\ r * s \in Nat /\ q * r = r * q /\ s * r = r * s
        /\ c * NAD \in Nat
    BY <1>1, <1>2, MulNat
  <2> QED
    BY <2>1, <2>2
<1>5. (r * s) \div NAD \in Nat /\ (r * s) \div NAD >= c
  <2>1. c * NAD <= r * s
    BY <1>3, <1>4
  <2> QED
    BY <1>1, <1>2, <1>4, <2>1, DivFloor, DivAtLeast
<1>6. MaxU128 >= c
  BY DEF c
<1>7. ScaledMul(r, s) \in Nat /\ ScaledMul(r, s) >= c
  BY <1>1, <1>5, <1>6 DEF ScaledMul
<1> QED
  BY <1>7 DEF c

\* the tenth power of a number above one is above one by ten times its excess
LEMMA TenthPowerAbove ==
  ASSUME NEW s \in Nat, NEW u \in Nat, s >= NAD + u, NAD + 10 * u <= MaxU128
  PROVE  TenthPower(s) \in Nat /\ TenthPower(s) >= NAD + 10 * u
<1> DEFINE f(r) == ScaledMul(ScaledMul(r, s), s)
           Above(r, a) == r \in Nat /\ a \in Nat /\ r >= NAD + a
<1>1. NAD \in Nat /\ MaxU128 \in Nat
  BY ScaleAssumption, WidthAssumption
<1>2. \A r, a : Above(r, a) /\ a <= 8 * u => Above(f(r), a + 2 * u)
  <2> TAKE r, a
  <2> HAVE Above(r, a) /\ a <= 8 * u
  <2> DEFINE z == ScaledMul(r, s)
  <2>1. z \in Nat /\ z >= NAD + a + u
    <3>1. NAD + a + u <= MaxU128
      BY <1>1
    <3> QED
      BY <3>1, ScaledMulAbove
  <2> HIDE DEF z
  <2>2. ScaledMul(z, s) \in Nat /\ ScaledMul(z, s) >= NAD + (a + u) + u
    <3>1. NAD + (a + u) + u <= MaxU128 /\ a + u \in Nat /\ z >= NAD + (a + u)
      BY <1>1, <2>1
    <3> QED
      BY <2>1, <3>1, ScaledMulAbove
  <2> QED
    BY <1>1, <2>2 DEF z
<1>3. TenthPower(s) = f(f(f(f(f(NAD)))))
  BY DEF TenthPower
<1>4. Above(NAD, 0)
  BY <1>1
<1>5. Above(TenthPower(s), 10 * u) => TenthPower(s) \in Nat /\ TenthPower(s) >= NAD + 10 * u
  OBVIOUS
<1>6. /\ 0 + 2 * u = 2 * u /\ 2 * u + 2 * u = 4 * u /\ 4 * u + 2 * u = 6 * u
      /\ 6 * u + 2 * u = 8 * u /\ 8 * u + 2 * u = 10 * u
      /\ 0 <= 8 * u /\ 2 * u <= 8 * u /\ 4 * u <= 8 * u /\ 6 * u <= 8 * u /\ 8 * u <= 8 * u
  OBVIOUS
<1> HIDE DEF f, Above
<1>7. Above(f(NAD), 2 * u)
  BY <1>2, <1>4, <1>6
<1>8. Above(f(f(NAD)), 4 * u)
  BY <1>2, <1>6, <1>7
<1>9. Above(f(f(f(NAD))), 6 * u)
  BY <1>2, <1>6, <1>8
<1>10. Above(f(f(f(f(NAD)))), 8 * u)
  BY <1>2, <1>6, <1>9
<1>11. Above(f(f(f(f(f(NAD))))), 10 * u)
  BY <1>2, <1>6, <1>10
<1> QED
  BY <1>3, <1>5, <1>11

\* a product of reciprocals of one less a and of one less u
LEMMA ScaledMulUnder ==
  ASSUME NEW r \in Nat, NEW s \in Nat, NEW a \in Nat, NEW u \in Nat,
         10 * a <= 9 * NAD, 10 * u <= NAD,
         r * (NAD - a) <= NAD * NAD, s * (NAD - u) <= NAD * NAD
  PROVE  /\ ScaledMul(r, s) \in Nat
         /\ ScaledMul(r, s) * (NAD - (a + u)) <= NAD * NAD
<1> DEFINE n == NAD * NAD
           p == NAD - a
           q == NAD - u
           c == NAD - (a + u)
<1>1. /\ NAD \in Nat \ {0} /\ MaxU128 \in Nat /\ n \in Nat \ {0} /\ 100 * n <= MaxU128
  BY ScaleAssumption, WidthAssumption, ScaleWithinWidth
<1>2. p \in Nat /\ q \in Nat /\ c \in Nat /\ NAD <= 10 * p /\ NAD <= 10 * q
  BY <1>1
<1>3. r * p <= n /\ s * q <= n
  OBVIOUS
<1>4. c * NAD <= p * q
  <2>1. p * q = c * NAD + a * u /\ a * u \in Nat
    <3>1. a * u \in Nat
      BY MulNat
    <3>2. p * q = NAD * NAD - a * NAD - u * NAD + a * u /\ c * NAD = NAD * NAD - a * NAD - u * NAD
      BY <1>1
    <3> QED
      BY <1>1, <3>1, <3>2
  <2>2. c * NAD \in Nat
    BY <1>1, <1>2, MulNat
  <2> QED
    BY <2>1, <2>2
<1>5. \A t, k \in Nat : NAD <= 10 * k /\ t * k <= n => t <= 10 * NAD
  <2> TAKE t, k \in Nat
  <2> HAVE NAD <= 10 * k /\ t * k <= n
  <2>1. NAD * t <= (10 * k) * t
    BY <1>1, MulMonotone
  <2>2. (10 * k) * t = 10 * (t * k) /\ t * k \in Nat /\ NAD * t = t * NAD /\ t * NAD \in Nat
    BY <1>1, MulNat
  <2>3. (10 * NAD) * NAD = 10 * n
    BY <1>1
  <2>4. t * NAD <= (10 * NAD) * NAD
    BY <1>1, <2>1, <2>2, <2>3
  <2> QED
    BY <1>1, <2>4, AtMostByFactor
<1>6. r <= 10 * NAD /\ s <= 10 * NAD
  BY <1>2, <1>3, <1>5
<1> DEFINE w == r * s
<1>7. MulFits(r, s) /\ w \in Nat
  <2> DEFINE m == 10 * NAD
  <2>1. m * m = 100 * n
    BY <1>1
  <2>2. m \in Nat /\ r <= m /\ s <= m
    BY <1>1, <1>6
  <2> HIDE DEF m
  <2>3. r * s <= m * s /\ s * m <= m * m /\ r * s \in Nat /\ m * s \in Nat /\ m * m \in Nat
    BY <2>2, MulMonotone, MulNat
  <2>4. r * s <= MaxU128
    BY <1>1, <2>1, <2>2, <2>3
  <2> QED
    BY <2>3, <2>4, FitsByBound
<1> DEFINE z == w \div NAD
<1>8. ScaledMul(r, s) = z
  BY <1>7 DEF ScaledMul
<1>9. z \in Nat /\ NAD * z <= w
  <2> HIDE DEF w
  <2> QED
    BY <1>1, <1>7, DivFloor
<1> DEFINE i == r * p
           j == s * q
           g == p * q
<1>10. i * j <= n * n /\ i \in Nat /\ j \in Nat
  <2>1. i \in Nat /\ j \in Nat /\ i <= n /\ j <= n
    BY <1>2, <1>3, MulNat
  <2> HIDE DEF i, j, n
  <2>2. i * j <= n * j /\ j * n <= n * n /\ i * j \in Nat /\ n * j \in Nat /\ n * n \in Nat
    BY <1>1, <2>1, MulMonotone, MulNat
  <2> QED
    BY <1>1, <2>1, <2>2
<1>11. i * j = w * g
  BY <1>2
<1> HIDE DEF z, w, i, j, g
<1>12. (z * c) * n <= w * g
  <2>1. g \in Nat
    BY <1>2, MulNat DEF g
  <2> DEFINE y == NAD * z
             d == c * NAD
  <2>2. y \in Nat /\ d \in Nat /\ y <= w /\ d <= g
    BY <1>1, <1>2, <1>4, <1>9, MulNat DEF g
  <2>3. (z * c) * n = y * d
    BY <1>1, <1>2, <1>9
  <2> HIDE DEF y, d
  <2>4. y * d <= w * d /\ d * w <= g * w /\ y * d \in Nat /\ w * d \in Nat /\ w * g \in Nat
    BY <1>7, <2>1, <2>2, MulMonotone, MulNat
  <2>5. y * d <= w * g
    BY <1>7, <2>1, <2>2, <2>4
  <2> QED
    BY <2>3, <2>5
<1> DEFINE b == z * c
<1>13. b \in Nat
  BY <1>2, <1>9, MulNat
<1>14. b * n <= n * n
  <2>1. b * n \in Nat /\ n * n \in Nat
    BY <1>1, <1>13, MulNat
  <2> QED
    BY <1>10, <1>11, <1>12, <2>1
<1> HIDE DEF b, n
<1>15. b <= n
  BY <1>1, <1>13, <1>14, AtMostByFactor
<1> QED
  BY <1>8, <1>9, <1>15 DEF b, n

\* a term of the series is at most its predecessor times the argument
LEMMA TaylorTermUnder ==
  ASSUME NEW t \in Nat, NEW u \in Nat, NEW i \in 1 .. 5
  PROVE  TaylorTerm(t, i, u) \in Nat /\ TaylorTerm(t, i, u) * NAD <= t * u
<1> DEFINE w == t * u
           k == i * NAD
<1>1. NAD \in Nat \ {0} /\ w \in Nat /\ k \in Nat \ {0} /\ NAD <= k
  BY ScaleAssumption, MulNat, SMT
<1>2. TaylorTerm(t, i, u) = IF MulFits(t, u) THEN w \div k ELSE 0
  BY DEF TaylorTerm
<1> HIDE DEF w, k
<1> DEFINE z == w \div k
<1>3. z \in Nat /\ k * z <= w
  BY <1>1, DivFloor
<1> HIDE DEF z
<1>4. NAD * z <= k * z /\ NAD * z \in Nat /\ k * z \in Nat /\ NAD * z = z * NAD
  BY <1>1, <1>3, MulMonotone, MulNat
<1>5. z * NAD <= w /\ 0 * NAD <= w
  BY <1>1, <1>3, <1>4
<1>6. TaylorTerm(t, i, u) \in Nat /\ TaylorTerm(t, i, u) * NAD <= w
  BY <1>2, <1>3, <1>5 DEF z
<1> QED
  BY <1>6 DEF w

\* the series is at most the reciprocal of one less its argument
LEMMA TaylorSumUnder ==
  ASSUME NEW u \in Nat, u <= NAD
  PROVE  TaylorSum(u) \in Nat /\ TaylorSum(u) * (NAD - u) <= NAD * NAD
<1> DEFINE t1 == TaylorTerm(NAD, 1, u)
           t2 == TaylorTerm(t1, 2, u)
           t3 == TaylorTerm(t2, 3, u)
           t4 == TaylorTerm(t3, 4, u)
           t5 == TaylorTerm(t4, 5, u)
           s  == TaylorSum(u)
<1>1. NAD \in Nat /\ \A i \in {1, 2, 3, 4, 5} : i \in 1 .. 5
  BY ScaleAssumption
<1>2. s = NAD + t1 + t2 + t3 + t4 + t5
  BY DEF TaylorSum
<1>3. t1 \in Nat /\ t1 * NAD <= NAD * u
  BY <1>1, TaylorTermUnder
<1>4. t2 \in Nat /\ t2 * NAD <= t1 * u
  <2> HIDE DEF t1
  <2> QED
    BY <1>1, <1>3, TaylorTermUnder
<1>5. t3 \in Nat /\ t3 * NAD <= t2 * u
  <2> HIDE DEF t2
  <2> QED
    BY <1>1, <1>4, TaylorTermUnder
<1>6. t4 \in Nat /\ t4 * NAD <= t3 * u
  <2> HIDE DEF t3
  <2> QED
    BY <1>1, <1>5, TaylorTermUnder
<1>7. t5 \in Nat /\ t5 * NAD <= t4 * u
  <2> HIDE DEF t4
  <2> QED
    BY <1>1, <1>6, TaylorTermUnder
<1> HIDE DEF t1, t2, t3, t4, t5, s
<1>8. s \in Nat
  BY <1>1, <1>2, <1>3, <1>4, <1>5, <1>6, <1>7
<1>9. s * NAD = NAD * NAD + t1 * NAD + t2 * NAD + t3 * NAD + t4 * NAD + t5 * NAD
  BY <1>1, <1>2, <1>3, <1>4, <1>5, <1>6, <1>7
<1>10. s * u = NAD * u + t1 * u + t2 * u + t3 * u + t4 * u + t5 * u
  BY <1>1, <1>2, <1>3, <1>4, <1>5, <1>6, <1>7
<1>11. /\ NAD * NAD \in Nat /\ t5 * u \in Nat /\ s * u \in Nat /\ s * NAD \in Nat
       /\ t1 * NAD \in Nat /\ t2 * NAD \in Nat /\ t3 * NAD \in Nat /\ t4 * NAD \in Nat
       /\ t5 * NAD \in Nat
       /\ NAD * u \in Nat /\ t1 * u \in Nat /\ t2 * u \in Nat /\ t3 * u \in Nat /\ t4 * u \in Nat
  BY <1>1, <1>3, <1>4, <1>5, <1>6, <1>7, <1>8, MulNat
<1>12. s * NAD - s * u <= NAD * NAD
  BY <1>3, <1>4, <1>5, <1>6, <1>7, <1>9, <1>10, <1>11
<1>13. s * (NAD - u) = s * NAD - s * u
  BY <1>1, <1>8
<1> QED
  BY <1>8, <1>12, <1>13 DEF s

\* the tenth power of such a number is at most the reciprocal of one less ten
\* times u
LEMMA TenthPowerUnder ==
  ASSUME NEW s \in Nat, NEW u \in Nat, 10 * u <= NAD, s * (NAD - u) <= NAD * NAD
  PROVE  TenthPower(s) \in Nat /\ TenthPower(s) * (NAD - 10 * u) <= NAD * NAD
<1> DEFINE f(r) == ScaledMul(ScaledMul(r, s), s)
           Under(r, a) == r \in Nat /\ a \in Nat /\ r * (NAD - a) <= NAD * NAD
<1>1. NAD \in Nat
  BY ScaleAssumption
<1>2. \A r, a : Under(r, a) /\ a <= 8 * u => Under(f(r), a + 2 * u)
  <2> TAKE r, a
  <2> HAVE Under(r, a) /\ a <= 8 * u
  <2> DEFINE z == ScaledMul(r, s)
             b == a + u
  <2>1. z \in Nat /\ z * (NAD - b) <= NAD * NAD
    <3>1. 10 * a <= 9 * NAD
      BY <1>1
    <3> QED
      BY <3>1, ScaledMulUnder
  <2>2. b \in Nat /\ 10 * b <= 9 * NAD
    BY <1>1
  <2> HIDE DEF z, b
  <2>3. ScaledMul(z, s) \in Nat /\ ScaledMul(z, s) * (NAD - (b + u)) <= NAD * NAD
    BY <2>1, <2>2, ScaledMulUnder
  <2>4. b + u = a + 2 * u
    BY DEF b
  <2> QED
    BY <2>3, <2>4 DEF z
<1>3. TenthPower(s) = f(f(f(f(f(NAD)))))
  BY DEF TenthPower
<1>4. Under(NAD, 0)
  BY <1>1
<1>5. Under(TenthPower(s), 10 * u) =>
        TenthPower(s) \in Nat /\ TenthPower(s) * (NAD - 10 * u) <= NAD * NAD
  OBVIOUS
<1>6. /\ 0 + 2 * u = 2 * u /\ 2 * u + 2 * u = 4 * u /\ 4 * u + 2 * u = 6 * u
      /\ 6 * u + 2 * u = 8 * u /\ 8 * u + 2 * u = 10 * u
      /\ 0 <= 8 * u /\ 2 * u <= 8 * u /\ 4 * u <= 8 * u /\ 6 * u <= 8 * u /\ 8 * u <= 8 * u
  OBVIOUS
<1> HIDE DEF f, Under
<1>7. Under(f(NAD), 2 * u)
  BY <1>2, <1>4, <1>6
<1>8. Under(f(f(NAD)), 4 * u)
  BY <1>2, <1>6, <1>7
<1>9. Under(f(f(f(NAD))), 6 * u)
  BY <1>2, <1>6, <1>8
<1>10. Under(f(f(f(f(NAD)))), 8 * u)
  BY <1>2, <1>6, <1>9
<1>11. Under(f(f(f(f(f(NAD))))), 10 * u)
  BY <1>2, <1>6, <1>10
<1> QED
  BY <1>3, <1>5, <1>11

\* e^-x, between these bounds
LEMMA ExpOfMinusBetween ==
  ASSUME NEW x \in Nat, x > 0, NAD * x <= MaxU128
  PROVE  LET e == ExpOfMinus(x)
         IN  /\ e \in Nat /\ e <= NAD
             /\ \E w \in Nat : /\ w <= x /\ x <= w + 9
                               /\ e * (NAD + w) <= NAD * NAD
                               /\ NAD <= e + w
<1> DEFINE u == x \div 10
           w == 10 * u
           s == TaylorSum(u)
           t == TenthPower(s)
           d == (NAD * NAD) \div t
           n == NAD * NAD
<1>1. NAD \in Nat \ {0} /\ NAD >= 1000 /\ MaxU128 \in Nat /\ n \in Nat /\ 100 * n <= MaxU128
      /\ MaxU64 \in Nat
      /\ NAD <= MaxU64
  BY ScaleAssumption, WidthAssumption, ScaleWithinWidth, LnTwoAssumption
<1>2. u \in Nat /\ w \in Nat /\ w <= x /\ x <= w + 9
  BY DivFloor
<1> HIDE DEF u
<1>3. MulFits(NAD, u) /\ NAD + 10 * u <= MaxU128
  <2>1. NAD * u \in Nat /\ NAD * u <= NAD * x /\ NAD * x \in Nat
    <3>1. u * NAD <= x * NAD
      BY <1>1, <1>2, MulMonotone
    <3> QED
      BY <1>1, <1>2, <3>1, MulNat
  <2>2. NAD * u <= MaxU128
    BY <1>1, <2>1
  <2>3. NAD + x <= MaxU128
    <3>1. 1000 * x <= NAD * x
      BY <1>1, MulMonotone
    <3>2. 1000 * NAD <= n
      BY <1>1, MulMonotone
    <3> HIDE DEF n
    <3> QED
      BY <1>1, <2>1, <3>1, <3>2
  <2> QED
    BY <1>1, <1>2, <2>1, <2>2, <2>3, FitsByBound
<1>4. s \in Nat /\ s >= NAD + u
  BY <1>2, <1>3, TaylorSumAtLeast
<1>5. 10 * u <= NAD => s * (NAD - u) <= NAD * NAD
  <2> SUFFICES ASSUME 10 * u <= NAD PROVE s * (NAD - u) <= NAD * NAD
    OBVIOUS
  <2>1. u <= NAD
    BY <1>1, <1>2
  <2> QED
    BY <1>2, <2>1, TaylorSumUnder
<1> HIDE DEF s
<1>6. t \in Nat /\ t >= NAD + w
  BY <1>2, <1>3, <1>4, TenthPowerAbove
<1>7. w <= NAD => t * (NAD - w) <= n
  BY <1>2, <1>4, <1>5, TenthPowerUnder
<1> HIDE DEF t, w, n
<1>8. d \in Nat /\ t * d <= n
  <2>1. t \in Nat \ {0}
    BY <1>1, <1>2, <1>6
  <2>2. n \div t \in Nat /\ t * (n \div t) <= n
    BY <1>1, <2>1, DivFloor
  <2> QED
    BY <2>2 DEF n
<1>9. d * (NAD + w) <= n
  <2>1. (NAD + w) * d <= t * d
    BY <1>1, <1>2, <1>6, <1>8, MulMonotone
  <2>2. d * (NAD + w) = (NAD + w) * d /\ (NAD + w) * d \in Nat /\ t * d \in Nat
    BY <1>1, <1>2, <1>6, <1>8, MulNat
  <2> HIDE DEF d
  <2> QED
    BY <1>1, <1>8, <2>1, <2>2
<1>10. NAD <= d + w
  <2>1. CASE NAD <= w
    BY <1>1, <1>2, <1>8, <2>1
  <2>2. CASE w <= NAD
    <3> DEFINE q == NAD - w
    <3>1. q \in Nat /\ q * t <= n /\ t \in Nat \ {0}
      BY <1>1, <1>2, <1>6, <1>7, <2>2
    <3> HIDE DEF q
    <3>2. n \div t >= q
      BY <1>1, <3>1, DivAtLeast
    <3>3. d >= q
      BY <3>2 DEF n
    <3> QED
      BY <1>1, <1>2, <1>8, <2>2, <3>3 DEF q
  <2> QED
    BY <1>1, <1>2, <2>1, <2>2
<1>11. ExpOfMinus(x) = CastU64(d)
  BY DEF ExpOfMinus, u, s, t
<1>12. ExpOfMinus(x) \in Nat /\ ExpOfMinus(x) <= NAD
  BY <1>1, ExpOfMinusAtMostOne
<1>13. CastU64(d) = d
  <2>1. d <= NAD
    <3>1. d * NAD <= d * (NAD + w)
      <4>1. NAD * d <= (NAD + w) * d
        BY <1>1, <1>2, <1>8, MulMonotone
      <4> HIDE DEF d
      <4> QED
        BY <1>1, <1>2, <1>8, <4>1
    <3>2. d * NAD <= NAD * NAD
      <4>1. d * NAD \in Nat /\ d * (NAD + w) \in Nat
        BY <1>1, <1>2, <1>8, MulNat
      <4> HIDE DEF d
      <4> QED
        BY <1>1, <1>9, <3>1, <4>1 DEF n
    <3> HIDE DEF d
    <3> QED
      BY <1>1, <1>8, <3>2, AtMostByFactor
  <2> HIDE DEF d
  <2> QED
    BY <1>1, <1>8, <2>1 DEF CastU64
<1>14. ExpOfMinus(x) = d
  BY <1>11, <1>13
<1> QED
  BY <1>2, <1>9, <1>10, <1>12, <1>14 DEF n

\* a rate grown by such a factor: what it moved by, scaled
LEMMA GrowsBetween ==
  ASSUME NEW last \in Nat, NEW g \in Nat \ {0}, NEW w \in Nat,
         g * (NAD + w) <= NAD * NAD, NAD <= g + w, g <= NAD
  PROVE  LET up == (last * NAD) \div g
         IN  /\ up \in Nat /\ last <= up
             /\ last * w < (up - last) * NAD + NAD
             /\ (up - last) * NAD <= up * w
<1> DEFINE v == last * NAD
           up == v \div g
           n == NAD * NAD
<1>1. NAD \in Nat \ {0} /\ v \in Nat /\ n \in Nat \ {0}
  BY ScaleAssumption, ScaleWithinWidth, MulNat
<1> HIDE DEF v
<1>2. up \in Nat /\ g * up <= v /\ v < g * up + g
  BY <1>1, DivFloor
<1>3. last <= up
  <2>1. last * g <= v
    <3>1. g * last <= NAD * last
      BY <1>1, MulMonotone
    <3> QED
      BY <1>1, <3>1 DEF v
  <2> QED
    BY <1>1, <2>1, DivAtLeast
<1> HIDE DEF up
<1>4. (up - last) * NAD <= up * w
  <2>1. NAD * up <= (g + w) * up
    BY <1>1, <1>2, MulMonotone
  <2>2. (g + w) * up = g * up + up * w /\ g * up \in Nat /\ up * w \in Nat /\ NAD * up \in Nat
    BY <1>1, <1>2, MulNat
  <2>3. (up - last) * NAD = NAD * up - v
    BY <1>1, <1>2 DEF v
  <2> QED
    BY <1>1, <1>2, <2>1, <2>2, <2>3
<1>5. last * w < (up - last) * NAD + NAD
  <2> DEFINE p == NAD + w
             a == (up - last) * NAD + NAD
             b == last * w
  <2>1. p \in Nat \ {0} /\ b \in Nat /\ a \in Nat
    <3>1. up - last \in Nat
      BY <1>2, <1>3
    <3> QED
      BY <1>1, <3>1, MulNat
  <2>2. v * p < (g * up + g) * p
    <3>1. v + 1 <= g * up + g /\ g * up + g \in Nat /\ v + 1 \in Nat
      BY <1>1, <1>2, MulNat
    <3>2. (v + 1) * p <= (g * up + g) * p
      BY <2>1, <3>1, MulMonotone
    <3>3. (v + 1) * p = v * p + p /\ v * p \in Nat /\ (g * up + g) * p \in Nat
      BY <1>1, <2>1, <3>1, MulNat
    <3> HIDE DEF p
    <3> QED
      BY <2>1, <3>2, <3>3
  <2>3. (g * up + g) * p <= (up + 1) * n
    <3> DEFINE k == g * p
    <3>1. k \in Nat /\ k <= n
      BY <1>1, <2>1, MulNat
    <3>2. (g * up + g) * p = (up + 1) * k
      BY <1>2, <2>1
    <3> HIDE DEF k, n, p
    <3>3. k * (up + 1) <= n * (up + 1)
      BY <1>1, <1>2, <3>1, MulMonotone
    <3> QED
      BY <1>1, <1>2, <3>1, <3>2, <3>3
  <2>4. v * p = last * n + b * NAD
    BY <1>1 DEF v
  <2>5. (up + 1) * n = last * n + a * NAD
    BY <1>1, <1>2
  <2>6. v * p < (up + 1) * n
    <3>1. v * p \in Nat /\ (g * up + g) * p \in Nat /\ (up + 1) * n \in Nat
      BY <1>1, <1>2, <2>1, MulNat
    <3> HIDE DEF p, n
    <3> QED
      BY <2>2, <2>3, <3>1
  <2>7. b * NAD < a * NAD
    <3>1. last * n \in Nat /\ b * NAD \in Nat /\ a * NAD \in Nat
      BY <1>1, <2>1, MulNat
    <3> HIDE DEF a, b, p, n
    <3> QED
      BY <2>4, <2>5, <2>6, <3>1
  <2> HIDE DEF a, b
  <2>8. b < a
    BY <1>1, <2>1, <2>7, LessByFactor
  <2> QED
    BY <2>8 DEF a, b
<1> QED
  BY <1>2, <1>3, <1>4, <1>5 DEF up, v

\* a rate decayed by it
LEMMA FallsBetween ==
  ASSUME NEW last \in Nat, NEW d \in Nat, NEW w \in Nat,
         d * (NAD + w) <= NAD * NAD, NAD <= d + w, d <= NAD
  PROVE  LET down == (last * d) \div NAD
         IN  /\ down \in Nat /\ down <= last
             /\ down * w <= (last - down) * NAD
             /\ (last - down) * NAD < last * w + NAD
<1> DEFINE v == last * d
           down == v \div NAD
           n == NAD * NAD
<1>1. NAD \in Nat \ {0} /\ v \in Nat /\ n \in Nat \ {0}
  BY ScaleAssumption, ScaleWithinWidth, MulNat
<1> HIDE DEF v
<1>2. down \in Nat /\ NAD * down <= v /\ v < NAD * down + NAD
  BY <1>1, DivFloor
<1>3. down <= last
  <2>1. v < last * NAD + NAD
    <3>1. d * last <= NAD * last /\ last * NAD \in Nat
      BY <1>1, MulMonotone, MulNat
    <3> QED
      BY <1>1, <3>1 DEF v
  <2> QED
    BY <1>1, <2>1, DivAtMost
<1> HIDE DEF down
<1>4. (last - down) * NAD < last * w + NAD
  <2>1. NAD * last <= (d + w) * last
    BY <1>1, MulMonotone
  <2>2. (d + w) * last = v + last * w /\ last * w \in Nat /\ NAD * last \in Nat
        /\ NAD * down \in Nat
    BY <1>1, <1>2, MulNat DEF v
  <2>3. (last - down) * NAD = NAD * last - NAD * down
    BY <1>1, <1>2
  <2> QED
    BY <1>1, <1>2, <2>1, <2>2, <2>3
<1>5. down * w <= (last - down) * NAD
  <2> DEFINE p == NAD + w
             a == down * p
             b == last * NAD
  <2>1. p \in Nat /\ a \in Nat /\ b \in Nat
    BY <1>1, <1>2, MulNat
  <2>2. a * NAD <= b * NAD
    <3>1. (NAD * down) * p <= v * p
      BY <1>1, <1>2, <2>1, MulNat, MulMonotone
    <3>2. v * p <= last * n
      <4> DEFINE k == d * p
      <4>1. k \in Nat /\ k <= n
        BY <2>1, MulNat
      <4>2. v * p = last * k
        BY <2>1 DEF v
      <4> HIDE DEF k, n, p
      <4>3. k * last <= n * last
        BY <1>1, <4>1, MulMonotone
      <4> QED
        BY <1>1, <4>1, <4>2, <4>3
    <3>3. a * NAD = (NAD * down) * p /\ b * NAD = last * n
      BY <1>1, <1>2, <2>1
    <3>4. v * p \in Nat /\ (NAD * down) * p \in Nat /\ last * n \in Nat
      BY <1>1, <1>2, <2>1, MulNat
    <3> HIDE DEF a, b, p, n
    <3> QED
      BY <3>1, <3>2, <3>3, <3>4
  <2>3. a <= b
    <3> HIDE DEF a, b
    <3> QED
      BY <1>1, <2>1, <2>2, AtMostByFactor
  <2>4. a = down * NAD + down * w /\ (last - down) * NAD = b - down * NAD
    BY <1>1, <1>2
  <2>5. down * NAD \in Nat /\ down * w \in Nat
    BY <1>1, <1>2, MulNat
  <2> HIDE DEF a, b
  <2> QED
    BY <2>1, <2>3, <2>4, <2>5
<1> QED
  BY <1>2, <1>3, <1>4, <1>5 DEF down, v

----------------------------------------------------------------------------
(* ln_nad lies between one less the reciprocal of its argument and the      *)
(* argument less one.                                                       *)

\* what the halving leaves of a ratio: a number in [NAD, 2 NAD), and at least
\* one more for every time it halved
LEMMA HalvingLeaves ==
  ASSUME NEW x \in Nat, NEW h, IsHalving(h, 0 .. x)
  PROVE  \A q \in 0 .. x : q >= NAD =>
           LET z == h[q].z
               k == h[q].halvings
           IN  /\ z \in Nat /\ k \in Nat /\ NAD <= z /\ z < 2 * NAD
               /\ z + k * NAD <= q
               /\ k = 0 => q = z
               /\ k = 1 => q <= 2 * z + 1 /\ 2 * z <= q
<1> DEFINE Left(q, z, k) ==
             /\ z \in Nat /\ k \in Nat /\ NAD <= z /\ z < 2 * NAD
             /\ z + k * NAD <= q
             /\ k = 0 => q = z
             /\ k = 1 => q <= 2 * z + 1 /\ 2 * z <= q
           N == {n \in Nat : \A q \in 0 .. x :
                   NAD <= q /\ q <= n => Left(q, h[q].z, h[q].halvings)}
<1>1. NAD \in Nat \ {0}
  BY ScaleAssumption
<1>2. \A q \in 0 .. x :
        h[q] = IF q >= 2 * NAD THEN [h[q \div 2] EXCEPT !.halvings = @ + 1]
               ELSE [z |-> q, halvings |-> 0]
  BY Zenon DEF IsHalving
<1>3. 0 \in N
  BY <1>1
<1>4. ASSUME NEW n \in Nat, n \in N
      PROVE  n + 1 \in N
  <2>1. ASSUME NEW q \in 0 .. x, NAD <= q, q <= n + 1 PROVE Left(q, h[q].z, h[q].halvings)
    <3>1. CASE q >= 2 * NAD
      <4> DEFINE p == q \div 2
      <4>1. p \in 0 .. n /\ p \in 0 .. x /\ 2 * p <= q /\ q <= 2 * p + 1 /\ NAD <= p
        <5>1. q \in 0 .. n + 1 /\ q \in 0 .. x + 1
          BY <2>1
        <5>2. p \in 0 .. n /\ p \in 0 .. x
          BY <3>1, <5>1, HalfIsLess
        <5>3. q \in Nat /\ 2 * p <= q /\ q <= 2 * p + 1
          BY <2>1
        <5> HIDE DEF p
        <5> QED
          BY <1>1, <3>1, <5>2, <5>3
      <4>2. h[q] = [h[p] EXCEPT !.halvings = @ + 1]
        BY <1>2, <3>1
      <4>3. h[p].z \in Nat /\ h[p].halvings \in Nat
        BY <4>1, HalvingTyped
      <4>4. Left(p, h[p].z, h[p].halvings)
        BY <1>4, <4>1
      <4> HIDE DEF p
      <4>5. h[p] = IF p >= 2 * NAD THEN [h[p \div 2] EXCEPT !.halvings = @ + 1]
                   ELSE [z |-> p, halvings |-> 0]
        BY <1>2, <4>1
      <4>6. h[q].z = h[p].z /\ h[q].halvings = h[p].halvings + 1
        <5>1. CASE p >= 2 * NAD
          <6>1. p \div 2 \in 0 .. x
            BY <4>1, <5>1, <1>1
          <6> DEFINE g == h[p \div 2]
          <6>2. g = IF p \div 2 >= 2 * NAD THEN [h[(p \div 2) \div 2] EXCEPT !.halvings = @ + 1]
                    ELSE [z |-> p \div 2, halvings |-> 0]
            BY <1>2, <6>1
          <6> QED
            BY <4>2, <4>5, <5>1
        <5>2. CASE ~(p >= 2 * NAD)
          BY <4>2, <4>5, <5>2
        <5> QED
          BY <5>1, <5>2
      <4> DEFINE z == h[p].z
                 k == h[p].halvings
      <4>7. Left(p, z, k) /\ z \in Nat /\ k \in Nat
        BY <4>3, <4>4
      <4> HIDE DEF z, k
      <4>8. Left(q, z, k + 1)
        <5>1. (k + 1) * NAD = k * NAD + NAD /\ k * NAD \in Nat
          BY <1>1, <4>7, MulNat
        <5>2. q \in Nat /\ p \in Nat
          BY <4>1
        <5>3. z + (k + 1) * NAD <= q
          BY <1>1, <4>1, <4>7, <5>1, <5>2
        <5>4. k + 1 = 1 => p = z
          BY <4>7
        <5> QED
          BY <4>1, <4>7, <5>2, <5>3, <5>4
      <4> QED
        BY <4>6, <4>8 DEF z, k
    <3>2. CASE ~(q >= 2 * NAD)
      <4>1. h[q] = [z |-> q, halvings |-> 0]
        BY <1>2, <3>2, Zenon
      <4>2. q \in Nat /\ q < 2 * NAD
        BY <1>1, <3>2
      <4>3. Left(q, q, 0)
        BY <1>1, <2>1, <4>2
      <4> QED
        BY <4>1, <4>3
    <3> QED
      BY <3>1, <3>2
  <2> QED
    BY <2>1
<1>5. Nat \subseteq N
  <2> HIDE DEF N
  <2> QED
    BY <1>3, <1>4, Induction
<1>6. \A q \in 0 .. x : q >= NAD => Left(q, h[q].z, h[q].halvings)
  BY <1>5
<1> QED
  BY <1>6

\* the terms of the tanh series of such a number
LEMMA TanhSeriesBetween ==
  ASSUME NEW z \in Nat, NAD <= z
  PROVE  LET v  == ((z - NAD) * NAD) \div (z + NAD)
             v2 == (v * v) \div NAD
             v3 == (v2 * v) \div NAD
             v5 == (v3 * v2) \div NAD
             v7 == (v5 * v2) \div NAD
             v9 == (v7 * v2) \div NAD
             series == 2 * (v + v3 \div 3 + v5 \div 5 + v7 \div 7 + v9 \div 9)
         IN  /\ v \in Nat
             /\ (z - NAD) * NAD < v * (z + NAD) + (z + NAD)
             /\ series \in Nat /\ 2 * v <= series /\ series <= z - NAD
<1> DEFINE a  == (z - NAD) * NAD
           b  == z + NAD
           v  == a \div b
           v2 == (v * v) \div NAD
           v3 == (v2 * v) \div NAD
           v5 == (v3 * v2) \div NAD
           v7 == (v5 * v2) \div NAD
           v9 == (v7 * v2) \div NAD
           series == 2 * (v + v3 \div 3 + v5 \div 5 + v7 \div 7 + v9 \div 9)
           all == v + v3 + v5 + v7 + v9
<1>1. NAD \in Nat \ {0} /\ a \in Nat /\ b \in Nat \ {0}
  <2>1. z - NAD \in Nat /\ NAD \in Nat \ {0}
    BY ScaleAssumption
  <2> QED
    BY <2>1, MulNat
<1>2. v \in Nat /\ b * v <= a /\ a < b * v + b
  <2> HIDE DEF a, b
  <2> QED
    BY <1>1, DivFloor
<1> HIDE DEF v
<1>3. v < NAD
  <2>1. b * v < b * NAD
    <3>1. b * NAD = a + 2 * (NAD * NAD) /\ NAD * NAD \in Nat \ {0}
      BY <1>1, ScaleWithinWidth
    <3>2. b * v \in Nat
      BY <1>1, <1>2, MulNat
    <3> HIDE DEF a, b
    <3> QED
      BY <1>1, <1>2, <3>1, <3>2
  <2>2. v * b < NAD * b
    BY <1>1, <1>2, <2>1
  <2> HIDE DEF b
  <2> QED
    BY <1>1, <1>2, <2>2, LessByFactor
<1>4. \A p, q \in Nat : LET f == (p * q) \div NAD IN f \in Nat /\ f * NAD <= p * q
  <2> TAKE p, q \in Nat
  <2> DEFINE c == p * q
  <2>1. c \in Nat
    BY MulNat
  <2> HIDE DEF c
  <2>2. c \div NAD \in Nat /\ NAD * (c \div NAD) <= c
    BY <1>1, <2>1, DivFloor
  <2> QED
    BY <1>1, <2>2 DEF c
<1>5. v2 \in Nat /\ v2 * NAD <= v * v
  BY <1>2, <1>4
<1> HIDE DEF v2
<1>6. v2 <= v
  <2>1. v * v <= NAD * v
    BY <1>1, <1>2, <1>3, MulMonotone
  <2>2. v2 * NAD <= v * NAD
    BY <1>1, <1>2, <1>5, <2>1, MulNat
  <2> QED
    BY <1>1, <1>2, <1>5, <2>2, AtMostByFactor
<1>7. \A p \in Nat : p * v2 <= p * v
  <2> TAKE p \in Nat
  <2>1. v2 * p <= v * p
    BY <1>2, <1>5, <1>6, MulMonotone
  <2> QED
    BY <1>2, <1>5, <2>1
<1>8. v3 \in Nat /\ v3 * NAD <= v * v
  <2>1. v3 \in Nat /\ v3 * NAD <= v2 * v
    BY <1>2, <1>4, <1>5
  <2>2. v2 * v = v * v2 /\ v * v2 <= v * v /\ v * v2 \in Nat /\ v * v \in Nat
    BY <1>2, <1>5, <1>7, MulNat
  <2>3. v3 * NAD \in Nat
    BY <1>1, <2>1, MulNat
  <2> QED
    BY <2>1, <2>2, <2>3
<1> HIDE DEF v3
<1>9. \A p, f \in Nat : f * NAD <= p * v2 => f * NAD <= p * v
  <2> TAKE p, f \in Nat
  <2>1. p * v2 <= p * v /\ p * v2 \in Nat /\ p * v \in Nat /\ f * NAD \in Nat
    BY <1>1, <1>2, <1>5, <1>7, MulNat
  <2> QED
    BY <2>1
<1>10. v5 \in Nat /\ v5 * NAD <= v3 * v
  BY <1>4, <1>5, <1>8, <1>9
<1> HIDE DEF v5
<1>11. v7 \in Nat /\ v7 * NAD <= v5 * v
  BY <1>4, <1>5, <1>10, <1>9
<1> HIDE DEF v7
<1>12. v9 \in Nat /\ v9 * NAD <= v7 * v
  BY <1>4, <1>5, <1>11, <1>9
<1> HIDE DEF v9
<1>13. series \in Nat /\ 2 * v <= series /\ series <= 2 * all /\ all \in Nat
  <2>1. \A p \in Nat : /\ p \div 3 \in Nat /\ p \div 3 <= p /\ p \div 5 \in Nat /\ p \div 5 <= p
                       /\ p \div 7 \in Nat /\ p \div 7 <= p /\ p \div 9 \in Nat /\ p \div 9 <= p
    OBVIOUS
  <2> QED
    BY <1>2, <1>8, <1>10, <1>11, <1>12, <2>1
<1> HIDE DEF series
<1>14. all * (NAD - v) <= v * NAD
  <2>1. all * NAD = v * NAD + v3 * NAD + v5 * NAD + v7 * NAD + v9 * NAD
    BY <1>1, <1>2, <1>8, <1>10, <1>11, <1>12
  <2>2. all * v = v * v + v3 * v + v5 * v + v7 * v + v9 * v
    BY <1>2, <1>8, <1>10, <1>11, <1>12
  <2>3. /\ v * NAD \in Nat /\ v3 * NAD \in Nat /\ v5 * NAD \in Nat /\ v7 * NAD \in Nat
        /\ v9 * NAD \in Nat
        /\ v * v \in Nat /\ v3 * v \in Nat /\ v5 * v \in Nat /\ v7 * v \in Nat /\ v9 * v \in Nat
    BY <1>1, <1>2, <1>8, <1>10, <1>11, <1>12, MulNat
  <2>4. all * (NAD - v) = all * NAD - all * v
    BY <1>1, <1>2, <1>13
  <2>5. all * NAD \in Nat /\ all * v \in Nat
    BY <1>1, <1>2, <1>13, MulNat
  <2> HIDE DEF all
  <2> QED
    BY <1>8, <1>10, <1>11, <1>12, <2>1, <2>2, <2>3, <2>4, <2>5
<1> HIDE DEF all
<1>15. 2 * all <= z - NAD
  <2> DEFINE c == NAD - v
             d == z - NAD
             e == 2 * all
  <2>1. c \in Nat \ {0} /\ d \in Nat /\ e \in Nat
    BY <1>1, <1>2, <1>3, <1>13
  <2>2. (2 * v) * NAD <= d * c
    <3>1. b * v = z * v + NAD * v /\ a = z * NAD - NAD * NAD
      BY <1>1, <1>2
    <3>2. d * c = z * NAD - NAD * NAD - z * v + NAD * v
      BY <1>1, <1>2
    <3>3. (2 * v) * NAD = 2 * (NAD * v)
      BY <1>1, <1>2
    <3>4. z * v \in Nat /\ NAD * v \in Nat /\ z * NAD \in Nat /\ NAD * NAD \in Nat
      BY <1>1, <1>2, MulNat
    <3> QED
      BY <1>2, <3>1, <3>2, <3>3, <3>4
  <2>3. e * c <= (2 * v) * NAD
    <3>1. e * c = 2 * (all * c) /\ (2 * v) * NAD = 2 * (v * NAD)
      BY <1>1, <1>2, <1>13, <2>1
    <3>2. all * c \in Nat /\ v * NAD \in Nat
      BY <1>1, <1>2, <1>13, <2>1, MulNat
    <3> QED
      BY <1>14, <3>1, <3>2
  <2>4. e * c <= d * c
    <3>1. e * c \in Nat /\ d * c \in Nat /\ (2 * v) * NAD \in Nat
      BY <1>1, <1>2, <2>1, MulNat
    <3> HIDE DEF c, d, e
    <3> QED
      BY <2>2, <2>3, <3>1
  <2> HIDE DEF c, d, e
  <2>5. e <= d
    BY <2>1, <2>4, AtMostByFactor
  <2> QED
    BY <2>5 DEF e, d
<1>16. series <= z - NAD
  BY <1>1, <1>13, <1>15
<1>17. v * b = b * v
  BY <1>1, <1>2
<1> QED
  BY <1>2, <1>13, <1>16, <1>17 DEF series, v9, v7, v5, v3, v2, v, all

\* the bounds of ln_nad
LEMMA LnNadBetween ==
  ASSUME NEW q \in Nat, NAD <= q
  PROVE  /\ LnNad(q) \in Nat
         /\ LnNad(q) <= q - NAD
         /\ NAD * q <= q * LnNad(q) + 2 * q + NAD * NAD
         /\ q >= 4 * NAD => LnNad(q) >= NAD
<1> DEFINE h == CHOOSE f : IsHalving(f, 0 .. q)
           z  == h[q].z
           k  == h[q].halvings
           v  == ((z - NAD) * NAD) \div (z + NAD)
           v2 == (v * v) \div NAD
           v3 == (v2 * v) \div NAD
           v5 == (v3 * v2) \div NAD
           v7 == (v5 * v2) \div NAD
           v9 == (v7 * v2) \div NAD
           s  == 2 * (v + v3 \div 3 + v5 \div 5 + v7 \div 7 + v9 \div 9)
           l  == NATURAL_LOG_OF_TWO_NAD
           n  == NAD * NAD
<1>1. IsHalving(h, 0 .. q)
  <2>1. \E f : IsHalving(f, 0 .. q)
    BY HalvingExists
  <2> QED
    BY <2>1, Zenon
<1>2. LnNad(q) = s + k * l
  BY DEF LnNad, IsHalving
<1> HIDE DEF h
<1>3. /\ NAD \in Nat \ {0} /\ NAD >= 1000 /\ l \in Nat /\ n \in Nat \ {0}
      /\ 693 * NAD <= 1000 * l /\ 1000 * l <= 694 * NAD
  BY ScaleAssumption, LnTwoAssumption, ScaleWithinWidth, SMT
<1>4. /\ z \in Nat /\ k \in Nat /\ NAD <= z /\ z < 2 * NAD
      /\ z + k * NAD <= q
      /\ k = 0 => q = z
      /\ k = 1 => q <= 2 * z + 1 /\ 2 * z <= q
  <2>1. q \in 0 .. q /\ q >= NAD
    BY <1>3
  <2> QED
    BY <1>1, <2>1, HalvingLeaves
<1> HIDE DEF z, k
<1>5. /\ v \in Nat /\ (z - NAD) * NAD < v * (z + NAD) + (z + NAD)
      /\ s \in Nat /\ 2 * v <= s /\ s <= z - NAD
  BY <1>4, TanhSeriesBetween
<1> HIDE DEF v, s, l, n
<1> DEFINE L == s + k * l
<1>6. k * l \in Nat /\ k * NAD \in Nat /\ k * l <= k * NAD
  <2>1. l <= NAD
    BY <1>3, SMT
  <2>2. l * k <= NAD * k /\ l * k = k * l /\ NAD * k = k * NAD
    BY <1>3, <1>4, <2>1, MulMonotone
  <2> QED
    BY <1>3, <1>4, <2>2, MulNat
<1>7. L \in Nat /\ L <= q - NAD
  BY <1>3, <1>4, <1>5, <1>6
<1>8. k >= 2 => L >= NAD
  <2> SUFFICES ASSUME k >= 2 PROVE L >= NAD
    OBVIOUS
  <2>1. 2 * l <= k * l
    BY <1>3, <1>4, MulMonotone
  <2>2. NAD <= 2 * l
    BY <1>3, SMT
  <2> QED
    BY <1>3, <1>5, <1>6, <2>1, <2>2
<1>9. q >= 4 * NAD => L >= NAD
  <2>1. q >= 4 * NAD => k >= 2
    BY <1>3, <1>4
  <2> QED
    BY <1>8, <2>1
<1>10. n + NAD * z <= 2 * (v * z) + 2 * z + 2 * n
  <2>1. (z - NAD) * NAD = NAD * z - n /\ v * (z + NAD) = v * z + v * NAD
    BY <1>3, <1>4, <1>5 DEF n
  <2>2. v * NAD <= v * z
    <3>1. NAD * v <= z * v
      BY <1>3, <1>4, <1>5, MulMonotone
    <3> QED
      BY <1>3, <1>4, <1>5, <3>1
  <2>3. v * z \in Nat /\ v * NAD \in Nat /\ NAD * z \in Nat
    BY <1>3, <1>4, <1>5, MulNat
  <2> QED
    BY <1>3, <1>4, <1>5, <2>1, <2>2, <2>3
<1>11. NAD * q <= q * L + 2 * q + n
  <2>1. q * L \in Nat /\ NAD * q \in Nat /\ v * z \in Nat /\ NAD * z \in Nat
    BY <1>3, <1>4, <1>5, <1>7, MulNat
  <2>2. CASE k = 0
    <3>1. q = z /\ L = s
      BY <1>3, <1>4, <1>5, <2>2
    <3>2. 2 * (v * z) <= q * L
      <4>1. (2 * v) * z <= s * z
        BY <1>4, <1>5, MulMonotone
      <4>2. (2 * v) * z = 2 * (v * z) /\ s * z = z * s
        BY <1>4, <1>5
      <4> QED
        BY <3>1, <4>1, <4>2
    <3> HIDE DEF L
    <3> QED
      BY <1>3, <1>4, <1>10, <2>1, <3>1, <3>2
  <2>3. CASE k = 1
    <3>1. q <= 2 * z + 1 /\ 2 * z <= q /\ L = s + l
      BY <1>3, <1>4, <1>5, <2>3
    <3>2. q * L = q * s + q * l /\ q * s \in Nat /\ q * l \in Nat
      BY <1>3, <1>5, <3>1, MulNat
    <3>3. 4 * (v * z) <= q * s
      <4>1. (2 * v) * q <= s * q
        BY <1>5, MulMonotone
      <4>2. (2 * z) * (2 * v) <= q * (2 * v)
        BY <1>4, <1>5, <3>1, MulMonotone
      <4>3. (2 * z) * (2 * v) = 4 * (v * z) /\ q * (2 * v) = (2 * v) * q /\ s * q = q * s
        BY <1>4, <1>5
      <4>4. (2 * v) * q \in Nat
        BY <1>5, MulNat
      <4> QED
        BY <2>1, <3>2, <4>1, <4>2, <4>3, <4>4
    <3>4. n + NAD <= q * l
      <4>1. 1386 * n <= 1000 * (q * l)
        <5>1. (693 * NAD) * q <= (1000 * l) * q
          BY <1>3, MulMonotone, SMT
        <5>2. (2 * NAD) * NAD <= q * NAD
          BY <1>3, <1>4, <3>1, MulMonotone
        <5>3. (693 * NAD) * q = 693 * (q * NAD) /\ (1000 * l) * q = 1000 * (q * l)
          BY <1>3, SMT
        <5>4. (2 * NAD) * NAD = 2 * n /\ q * NAD \in Nat
          BY <1>3, MulNat DEF n
        <5> QED
          BY <1>3, <3>2, <5>1, <5>2, <5>3, <5>4, SMT
      <4>2. 1000 * NAD <= n
        BY <1>3, MulMonotone, SMT DEF n
      <4> QED
        BY <1>3, <3>2, <4>1, <4>2, SMT
    <3>5. NAD * q <= 2 * (NAD * z) + NAD
      <4>1. q * NAD <= (2 * z + 1) * NAD
        BY <1>3, <1>4, <3>1, MulMonotone
      <4>2. (2 * z + 1) * NAD = 2 * (NAD * z) + NAD /\ q * NAD = NAD * q
        BY <1>3, <1>4
      <4> QED
        BY <4>1, <4>2
    <3> HIDE DEF L
    <3> QED
      BY <1>3, <1>4, <1>10, <2>1, <3>1, <3>2, <3>3, <3>4, <3>5
  <2>4. CASE k >= 2
    <3>1. NAD * q <= L * q /\ L * q = q * L
      BY <1>3, <1>7, <1>8, <2>4, MulMonotone
    <3> HIDE DEF L
    <3> QED
      BY <1>3, <2>1, <3>1
  <2> QED
    BY <1>4, <2>2, <2>3, <2>4
<1> QED
  BY <1>2, <1>7, <1>9, <1>11 DEF n

\* the time to a limit, from both sides, in the units of the exponential's area
LEMMA TimeToReachBetween ==
  ASSUME NEW low \in Nat \ {0}, NEW high \in U64, low <= high, NEW k \in Nat \ {0}
  PROVE  LET t == TimeToReach(low, high, k)
         IN  /\ t \in Nat
             /\ low * (k * t) <= (high - low) * NAD
             /\ (high - low) * NAD < high * (k * t) + 3 * high + high * k
<1> DEFINE v == high * NAD
           r == v \div low
           q == Lesser(r, MaxU64)
           L == LnNad(q)
           t == L \div k
           n == NAD * NAD
           a == (high - low) * NAD
<1>1. /\ NAD \in Nat \ {0} /\ NAD <= MaxU64 /\ 10 * NAD <= MaxU64 /\ MaxU64 \in Nat
      /\ high \in Nat \ {0} /\ high <= MaxU64 /\ n \in Nat \ {0} /\ v \in Nat
  BY OneInU64, ScaleWithinWidth, MulNat DEF U64
<1>2. SatMul128(high, NAD) = v
  <2>1. MulFits(high, NAD)
    BY OneInU64, ProductInU128
  <2> QED
    BY <2>1 DEF SatMul128
<1>3. TimeToReach(low, high, k) = t
  <2>1. Greater(low, 1) = low
    BY DEF Greater
  <2> QED
    BY <1>2, <2>1 DEF TimeToReach
<1>4. a \in Nat /\ a = v - low * NAD /\ low * NAD \in Nat
  BY <1>1, MulNat
<1> HIDE DEF v, a, n
<1>5. r \in Nat /\ low * r <= v /\ v < low * r + low
  BY <1>1, DivFloor
<1>6. r >= NAD
  <2>1. NAD * low <= v
    <3>1. low * NAD <= high * NAD
      BY <1>1, MulMonotone
    <3> QED
      BY <1>1, <3>1 DEF v
  <2> QED
    BY <1>1, <2>1, DivAtLeast
<1> HIDE DEF r
<1>7. q \in Nat /\ q >= NAD /\ q <= r /\ (q = r \/ q >= 4 * NAD)
  BY <1>1, <1>5, <1>6 DEF Lesser
<1> HIDE DEF q
<1>8. /\ L \in Nat /\ L <= q - NAD
      /\ NAD * q <= q * L + 2 * q + n
      /\ q >= 4 * NAD => L >= NAD
  BY <1>7, LnNadBetween DEF n
<1> HIDE DEF L
<1>9. t \in Nat /\ k * t <= L /\ L < k * t + k
  BY <1>8, DivFloor
<1> HIDE DEF t
<1> DEFINE y == k * t
<1>10. y \in Nat /\ y <= L /\ L < y + k
  BY <1>9, MulNat
<1> HIDE DEF y
<1>11. low * y <= a
  <2>1. low * y <= low * q - low * NAD
    <3>1. y * low <= (q - NAD) * low
      <4>1. q - NAD \in Nat /\ y <= q - NAD
        BY <1>1, <1>7, <1>8, <1>10
      <4> QED
        BY <1>10, <4>1, MulMonotone
    <3>2. (q - NAD) * low = low * q - low * NAD /\ y * low = low * y
      BY <1>1, <1>7, <1>10
    <3> QED
      BY <3>1, <3>2
  <2>2. low * q <= low * r
    <3>1. q * low <= r * low
      BY <1>5, <1>7, MulMonotone
    <3> QED
      BY <1>5, <1>7, <3>1
  <2>3. low * q \in Nat /\ low * r \in Nat /\ low * y \in Nat
    BY <1>5, <1>7, <1>10, MulNat
  <2> QED
    BY <1>1, <1>4, <1>5, <2>1, <2>2, <2>3
<1>12. a <= high * L + 3 * high
  <2>1. high * L \in Nat /\ high * NAD \in Nat
    BY <1>1, <1>8, MulNat
  <2>2. CASE L >= NAD
    <3>1. NAD * high <= L * high
      BY <1>1, <1>8, <2>2, MulMonotone
    <3>2. NAD * high = v /\ L * high = high * L
      BY <1>1, <1>8 DEF v
    <3> QED
      BY <1>1, <1>4, <2>1, <3>1, <3>2
  <2>3. CASE ~(L >= NAD)
    <3>1. q = r /\ v < low * q + low
      BY <1>5, <1>7, <1>8, <2>3
    <3> DEFINE m == NAD - L
               p == low * q
    <3>2. m \in Nat \ {0} /\ m <= NAD /\ p \in Nat
      BY <1>1, <1>7, <1>8, <2>3, MulNat
    <3>3. p * m <= 2 * p + low * n
      <4>1. q * m <= 2 * q + n
        <5>1. q * m = NAD * q - q * L /\ NAD * q \in Nat /\ q * L \in Nat
          BY <1>1, <1>7, <1>8, MulNat
        <5> QED
          BY <1>1, <1>7, <1>8, <5>1
      <4>2. (q * m) * low <= (2 * q + n) * low
        BY <1>1, <1>7, <3>2, <4>1, MulMonotone, MulNat
      <4>3. (q * m) * low = p * m /\ (2 * q + n) * low = 2 * p + low * n
        BY <1>1, <1>7, <3>2
      <4> QED
        BY <4>2, <4>3
    <3> DEFINE b == high * m
               c == 2 * high + low * NAD + low
    <3>4. b * NAD < c * NAD
      <4>1. v * m < p * m + low * m
        <5>1. (v + 1) * m <= (p + low) * m
          BY <1>1, <3>1, <3>2, MulMonotone
        <5>2. (v + 1) * m = v * m + m /\ (p + low) * m = p * m + low * m
          BY <1>1, <3>2
        <5>3. v * m \in Nat /\ p * m \in Nat /\ low * m \in Nat
          BY <1>1, <3>2, MulNat
        <5> HIDE DEF m, p
        <5> QED
          BY <3>2, <5>1, <5>2, <5>3
      <4>2. low * m <= low * NAD
        <5>1. m * low <= NAD * low
          BY <1>1, <3>2, MulMonotone
        <5> QED
          BY <1>1, <3>2, <5>1
      <4>3. 2 * p <= 2 * v
        BY <1>1, <1>5, <3>1, <3>2
      <4>4. c * NAD = 2 * v + low * n + low * NAD
        BY <1>1 DEF v, n
      <4>5. b * NAD = v * m
        BY <1>1, <3>2 DEF v
      <4>6. v * m \in Nat /\ p * m \in Nat /\ low * m \in Nat /\ low * n \in Nat
        BY <1>1, <3>2, MulNat
      <4> HIDE DEF m, p, b, c
      <4> QED
        BY <1>1, <1>4, <3>2, <3>3, <4>1, <4>2, <4>3, <4>4, <4>5, <4>6
    <3>5. b \in Nat /\ c \in Nat
      BY <1>1, <1>4, <3>2, MulNat
    <3>6. b = v - high * L
      BY <1>1, <1>8 DEF v
    <3> HIDE DEF b, c, m, p
    <3>7. b < c
      BY <1>1, <3>4, <3>5, LessByFactor
    <3> QED
      BY <1>1, <1>4, <2>1, <3>5, <3>6, <3>7 DEF c
  <2> QED
    BY <2>2, <2>3
<1>13. a < high * y + 3 * high + high * k
  <2>1. L * high < (y + k) * high
    <3>1. (L + 1) * high <= (y + k) * high
      BY <1>1, <1>8, <1>10, MulMonotone
    <3>2. (L + 1) * high = L * high + high
      BY <1>1, <1>8
    <3>3. L * high \in Nat /\ (y + k) * high \in Nat
      BY <1>1, <1>8, <1>10, MulNat
    <3> QED
      BY <1>1, <3>1, <3>2, <3>3
  <2>2. L * high = high * L /\ (y + k) * high = high * y + high * k
    BY <1>1, <1>8, <1>10
  <2>3. high * L \in Nat /\ high * y \in Nat /\ high * k \in Nat
    BY <1>1, <1>8, <1>10, MulNat
  <2> QED
    BY <1>1, <1>4, <1>12, <2>1, <2>2, <2>3
<1> QED
  BY <1>3, <1>9, <1>11, <1>13 DEF y, a

----------------------------------------------------------------------------
(* The charge lies between those of the lower and the higher rate.          *)

\* an area that is not charged the highest charge did not saturate, and is
\* charged rounded up
LEMMA ChargeExact ==
  ASSUME NEW a \in Nat, NEW rate, Charge(rate, a).integral < MaxU64
  PROVE  LET c == Charge(rate, a).integral * MILLISECONDS_PER_YEAR
         IN  /\ a < MaxU128 /\ c \in Nat
             /\ a <= c /\ c < a + MILLISECONDS_PER_YEAR
<1> DEFINE y == MILLISECONDS_PER_YEAR
           i == CeilDivOr(a, y)
<1>1. y \in Nat \ {0} /\ MaxU64 \in Nat /\ MaxU128 \in Nat
  BY RateTimeAssumption, WidthAssumption
<1>2. (MaxU64 + 1) * y <= MaxU128 /\ MaxU64 * y \in Nat /\ (MaxU64 + 1) * y = MaxU64 * y + y
  BY <1>1, RateWidthAssumption, MulNat
<1>3. Charge(rate, a).integral = Lesser(i, MaxU64)
  BY DEF Charge
<1> HIDE DEF y
<1>4. CeilDiv(a, y) \in Nat /\ a \div y \in Nat
  BY <1>1, CeilDivNat, DivFloor
<1>5. i \in Nat /\ i < MaxU64 /\ Charge(rate, a).integral = i
  <2>1. i \in Nat
    BY <1>4 DEF CeilDivOr
  <2>2. Lesser(i, MaxU64) < MaxU64
    BY <1>3
  <2> HIDE DEF i
  <2> QED
    BY <1>1, <1>3, <2>1, <2>2 DEF Lesser
<1>6. a + y - 1 <= MaxU128
  <2> SUFFICES ASSUME ~(a + y - 1 <= MaxU128) PROVE FALSE
    OBVIOUS
  <2>1. MaxU64 * y <= a
    BY <1>1, <1>2
  <2>2. a \div y >= MaxU64
    BY <1>1, <2>1, DivAtLeast
  <2>3. i = a \div y
    BY DEF CeilDivOr
  <2> QED
    BY <1>1, <1>4, <1>5, <2>2, <2>3
<1>7. i = CeilDiv(a, y)
  BY <1>6 DEF CeilDivOr
<1>8. i * y >= a /\ i * y < a + y
  BY <1>1, <1>7, CeilDivAtLeast
<1>9. i * y \in Nat /\ i * y <= MaxU64 * y
  <2> HIDE DEF i
  <2> QED
    BY <1>1, <1>5, MulMonotone, MulNat
<1>10. a < MaxU128
  BY <1>1, <1>2, <1>8, <1>9
<1> HIDE DEF i
<1> QED
  BY <1>5, <1>8, <1>9, <1>10 DEF y

\* an area is right to within what the roundings may cost
AreaBetween(k, low, high, dt, area) ==
  LET slack == (NAD + 9 * high) \div k + high
  IN  low * dt <= area + slack /\ area <= high * dt + slack

\* the exponential's area, from that of the exact exponent
LEMMA MovedBetween ==
  ASSUME NEW k \in Nat \ {0}, NEW low \in Nat, NEW high \in Nat, low <= high, NEW dt \in Nat,
         NEW w \in Nat, w <= k * dt, k * dt <= w + 9,
         low * w < (high - low) * NAD + NAD, (high - low) * NAD < high * w + NAD
  PROVE  AreaBetween(k, low, high, dt, ((high - low) * NAD) \div k)
<1> DEFINE a == (high - low) * NAD
           area == a \div k
           x == k * dt
           q == (NAD + 9 * high) \div k
           ld == low * dt
           hd == high * dt
<1>1. NAD \in Nat \ {0} /\ a \in Nat /\ x \in Nat /\ ld \in Nat /\ hd \in Nat
  <2>1. NAD \in Nat \ {0} /\ high - low \in Nat
    BY ScaleAssumption
  <2> QED
    BY <2>1, MulNat
<1> HIDE DEF a
<1>2. area \in Nat /\ k * area <= a /\ a < k * area + k
  BY <1>1, DivFloor
<1>3. q \in Nat /\ k * q <= NAD + 9 * high /\ NAD + 9 * high < k * q + k
  BY <1>1, DivFloor
<1> HIDE DEF area, q
<1>4. k * ld = low * x /\ k * hd = high * x
  BY <1>1
<1>5. /\ low * x <= low * w + 9 * low /\ high * w <= high * x
      /\ low * x \in Nat /\ low * w \in Nat /\ high * x \in Nat /\ high * w \in Nat
  <2>1. x * low <= (w + 9) * low /\ w * high <= x * high
    BY <1>1, MulMonotone
  <2>2. (w + 9) * low = low * w + 9 * low /\ x * low = low * x /\ w * high = high * w
        /\ x * high = high * x
    BY <1>1
  <2> QED
    BY <1>1, <2>1, <2>2, MulNat
<1>6. low * w < a + NAD /\ a < high * w + NAD
  BY DEF a
<1> HIDE DEF x, ld, hd
<1>7. k * ld + 3 <= k * area + k * q + k + k
  <2>1. k * area \in Nat /\ k * q \in Nat /\ k * ld \in Nat
    BY <1>1, <1>2, <1>3, MulNat
  <2> QED
    BY <1>1, <1>2, <1>3, <1>4, <1>5, <1>6, <2>1
<1>8. ld < area + q + 2
  <2>1. (area + q + 2) * k = k * area + k * q + k + k /\ ld * k = k * ld
    BY <1>1, <1>2, <1>3
  <2>2. ld * k < (area + q + 2) * k
    <3>1. ld * k \in Nat /\ (area + q + 2) * k \in Nat
      BY <1>1, <1>2, <1>3, MulNat
    <3> QED
      BY <1>7, <2>1, <3>1
  <2> QED
    BY <1>1, <1>2, <1>3, <2>2, LessByFactor
<1>9. ld <= area + (q + high)
  <2>1. CASE high = 0
    <3>1. low = 0
      BY <2>1
    <3>2. ld = 0
      BY <3>1 DEF ld
    <3> QED
      BY <1>2, <1>3, <2>1, <3>2
  <2>2. CASE high # 0
    BY <1>1, <1>2, <1>3, <1>8, <2>2
  <2> QED
    BY <2>1, <2>2
<1>10. area <= hd + q
  <2>1. area * k < (hd + q + 1) * k
    <3>1. (hd + q + 1) * k = k * hd + k * q + k /\ area * k = k * area
      BY <1>1, <1>2, <1>3
    <3>2. k * area \in Nat /\ k * q \in Nat /\ k * hd \in Nat
      BY <1>1, <1>2, <1>3, MulNat
    <3> QED
      BY <1>1, <1>2, <1>3, <1>4, <1>5, <1>6, <3>1, <3>2
  <2>2. area < hd + q + 1
    BY <1>1, <1>2, <1>3, <2>1, LessByFactor
  <2> QED
    BY <1>1, <1>2, <1>3, <2>2
<1> QED
  BY <1>1, <1>2, <1>3, <1>9, <1>10 DEF AreaBetween, area, q, ld, hd, a

\* the way to a limit, and the limit for the rest of the time
LEMMA ToLimitBetween ==
  ASSUME NEW m, NEW k \in Nat \ {0}, m.exp_rate = k, k <= NAD,
         NEW low \in Nat \ {0}, NEW high \in U64, low <= high,
         NEW limit \in Nat, low <= limit, limit <= high, NEW dt \in Nat,
         (high - low) * NAD <= high * (k * dt),
         AreaToLimit(m, low, high, limit, dt) < MaxU128
  PROVE  AreaBetween(k, low, high, dt, AreaToLimit(m, low, high, limit, dt))
<1> DEFINE a == (high - low) * NAD
           way == CeilDiv(a, k)
           t == TimeToReach(low, high, k)
           rest == IF t < dt THEN dt - t ELSE 0
           q == (NAD + 9 * high) \div k
           area == AreaToLimit(m, low, high, limit, dt)
<1>1. /\ NAD \in Nat \ {0} /\ high \in Nat /\ high <= MaxU64 /\ MaxU64 \in Nat /\ MaxU128 \in Nat
      /\ NAD <= MaxU64 /\ 10 * NAD <= MaxU64 /\ high - low \in Nat /\ a \in Nat
  <2>1. /\ NAD \in Nat \ {0} /\ high \in Nat /\ high <= MaxU64 /\ MaxU64 \in Nat /\ MaxU128 \in Nat
        /\ NAD <= MaxU64 /\ 10 * NAD <= MaxU64 /\ high - low \in Nat
    BY OneInU64, ScaleWithinWidth, WidthAssumption DEF U64
  <2> QED
    BY <2>1, MulNat
<1>2. SatMul128(high - low, NAD) = a
  <2>1. high - low \in U64
    BY <1>1 DEF U64
  <2>2. MulFits(high - low, NAD)
    BY <2>1, OneInU64, ProductInU128
  <2> QED
    BY <2>2 DEF SatMul128
<1>3. a + k - 1 <= MaxU128
  <2>1. a <= MaxU64 * NAD /\ MaxU64 * NAD \in Nat
    <3>1. high - low <= MaxU64
      BY <1>1
    <3> QED
      BY <1>1, <3>1, MulMonotone, MulNat
  <2>2. (10 * NAD) * MaxU64 <= MaxU64 * MaxU64
    BY <1>1, MulMonotone
  <2>3. NAD <= MaxU64 * NAD
    <3>1. 1 * NAD <= MaxU64 * NAD
      BY <1>1, MulMonotone
    <3> QED
      BY <1>1, <3>1
  <2>4. (10 * NAD) * MaxU64 = 10 * (MaxU64 * NAD)
    BY <1>1
  <2>5. MaxU64 * MaxU64 <= MaxU128
    BY WidthAssumption
  <2> HIDE DEF a
  <2> DEFINE p == MaxU64 * NAD
             s == MaxU64 * MaxU64
  <2>6. p \in Nat /\ a <= p /\ NAD <= p /\ 10 * p <= s /\ s <= MaxU128 /\ s \in Nat
    BY <1>1, <2>1, <2>2, <2>3, <2>4, <2>5, MulNat
  <2> HIDE DEF p, s
  <2> QED
    BY <1>1, <2>6
<1>4. /\ t \in Nat /\ low * (k * t) <= a
      /\ a < high * (k * t) + 3 * high + high * k
  BY TimeToReachBetween
<1>5. area = way + SatMul128(limit, rest)
  <2>1. CeilDivOr(SatMul128(high - low, NAD), k) = way
    BY <1>2, <1>3 DEF CeilDivOr
  <2>2. SatSub(dt, Lesser(t, dt)) = rest
    BY <1>4 DEF SatSub, Lesser
  <2> QED
    BY <2>1, <2>2 DEF AreaToLimit
<1> HIDE DEF a, t, area
<1>6. way \in Nat /\ k * way >= a /\ k * way < a + k
  <2>1. way \in Nat /\ way * k >= a /\ way * k < a + k
    BY <1>1, CeilDivNat, CeilDivAtLeast
  <2> HIDE DEF way
  <2> QED
    BY <2>1
<1>7. rest \in Nat
  BY <1>4
<1> DEFINE lr == limit * rest
<1>8. lr \in Nat /\ area = way + lr
  <2>1. SatMul128(limit, rest) \in Nat
    BY <1>7, SatMul128Nat
  <2>2. area < MaxU128
    BY DEF area
  <2>3. SatMul128(limit, rest) < MaxU128
    <3> HIDE DEF way, rest
    <3> QED
      BY <1>1, <1>5, <1>6, <2>1, <2>2
  <2>4. SatMul128(limit, rest) = limit * rest
    BY <1>1, <2>3 DEF SatMul128
  <2> QED
    BY <1>5, <1>7, <2>4, MulNat
<1>9. q \in Nat /\ NAD + 9 * high < k * q + k
  <2>1. NAD + 9 * high \in Nat
    BY <1>1
  <2> QED
    BY <2>1, DivFloor
<1> HIDE DEF way, q
<1> DEFINE ld == low * dt
           hd == high * dt
<1>10. ld \in Nat /\ hd \in Nat /\ k * ld = low * (k * dt) /\ k * hd = high * (k * dt)
  BY <1>1, MulNat
<1>11. k * way \in Nat /\ k * q \in Nat /\ k * hd \in Nat /\ k * ld \in Nat
  BY <1>6, <1>9, <1>10, MulNat
<1>12. CASE t < dt
  <2> DEFINE lt == low * t
             ht == high * t
  <2>1. rest = dt - t
    BY <1>12
  <2>2. /\ lt \in Nat /\ ht \in Nat
        /\ k * lt = low * (k * t) /\ k * ht = high * (k * t)
    BY <1>1, <1>4, MulNat
  <2>3. ld - lt <= lr /\ lr <= hd - ht
    <3>1. low * rest <= limit * rest /\ limit * rest <= high * rest
      BY <1>1, <1>7, MulMonotone
    <3>2. low * (dt - t) = ld - lt /\ high * (dt - t) = hd - ht
      BY <1>1, <1>4
    <3> QED
      BY <2>1, <3>1, <3>2
  <2> HIDE DEF ld, hd, lt, ht, lr, rest
  <2>4. lt <= way
    <3>1. lt * k <= way * k
      <4>1. k * lt <= k * way /\ k * lt = lt * k /\ k * way = way * k
        <5>1. k * lt \in Nat
          BY <2>2, MulNat
        <5> QED
          BY <1>1, <1>4, <1>6, <1>11, <2>2, <5>1
      <4> QED
        BY <4>1
    <3> QED
      BY <1>6, <2>2, <3>1, AtMostByFactor
  <2>5. way <= ht + q + high
    <3>1. way * k < (ht + q + high + 1) * k
      <4>1. (ht + q + high + 1) * k = k * ht + k * q + high * k + k
        BY <1>1, <1>9, <2>2
      <4>2. k * ht \in Nat /\ high * k \in Nat /\ way * k = k * way
        BY <1>1, <1>6, <2>2, MulNat
      <4>3. k * way < a + k
        BY <1>6
      <4>4. a < k * ht + 3 * high + high * k
        BY <1>4, <2>2
      <4>5. 3 * high + k <= NAD + 9 * high
        BY <1>1
      <4>6. NAD + 9 * high < k * q + k
        BY <1>9
      <4> QED
        BY <1>1, <1>11, <4>1, <4>2, <4>3, <4>4, <4>5, <4>6
    <3>2. way < ht + q + high + 1
      BY <1>1, <1>6, <1>9, <2>2, <3>1, LessByFactor
    <3> QED
      BY <1>1, <1>6, <1>9, <2>2, <3>2
  <2>6. ld <= area + (q + high) /\ area <= hd + (q + high)
    BY <1>1, <1>6, <1>8, <1>9, <1>10, <2>2, <2>3, <2>4, <2>5
  <2> QED
    BY <2>6 DEF AreaBetween, ld, hd, q, area
<1>13. CASE ~(t < dt)
  <2>1. rest = 0 /\ lr = 0
    BY <1>13
  <2> HIDE DEF lr, rest
  <2>2. area = way
    BY <1>6, <1>8, <2>1
  <2>3. ld <= way
    <3>1. low * (k * dt) <= low * (k * t)
      <4>1. dt <= t
        BY <1>4, <1>13
      <4>2. dt * (k * low) <= t * (k * low)
        BY <1>4, <4>1, MulMonotone, MulNat
      <4>3. dt * (k * low) = low * (k * dt) /\ t * (k * low) = low * (k * t)
        BY <1>4
      <4> QED
        BY <4>2, <4>3
    <3>2. k * ld <= k * way
      <4>1. low * (k * t) \in Nat
        BY <1>4, MulNat
      <4> HIDE DEF ld
      <4> QED
        BY <1>1, <1>4, <1>6, <1>10, <1>11, <3>1, <4>1
    <3>3. ld * k <= way * k
      <4> HIDE DEF ld
      <4> QED
        BY <1>6, <1>10, <3>2
    <3> HIDE DEF ld
    <3> QED
      BY <1>6, <1>10, <3>3, AtMostByFactor
  <2>4. way <= hd
    <3>1. way * k < (hd + 1) * k
      <4>1. (hd + 1) * k = k * hd + k /\ way * k = k * way
        BY <1>6, <1>10
      <4>2. a <= k * hd
        BY <1>10 DEF a
      <4> HIDE DEF hd
      <4> QED
        BY <1>1, <1>6, <1>11, <4>1, <4>2
    <3> HIDE DEF hd
    <3>2. way < hd + 1
      BY <1>6, <1>10, <3>1, LessByFactor
    <3> QED
      BY <1>6, <1>10, <3>2
  <2> HIDE DEF ld, hd
  <2>5. ld <= area + (q + high) /\ area <= hd + (q + high)
    BY <1>1, <1>6, <1>9, <1>10, <2>2, <2>3, <2>4
  <2> QED
    BY <2>5 DEF AreaBetween, ld, hd, q, area
<1> QED
  BY <1>12, <1>13

\* what a charge comes to, in the units of an area
ChargeWithin(k, low, high, dt, integral) ==
  LET c     == integral * MILLISECONDS_PER_YEAR
      slack == (NAD + 9 * high) \div k + high
  IN  low * dt <= c + slack /\ c <= high * dt + slack + MILLISECONDS_PER_YEAR

\* an area within bounds is charged within bounds
LEMMA WithinByArea ==
  ASSUME NEW k \in Nat \ {0}, NEW low \in Nat, NEW high \in Nat, NEW dt \in Nat,
         NEW rate, NEW area \in Nat,
         Charge(rate, area).integral < MaxU64, AreaBetween(k, low, high, dt, area)
  PROVE  ChargeWithin(k, low, high, dt, Charge(rate, area).integral)
<1> DEFINE c == Charge(rate, area).integral * MILLISECONDS_PER_YEAR
           slack == (NAD + 9 * high) \div k + high
           y == MILLISECONDS_PER_YEAR
           ld == low * dt
           hd == high * dt
<1>1. c \in Nat /\ area <= c /\ c < area + y /\ y \in Nat
  BY ChargeExact, RateTimeAssumption
<1>2. slack \in Nat /\ ld \in Nat /\ hd \in Nat
  <2>1. NAD + 9 * high \in Nat
    BY ScaleAssumption
  <2>2. (NAD + 9 * high) \div k \in Nat
    BY <2>1, DivFloor
  <2> QED
    BY <2>2, MulNat
<1>3. ld <= area + slack /\ area <= hd + slack
  BY DEF AreaBetween
<1> HIDE DEF c, slack, y, ld, hd
<1>4. ld <= c + slack /\ c <= hd + slack + y
  BY <1>1, <1>2, <1>3
<1> QED
  BY <1>4 DEF ChargeWithin, c, slack, y, ld, hd

\* a rate that rests between two others
LEMMA RestingBetween ==
  ASSUME NEW k \in Nat \ {0}, NEW low \in Nat, NEW high \in Nat, NEW dt \in Nat,
         NEW rate \in Nat, low <= rate, rate <= high,
         Resting(rate, dt).integral < MaxU64
  PROVE  ChargeWithin(k, low, high, dt, Resting(rate, dt).integral)
<1> DEFINE s == SatMul128(rate, dt)
           q == (NAD + 9 * high) \div k
<1>1. s \in Nat /\ Resting(rate, dt) = Charge(rate, s) /\ MaxU128 \in Nat
  BY SatMul128Nat, WidthAssumption DEF Resting
<1>2. s < MaxU128
  <2> HIDE DEF s
  <2> QED
    BY <1>1, ChargeExact
<1>3. s = rate * dt
  BY <1>1, <1>2 DEF SatMul128
<1>4. low * dt <= rate * dt /\ rate * dt <= high * dt
  BY MulMonotone
<1>5. q \in Nat
  <2>1. NAD + 9 * high \in Nat
    BY ScaleAssumption
  <2> QED
    BY <2>1, DivFloor
<1>6. low * dt \in Nat /\ high * dt \in Nat
  BY MulNat
<1> HIDE DEF s, q
<1> DEFINE ld == low * dt
           hd == high * dt
<1>7. ld <= s + (q + high) /\ s <= hd + (q + high)
  <2>1. ld \in Nat /\ hd \in Nat /\ ld <= s /\ s <= hd
    BY <1>3, <1>4, <1>6
  <2> HIDE DEF ld, hd
  <2> QED
    BY <1>1, <1>5, <2>1
<1>8. AreaBetween(k, low, high, dt, s)
  BY <1>7 DEF AreaBetween, q, ld, hd
<1> QED
  BY <1>1, <1>8, WithinByArea

\* the decay of a period, and what the program divides a growing rate by
LEMMA DecayBetween ==
  ASSUME NEW m, IsRateModel(m), m.exp_rate > 0,
         m.exp_rate <= NATURAL_LOG_OF_TWO_NAD \div MIN_RATE_HALF_LIFE_MS,
         NEW dt \in Nat, dt > 0, dt <= MaxElapsed
  PROVE  LET d == DecayFactor(m, dt)
             g == Greater(d, 1)
         IN  /\ d \in Nat /\ d <= NAD /\ g \in Nat \ {0} /\ g <= NAD
             /\ \E w \in Nat :
                  /\ w <= m.exp_rate * dt /\ m.exp_rate * dt <= w + 9
                  /\ d * (NAD + w) <= NAD * NAD /\ NAD <= d + w
                  /\ g * (NAD + w) <= NAD * NAD /\ NAD <= g + w
<1> DEFINE k == m.exp_rate
           l == NATURAL_LOG_OF_TWO_NAD
           top == l \div MIN_RATE_HALF_LIFE_MS
           x == k * dt
           d == DecayFactor(m, dt)
           g == Greater(d, 1)
           n == NAD * NAD
<1>1. /\ k \in Nat /\ k > 0 /\ k <= l /\ l \in Nat /\ NAD \in Nat \ {0} /\ MaxElapsed \in Nat
      /\ MaxU128 \in Nat /\ k <= top /\ top \in Nat /\ n \in Nat
  BY ScaleAssumption, WidthAssumption, RateBoundsAssumption, RateTimeAssumption, DivFloor, MulNat
     DEF IsRateModel
<1>2. (l * MaxElapsed) * NAD <= MaxU128 /\ top * MaxElapsed <= NAD * (NAD - 1)
  BY RateWidthAssumption
<1>3. x \in Nat /\ x > 0 /\ x <= l * MaxElapsed /\ x <= top * MaxElapsed
      /\ l * MaxElapsed \in Nat /\ top * MaxElapsed \in Nat
  <2> HIDE DEF k, l, top, n
  <2>1. k * dt <= l * dt /\ k * dt <= top * dt /\ 1 * dt <= k * dt
    BY <1>1, MulMonotone
  <2>2. dt * l <= MaxElapsed * l /\ dt * top <= MaxElapsed * top
    BY <1>1, MulMonotone
  <2>3. /\ k * dt \in Nat /\ l * dt \in Nat /\ top * dt \in Nat
        /\ l * MaxElapsed \in Nat /\ top * MaxElapsed \in Nat
    BY <1>1, MulNat
  <2>4. /\ dt * l = l * dt /\ dt * top = top * dt
        /\ MaxElapsed * l = l * MaxElapsed /\ MaxElapsed * top = top * MaxElapsed
    BY <1>1
  <2> QED
    BY <2>1, <2>2, <2>3, <2>4
<1> HIDE DEF l, top, k
<1>4. x + NAD <= n
  <2>1. NAD * (NAD - 1) = n - NAD
    BY <1>1
  <2> HIDE DEF n, x
  <2> QED
    BY <1>1, <1>2, <1>3, <2>1
<1>5. NAD * x <= MaxU128 /\ x <= MaxU128
  <2> HIDE DEF x
  <2>1. x * NAD <= (l * MaxElapsed) * NAD /\ 1 * x <= NAD * x
    BY <1>1, <1>3, MulMonotone
  <2>2. x * NAD = NAD * x /\ NAD * x \in Nat /\ (l * MaxElapsed) * NAD \in Nat
    BY <1>1, <1>3, MulNat
  <2> QED
    BY <1>1, <1>2, <1>3, <2>1, <2>2
<1>6. d = ExpOfMinus(x)
  <2>1. MulFits(k, dt)
    BY <1>1, <1>5, FitsByBound
  <2> QED
    BY <2>1 DEF DecayFactor, SatMul128, k
<1> HIDE DEF x, d
<1>7. PICK w \in Nat : /\ w <= x /\ x <= w + 9 /\ d \in Nat /\ d <= NAD
                       /\ d * (NAD + w) <= n /\ NAD <= d + w
  BY <1>3, <1>5, <1>6, ExpOfMinusBetween
<1>8. g \in Nat \ {0} /\ g <= NAD /\ NAD <= g + w /\ (d = g \/ g = 1)
  BY <1>1, <1>7 DEF Greater
<1>9. g * (NAD + w) <= n
  <2>1. CASE d = g
    BY <1>7, <2>1
  <2>2. CASE g = 1
    <3>1. 1 * (NAD + w) = NAD + w
      BY <1>1, <1>7
    <3> HIDE DEF g, n
    <3> QED
      BY <1>1, <1>3, <1>4, <1>7, <2>2, <3>1
  <2> QED
    BY <1>8, <2>1, <2>2
<1> QED
  BY <1>7, <1>8, <1>9 DEF d, g, n, x, k

\* growth that passes a limit was enough to reach it
LEMMA GrowthReaches ==
  ASSUME NEW last \in Nat, NEW max \in Nat, NEW up \in Nat, NEW w \in Nat, last <= max, max < up,
         (up - last) * NAD <= up * w
  PROVE  (max - last) * NAD <= max * w
<1> DEFINE n == NAD
<1>1. n \in Nat \ {0} /\ (up - last) * n <= up * w
  BY ScaleAssumption
<1> HIDE DEF n
<1>2. CASE w >= n
  <2>1. (max - last) * n <= max * n /\ n * max <= w * max
    <3>1. max - last \in Nat /\ max - last <= max
      OBVIOUS
    <3> QED
      BY <1>1, <1>2, <3>1, MulMonotone
  <2>2. (max - last) * n \in Nat /\ max * n \in Nat /\ max * w \in Nat
        /\ n * max = max * n /\ w * max = max * w
    <3>1. max - last \in Nat
      OBVIOUS
    <3> QED
      BY <1>1, <3>1, MulNat
  <2> QED
    BY <2>1, <2>2 DEF n
<1>3. CASE ~(w >= n)
  <2> DEFINE p == n - w
             a == max * p
             b == last * n
             c == up * p
  <2>1. p \in Nat
    BY <1>1, <1>3
  <2>2. a \in Nat /\ c \in Nat /\ b \in Nat /\ a <= c
    BY <1>1, <2>1, MulNat, MulMonotone
  <2>3. c = up * n - up * w /\ (up - last) * n = up * n - b
        /\ up * n \in Nat /\ up * w \in Nat
    BY <1>1, MulNat
  <2>4. a = max * n - max * w /\ (max - last) * n = max * n - b
        /\ max * n \in Nat /\ max * w \in Nat
    BY <1>1, MulNat
  <2> HIDE DEF a, b, c
  <2>5. c <= b
    BY <1>1, <2>2, <2>3
  <2> QED
    BY <2>2, <2>4, <2>5 DEF n
<1> QED
  BY <1>2, <1>3

\* the exponential between two rates is charged between them
LEMMA MovingBetween ==
  ASSUME NEW m, m.exp_rate \in Nat \ {0}, NEW low \in U64, NEW high \in U64, low <= high,
         NEW dt \in Nat, NEW w \in Nat, w <= m.exp_rate * dt, m.exp_rate * dt <= w + 9,
         low * w < (high - low) * NAD + NAD, (high - low) * NAD < high * w + NAD,
         NEW rate, Moving(m, low, high, rate).integral < MaxU64
  PROVE  ChargeWithin(m.exp_rate, low, high, dt, Moving(m, low, high, rate).integral)
<1> DEFINE k == m.exp_rate
           a == (high - low) * NAD
           area == a \div k
<1>1. /\ k \in Nat \ {0} /\ low \in Nat /\ high \in Nat /\ NAD \in Nat /\ high - low \in Nat
      /\ high - low \in U64
  BY OneInU64, WidthAssumption DEF U64
<1>2. MulFits(high - low, NAD)
  BY <1>1, OneInU64, ProductInU128
<1>3. SatMul128(high - low, NAD) = a
  BY <1>2 DEF SatMul128
<1>4. Moving(m, low, high, rate) = Charge(rate, area)
  BY <1>3 DEF Moving
<1>5. a \in Nat
  BY <1>1, MulNat
<1>6. area \in Nat
  <2> HIDE DEF a, k
  <2> QED
    BY <1>1, <1>5, DivFloor
<1>7. AreaBetween(k, low, high, dt, area)
  BY <1>1, MovedBetween
<1> HIDE DEF area, k
<1>8. ChargeWithin(k, low, high, dt, Charge(rate, area).integral)
  BY <1>1, <1>4, <1>6, <1>7, WithinByArea
<1> QED
  BY <1>4, <1>8 DEF k

\* the way to a limit, and the limit, are charged between the two
LEMMA ToLimitWithin ==
  ASSUME NEW m, m.exp_rate \in Nat \ {0}, m.exp_rate <= NAD,
         NEW low \in Nat \ {0}, NEW high \in U64, low <= high,
         NEW limit \in Nat, low <= limit, limit <= high, NEW dt \in Nat, NEW w \in Nat,
         w <= m.exp_rate * dt, (high - low) * NAD <= high * w,
         ToLimit(m, low, high, limit, dt).integral < MaxU64
  PROVE  ChargeWithin(m.exp_rate, low, high, dt, ToLimit(m, low, high, limit, dt).integral)
<1> DEFINE k == m.exp_rate
           area == AreaToLimit(m, low, high, limit, dt)
           x == k * dt
<1>1. k \in Nat \ {0} /\ high \in Nat /\ x \in Nat /\ dt <= dt
  BY WidthAssumption, MulNat DEF U64
<1>2. area \in Nat
  BY <1>1, AreaToLimitMonotone, RateWidthAssumption
<1>3. ToLimit(m, low, high, limit, dt) = Charge(limit, area)
  BY DEF ToLimit
<1>4. area < MaxU128
  <2> HIDE DEF area
  <2> QED
    BY <1>2, <1>3, ChargeExact
<1>5. (high - low) * NAD <= high * x
  <2>1. w * high <= x * high /\ w * high \in Nat /\ x * high \in Nat
    <3> HIDE DEF x
    <3>1. w <= x
      BY DEF x
    <3> QED
      BY <1>1, <3>1, MulMonotone, MulNat
  <2> DEFINE a == (high - low) * NAD
             b == high * w
             c == high * x
  <2>2. a \in Nat /\ b \in Nat /\ c \in Nat /\ b = w * high /\ c = x * high
    <3>1. high - low \in Nat /\ NAD \in Nat
      BY <1>1, OneInU64
    <3> QED
      BY <1>1, <3>1, MulNat
  <2>3. a <= b
    OBVIOUS
  <2> HIDE DEF a, b, c, x
  <2>4. a <= c
    BY <2>1, <2>2, <2>3
  <2> QED
    BY <2>4 DEF a, c
<1>6. AreaBetween(k, low, high, dt, area)
  BY <1>1, <1>4, <1>5, ToLimitBetween
<1> HIDE DEF area, k
<1>7. low \in Nat /\ ChargeWithin(k, low, high, dt, Charge(limit, area).integral)
  BY <1>1, <1>2, <1>3, <1>6, WithinByArea
<1> QED
  BY <1>3, <1>7 DEF k

\* what a period's charge lies between, unless it saturated
Bounded(k, from, dt, charge) ==
  charge.rate < MaxU64 /\ charge.integral < MaxU64 =>
    ChargeWithin(k, Lesser(from, charge.rate), Greater(from, charge.rate), dt, charge.integral)

\* a rising rate is charged between where it starts and where it ends
LEMMA RiseBetween ==
  ASSUME NEW m, IsRateModel(m), m.exp_rate > 0,
         m.exp_rate <= NATURAL_LOG_OF_TWO_NAD \div MIN_RATE_HALF_LIFE_MS, m.exp_rate <= NAD,
         NEW last \in U64, NEW dt \in Nat, dt > 0, dt <= MaxElapsed
  PROVE  Bounded(m.exp_rate, last, dt, Rise(m, last, dt))
<1> DEFINE charge == Rise(m, last, dt)
           k == m.exp_rate
           max == m.max_rate
           up == Grown(m, last, dt)
           g == Greater(DecayFactor(m, dt), 1)
<1> SUFFICES ASSUME charge.rate < MaxU64, charge.integral < MaxU64
             PROVE  ChargeWithin(k, Lesser(last, charge.rate), Greater(last, charge.rate), dt,
                                 charge.integral)
  BY DEF Bounded
<1>1. k \in Nat \ {0} /\ last \in Nat /\ max \in Nat /\ max \in U64 /\ MaxU64 \in Nat
  BY WidthAssumption DEF IsRateModel, U64
<1>2. PICK w \in Nat : /\ w <= k * dt /\ k * dt <= w + 9 /\ g \in Nat \ {0} /\ g <= NAD
                       /\ g * (NAD + w) <= NAD * NAD /\ NAD <= g + w
  BY DecayBetween
<1>3. up = (last * NAD) \div g
  <2>1. MulFits(last, NAD)
    BY OneInU64, ProductInU128
  <2> QED
    BY <2>1 DEF Grown, SatMul128
<1>4. /\ up \in Nat /\ last <= up
      /\ last * w < (up - last) * NAD + NAD
      /\ (up - last) * NAD <= up * w
  <2> HIDE DEF up, g
  <2> QED
    BY <1>1, <1>2, <1>3, GrowsBetween
<1>5. HitsMax(m, last, dt) <=> max > 0 /\ up > max
  BY DEF HitsMax
<1> HIDE DEF up, g
<1>6. CASE ~HitsMax(m, last, dt)
  <2>1. charge = Moving(m, last, up, up)
    BY <1>6 DEF Rise, up
  <2>2. charge.rate = up /\ up <= MaxU64
    <3>1. charge.rate = Lesser(up, MaxU64)
      BY <2>1 DEF Moving, Charge
    <3> HIDE DEF charge
    <3> QED
      BY <1>1, <1>4, <3>1 DEF Lesser
  <2>3. Lesser(last, charge.rate) = last /\ Greater(last, charge.rate) = up
    BY <1>1, <1>4, <2>2 DEF Lesser, Greater
  <2>4. (up - last) * NAD < up * w + NAD
    <3> DEFINE a == (up - last) * NAD
               b == up * w
    <3>1. NAD \in Nat \ {0} /\ a \in Nat /\ b \in Nat
      <4>1. up - last \in Nat /\ NAD \in Nat \ {0}
        BY <1>1, <1>4, OneInU64
      <4> QED
        BY <1>4, <4>1, MulNat
    <3>2. a <= b
      BY <1>4
    <3> HIDE DEF a, b
    <3>3. a < b + NAD
      BY <3>1, <3>2
    <3> QED
      BY <3>3 DEF a, b
  <2>5. up \in U64
    BY <1>4, <2>2 DEF U64
  <2> HIDE DEF charge
  <2>6. Moving(m, last, up, up).integral < MaxU64
    BY <2>1
  <2>7. ChargeWithin(k, last, up, dt, Moving(m, last, up, up).integral)
    BY <1>1, <1>2, <1>4, <2>4, <2>5, <2>6, MovingBetween
  <2> QED
    BY <2>1, <2>3, <2>7
<1>7. CASE HitsMax(m, last, dt) /\ last >= max
  <2>1. charge = Resting(max, dt)
    BY <1>7 DEF Rise
  <2>2. charge.rate = max
    <3>1. charge.rate = Lesser(max, MaxU64)
      BY <2>1 DEF Resting, Charge
    <3> HIDE DEF charge
    <3> QED
      BY <1>1, <3>1 DEF Lesser
  <2>3. Lesser(last, charge.rate) = max /\ Greater(last, charge.rate) = last
    <3> HIDE DEF charge
    <3> QED
      BY <1>1, <1>7, <2>2 DEF Lesser, Greater
  <2> HIDE DEF charge, max
  <2>4. max <= max /\ max <= last
    BY <1>1, <1>7
  <2>5. ChargeWithin(k, max, last, dt, Resting(max, dt).integral)
    BY <1>1, <1>7, <2>1, <2>4, RestingBetween
  <2> QED
    BY <2>1, <2>3, <2>5
<1>8. CASE HitsMax(m, last, dt) /\ ~(last >= max)
  <2>1. charge = ToLimit(m, last, max, max, dt)
    BY <1>8 DEF Rise
  <2>2. charge.rate = max
    <3>1. charge.rate = Lesser(max, MaxU64)
      BY <2>1 DEF ToLimit, Charge
    <3> HIDE DEF charge
    <3> QED
      BY <1>1, <3>1 DEF Lesser
  <2>3. Lesser(last, charge.rate) = last /\ Greater(last, charge.rate) = max
    <3> HIDE DEF charge
    <3> QED
      BY <1>1, <1>8, <2>2 DEF Lesser, Greater
  <2>4. up > max /\ last <= max
    <3>1. up > max
      BY <1>5, <1>8, Zenon
    <3>2. ~(last >= max)
      BY <1>8
    <3> HIDE DEF max, charge
    <3> QED
      BY <1>1, <3>1, <3>2
  <2>5. last # 0
    <3> SUFFICES ASSUME last = 0 PROVE FALSE
      OBVIOUS
    <3>1. (up - last) * NAD = up * NAD /\ NAD \in Nat \ {0} /\ last * NAD = 0
      BY <1>4, OneInU64
    <3>2. 0 \div g <= 0 /\ 0 \div g \in Nat
      <4>1. 0 < 0 * g + g
        BY <1>2
      <4> QED
        BY <1>2, <4>1, DivAtMost, DivFloor
    <3>3. up <= 0
      BY <1>3, <3>1, <3>2
    <3> HIDE DEF max
    <3> QED
      BY <1>1, <1>4, <2>4, <3>3
  <2>6. (max - last) * NAD <= max * w
    <3> HIDE DEF max
    <3> QED
      BY <1>1, <1>4, <2>4, GrowthReaches
  <2> HIDE DEF charge
  <2>7. last \in Nat \ {0} /\ max <= max /\ last <= last
    BY <1>1, <2>5
  <2>8. ToLimit(m, last, max, max, dt).integral < MaxU64
    BY <2>1
  <2> HIDE DEF max
  <2>9. ChargeWithin(k, last, max, dt, ToLimit(m, last, max, max, dt).integral)
    BY <1>1, <1>2, <2>4, <2>6, <2>7, <2>8, ToLimitWithin
  <2> QED
    BY <2>1, <2>3, <2>9
<1> QED
  BY <1>6, <1>7, <1>8

\* a falling rate is charged between where it ends and where it starts
LEMMA FallBetween ==
  ASSUME NEW m, IsRateModel(m), m.exp_rate > 0,
         m.exp_rate <= NATURAL_LOG_OF_TWO_NAD \div MIN_RATE_HALF_LIFE_MS, m.exp_rate <= NAD,
         NEW last \in U64, last >= m.min_rate, NEW dt \in Nat, dt > 0, dt <= MaxElapsed
  PROVE  Bounded(m.exp_rate, last, dt, Fall(m, last, dt))
<1> DEFINE charge == Fall(m, last, dt)
           k == m.exp_rate
           min == m.min_rate
           down == Decayed(m, last, dt)
           d == DecayFactor(m, dt)
<1> SUFFICES ASSUME charge.rate < MaxU64, charge.integral < MaxU64
             PROVE  ChargeWithin(k, Lesser(last, charge.rate), Greater(last, charge.rate), dt,
                                 charge.integral)
  BY DEF Bounded
<1>1. /\ k \in Nat \ {0} /\ last \in Nat /\ last <= MaxU64 /\ min \in Nat /\ min \in U64
      /\ MaxU64 \in Nat /\ min <= last
  BY WidthAssumption DEF IsRateModel, U64
<1>2. PICK w \in Nat : /\ w <= k * dt /\ k * dt <= w + 9 /\ d \in Nat /\ d <= NAD
                       /\ d * (NAD + w) <= NAD * NAD /\ NAD <= d + w
  BY DecayBetween
<1>3. down = (last * d) \div NAD
  <2>1. d \in U64
    BY <1>2, OneInU64 DEF U64
  <2>2. MulFits(last, d)
    BY <2>1, ProductInU128
  <2> QED
    BY <2>2 DEF Decayed, SatMul128
<1>4. /\ down \in Nat /\ down <= last
      /\ down * w <= (last - down) * NAD
      /\ (last - down) * NAD < last * w + NAD
  <2> HIDE DEF down, d
  <2> QED
    BY <1>1, <1>2, <1>3, FallsBetween
<1>5. HitsMin(m, last, dt) <=> down < min
  BY DEF HitsMin
<1> HIDE DEF down, d
<1>6. CASE ~HitsMin(m, last, dt)
  <2>1. charge = Moving(m, down, last, down)
    BY <1>6 DEF Fall, down
  <2>2. charge.rate = down /\ down <= MaxU64
    <3>1. charge.rate = Lesser(down, MaxU64)
      BY <2>1 DEF Moving, Charge
    <3> HIDE DEF charge
    <3> QED
      BY <1>1, <1>4, <3>1 DEF Lesser
  <2>3. Lesser(last, charge.rate) = down /\ Greater(last, charge.rate) = last
    <3> HIDE DEF charge
    <3> QED
      BY <1>1, <1>4, <2>2 DEF Lesser, Greater
  <2>4. down * w < (last - down) * NAD + NAD
    <3> DEFINE a == (last - down) * NAD
               b == down * w
    <3>1. NAD \in Nat \ {0} /\ a \in Nat /\ b \in Nat
      <4>1. last - down \in Nat /\ NAD \in Nat \ {0}
        BY <1>1, <1>4, OneInU64
      <4> QED
        BY <1>4, <4>1, MulNat
    <3>2. b <= a
      BY <1>4
    <3> HIDE DEF a, b
    <3>3. b < a + NAD
      BY <3>1, <3>2
    <3> QED
      BY <3>3 DEF a, b
  <2>5. down \in U64
    BY <1>4, <2>2 DEF U64
  <2> HIDE DEF charge
  <2>6. Moving(m, down, last, down).integral < MaxU64
    BY <2>1
  <2>7. ChargeWithin(k, down, last, dt, Moving(m, down, last, down).integral)
    BY <1>1, <1>2, <1>4, <2>4, <2>5, <2>6, MovingBetween
  <2> QED
    BY <2>1, <2>3, <2>7
<1>7. CASE HitsMin(m, last, dt) /\ last <= min
  <2>1. charge = Resting(min, dt)
    BY <1>7 DEF Fall
  <2>2. charge.rate = min
    <3>1. charge.rate = Lesser(min, MaxU64)
      BY <2>1 DEF Resting, Charge
    <3> HIDE DEF charge
    <3> QED
      BY <1>1, <3>1 DEF Lesser
  <2>3. Lesser(last, charge.rate) = min /\ Greater(last, charge.rate) = last
    <3> HIDE DEF charge
    <3> QED
      BY <1>1, <1>7, <2>2 DEF Lesser, Greater
  <2> HIDE DEF charge, min
  <2>4. min <= min /\ min <= last
    BY <1>1
  <2>5. ChargeWithin(k, min, last, dt, Resting(min, dt).integral)
    BY <1>1, <2>1, <2>4, RestingBetween
  <2> QED
    BY <2>1, <2>3, <2>5
<1>8. CASE HitsMin(m, last, dt) /\ ~(last <= min)
  <2>1. charge = ToLimit(m, min, last, min, dt)
    BY <1>8 DEF Fall
  <2>2. charge.rate = min
    <3>1. charge.rate = Lesser(min, MaxU64)
      BY <2>1 DEF ToLimit, Charge
    <3> HIDE DEF charge
    <3> QED
      BY <1>1, <3>1 DEF Lesser
  <2>3. Lesser(last, charge.rate) = min /\ Greater(last, charge.rate) = last
    <3> HIDE DEF charge
    <3> QED
      BY <1>1, <2>2 DEF Lesser, Greater
  <2>4. down < min /\ min \in Nat \ {0} /\ min <= min
    BY <1>1, <1>4, <1>5, <1>8
  <2> HIDE DEF charge, min
  <2>5. (last - min) * NAD <= last * w
    <3> DEFINE n == NAD
               a == (last - down) * n
               b == (last - min) * n
               c == last * w
    <3>1. n \in Nat \ {0} /\ a < c + n
      BY <1>4, OneInU64
    <3> HIDE DEF n
    <3>2. b + n <= a
      <4>1. (last - min + 1) * n <= (last - down) * n
        <5>1. last - min + 1 \in Nat /\ last - down \in Nat /\ last - min + 1 <= last - down
          BY <1>1, <1>4, <2>4
        <5> QED
          BY <3>1, <5>1, MulMonotone
      <4>2. (last - min + 1) * n = b + n
        BY <1>1, <3>1
      <4> QED
        BY <4>1, <4>2
    <3>3. a \in Nat /\ b \in Nat /\ c \in Nat
      <4>1. last - down \in Nat /\ last - min \in Nat
        BY <1>1, <1>4
      <4> QED
        BY <1>1, <3>1, <4>1, MulNat
    <3> HIDE DEF a, b, c
    <3>4. b <= c
      BY <3>1, <3>2, <3>3
    <3> QED
      BY <3>4 DEF b, c, n
  <2>6. ToLimit(m, min, last, min, dt).integral < MaxU64
    BY <2>1
  <2>7. ChargeWithin(k, min, last, dt, ToLimit(m, min, last, min, dt).integral)
    BY <1>1, <1>2, <2>4, <2>5, <2>6, ToLimitWithin
  <2> QED
    BY <2>1, <2>3, <2>7
<1> QED
  BY <1>6, <1>7, <1>8

\* every answer of calculate_rate is charged between the two rates
LEMMA AnswerBetween ==
  ASSUME NEW m, IsRateModel(m), m.exp_rate > 0,
         m.exp_rate <= NATURAL_LOG_OF_TWO_NAD \div MIN_RATE_HALF_LIFE_MS,
         NEW last_r \in U64, NEW util \in U64, NEW dt \in Nat, dt > 0, dt <= MaxElapsed
  PROVE  Bounded(m.exp_rate, Greater(last_r, m.min_rate), dt, CalculateRate(m, last_r, dt, util))
<1> DEFINE last == Greater(last_r, m.min_rate)
           k == m.exp_rate
<1>1. last \in U64 /\ last \in Nat /\ last >= m.min_rate /\ k \in Nat \ {0} /\ MaxU64 \in Nat
  BY WidthAssumption DEF IsRateModel, U64, Greater
<1>2. k <= NAD
  <2>1. /\ k <= NATURAL_LOG_OF_TWO_NAD /\ NATURAL_LOG_OF_TWO_NAD \in Nat
        /\ 1000 * NATURAL_LOG_OF_TWO_NAD <= 694 * NAD
    BY ScaleAssumption, LnTwoAssumption, SMT DEF IsRateModel
  <2> HIDE DEF k
  <2> QED
    BY <1>1, <2>1, ScaleAssumption, SMT
<1> HIDE DEF last
<1>3. CASE util > m.target_util_end
  <2>1. Bounded(m.exp_rate, last, dt, Rise(m, last, dt))
    BY <1>1, <1>2, RiseBetween
  <2>2. CalculateRate(m, last_r, dt, util) = Rise(m, last, dt)
    BY <1>3, RateAnswers DEF last
  <2> QED
    BY <2>1, <2>2 DEF last
<1>4. CASE ~(util > m.target_util_end) /\ util < m.target_util_start
  <2>1. Bounded(m.exp_rate, last, dt, Fall(m, last, dt))
    BY <1>1, <1>2, FallBetween
  <2>2. CalculateRate(m, last_r, dt, util) = Fall(m, last, dt)
    BY <1>4, RateAnswers DEF last
  <2> QED
    BY <2>1, <2>2 DEF last
<1>5. CASE ~(util > m.target_util_end) /\ ~(util < m.target_util_start)
  <2> DEFINE charge == Resting(last, dt)
  <2>1. CalculateRate(m, last_r, dt, util) = charge
    BY <1>5, RateAnswers DEF last
  <2>2. charge.rate = last
    <3>1. charge.rate = Lesser(last, MaxU64)
      BY DEF Resting, Charge
    <3> HIDE DEF charge
    <3> QED
      BY <1>1, <3>1 DEF Lesser, U64
  <2>3. Lesser(last, charge.rate) = last /\ Greater(last, charge.rate) = last
    <3> HIDE DEF charge
    <3> QED
      BY <1>1, <2>2 DEF Lesser, Greater
  <2>4. ASSUME charge.integral < MaxU64
        PROVE  ChargeWithin(k, last, last, dt, charge.integral)
    <3>1. last <= last
      BY <1>1
    <3> QED
      BY <1>1, <2>4, <3>1, RestingBetween
  <2>5. Bounded(m.exp_rate, last, dt, charge)
    <3> HIDE DEF charge
    <3> QED
      BY <2>3, <2>4, Zenon DEF Bounded, k
  <2> QED
    BY <2>1, <2>5 DEF last
<1> QED
  BY <1>3, <1>4, <1>5

\* Debtors are charged for a rate between the one they had and the one they
\* get: at every utilization, whatever the model, the charge for a period lies
\* between what the lower and what the higher of the two rates would have cost
\* for all of it, but for the roundings the slack names: also where the rate
\* meets its limit on the way, and where e^-kt is less than one unit.
THEOREM ChargeHolds == Spec => []ChargeBetweenRates
<1>1. RateInv => ChargeBetweenRates
  <2> DEFINE m == rate_model
             start == Greater(last_rate, rate_model.min_rate)
             k == rate_model.exp_rate
  <2> SUFFICES ASSUME RateInv PROVE ChargeBetweenRates
    OBVIOUS
  <2> SUFFICES ASSUME NEW util \in Utils
               PROVE  LET charge == Accrual(elapsed, util)
                          low   == Lesser(start, charge.rate)
                          high  == Greater(start, charge.rate)
                          area  == charge.integral * MILLISECONDS_PER_YEAR
                          slack == (NAD + 9 * high) \div k + high
                      IN  /\ elapsed > 0 /\ k > 0
                          /\ charge.rate < MaxU64 /\ charge.integral < MaxU64
                          => /\ low * elapsed <= area + slack
                             /\ area <= high * elapsed + slack + MILLISECONDS_PER_YEAR
    BY Zenon DEF ChargeBetweenRates
  <2> SUFFICES ASSUME elapsed > 0, k > 0 PROVE Bounded(k, start, elapsed, Accrual(elapsed, util))
    <3> HIDE DEF k, start
    <3> QED
      BY Zenon DEF Bounded, ChargeWithin
  <2>1. /\ util \in U64 /\ IsRateModel(m) /\ last_rate \in U64
        /\ elapsed \in Nat /\ elapsed > 0 /\ elapsed <= MaxElapsed
    BY UtilsAssumption DEF RateInv
  <2>2. m.exp_rate <= NATURAL_LOG_OF_TWO_NAD \div MIN_RATE_HALF_LIFE_MS
    <3>1. PICK a \in Models : rate_model = New(a)
      BY DEF RateInv
    <3>2. a \in RateArgs /\ ValidRateParams(a)
      BY <3>1, ModelsAssumption
    <3>3. /\ a.half_life_ms \in MIN_RATE_HALF_LIFE_MS .. MAX_RATE_HALF_LIFE_MS
          /\ a.half_life_ms \in Nat
      BY <3>2 DEF ValidRateParams, RateArgs
    <3>4. m.exp_rate = NATURAL_LOG_OF_TWO_NAD \div a.half_life_ms
      BY <3>1 DEF New
    <3> DEFINE h == a.half_life_ms
    <3>5. h \in Nat \ {0} /\ MIN_RATE_HALF_LIFE_MS <= h
      BY <3>3, RateTimeAssumption
    <3> HIDE DEF h
    <3>6. NATURAL_LOG_OF_TWO_NAD \div h <= NATURAL_LOG_OF_TWO_NAD \div MIN_RATE_HALF_LIFE_MS
      BY <3>5, RateTimeAssumption, ScaleAssumption, DivAntitone
    <3> QED
      BY <3>4, <3>6 DEF h
  <2> QED
    BY <2>1, <2>2, AnswerBetween DEF Accrual
<1> QED
  BY <1>1, RateTyped, PTL

=============================================================================
