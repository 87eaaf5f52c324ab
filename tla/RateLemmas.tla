----------------------------- MODULE RateLemmas -----------------------------
(***************************************************************************)
(* What calculate_rate returns, for every model that validation accepts,   *)
(* every utilization and every length of time: a rate within the model's   *)
(* limits and a charge that is a u64.  The only facts about the            *)
(* exponential they rest on are that e^-x is at most one and that the      *)
(* program's version of it never wraps.                                    *)
(***************************************************************************)
EXTENDS RateModel, FixedPointLemmas

IsRateModel(m) ==
  /\ m.exp_rate \in 0 .. NATURAL_LOG_OF_TWO_NAD
  /\ m.target_util_start \in Nat
  /\ m.target_util_end \in Nat
  /\ m.target_util_start <= m.target_util_end
  /\ m.min_rate \in U64
  /\ m.max_rate \in U64
  /\ m.max_rate > 0 => m.min_rate <= m.max_rate

----------------------------------------------------------------------------
(* Rate models. *)

\* one is a u64
LEMMA OneInU64 == NAD \in Nat \ {0} /\ NAD <= MaxU64 /\ NAD \in U64 /\ MaxU64 \in Nat
BY ScaleAssumption, WidthAssumption, RateFitsAssumption
DEF MAX_ALLOWED_RATE_BPS, RATE_BPS, U64

\* so is ten times one, and a u128 holds a hundred times its square
LEMMA ScaleWithinWidth ==
  /\ 10 * NAD <= MaxU64 /\ NAD <= MaxU64
  /\ 100 * (NAD * NAD) <= MaxU128 /\ NAD * NAD < MaxU128 /\ NAD * NAD \in Nat \ {0}
<1>1. NAD \in Nat \ {0} /\ MaxU64 \in Nat /\ MaxU128 \in Nat /\ MaxU64 * MaxU64 <= MaxU128
  BY ScaleAssumption, WidthAssumption
<1>2. 10 * NAD <= MaxU64
  <2>1. (NAD * 100000) \div 10000 <= MaxU64
    BY RateFitsAssumption DEF MAX_ALLOWED_RATE_BPS, RATE_BPS
  <2> QED
    BY <1>1, <2>1
<1> DEFINE t == 10 * NAD
<1>3. t * t <= MaxU64 * MaxU64 /\ t * t \in Nat
  <2>1. t \in Nat /\ t <= MaxU64
    BY <1>1, <1>2
  <2> HIDE DEF t
  <2>2. /\ t * t <= MaxU64 * t /\ t * MaxU64 <= MaxU64 * MaxU64
        /\ t * t \in Nat /\ t * MaxU64 \in Nat
    BY <1>1, <2>1, MulMonotone, MulNat
  <2> QED
    BY <1>1, <2>1, <2>2
<1>4. t * t = 100 * (NAD * NAD)
  BY <1>1
<1> DEFINE s == NAD * NAD
           u == MaxU64 * MaxU64
<1>5. 100 * s <= u /\ u <= MaxU128 /\ s \in Nat \ {0} /\ u \in Nat
  <2>1. 1 * NAD <= NAD * NAD /\ NAD * NAD \in Nat
    BY <1>1, MulMonotone, MulNat
  <2> QED
    BY <1>1, <1>3, <1>4, <2>1, MulNat
<1> HIDE DEF s, u
<1>6. 100 * s <= MaxU128 /\ s < MaxU128
  BY <1>1, <1>5
<1> QED
  BY <1>1, <1>2, <1>5, <1>6 DEF s

\* basis points become a rate in the same order, and legal ones fit
LEMMA BpsToNadRange ==
  ASSUME NEW a \in Nat, NEW b \in Nat, a <= b, b <= MAX_ALLOWED_RATE_BPS
  PROVE  /\ BpsToNad(a) \in U64
         /\ BpsToNad(b) \in U64
         /\ BpsToNad(a) <= BpsToNad(b)
<1>1. RATE_BPS \in Nat \ {0} /\ MAX_ALLOWED_RATE_BPS \in Nat
  BY DEF RATE_BPS, MAX_ALLOWED_RATE_BPS
<1>2. \A p, q \in Nat : p <= q =>
        /\ BpsToNad(p) \in Nat
        /\ BpsToNad(q) \in Nat
        /\ BpsToNad(p) <= BpsToNad(q)
  <2> SUFFICES ASSUME NEW p \in Nat, NEW q \in Nat, p <= q
               PROVE  /\ BpsToNad(p) \in Nat
                      /\ BpsToNad(q) \in Nat
                      /\ BpsToNad(p) <= BpsToNad(q)
    OBVIOUS
  <2>1. NAD * p \in Nat /\ NAD * q \in Nat /\ NAD * p <= NAD * q
    <3>1. p * NAD <= q * NAD
      BY OneInU64, MulMonotone
    <3> QED
      BY <3>1, OneInU64, MulNat, SMT
  <2>2. /\ (NAD * p) \div RATE_BPS \in Nat
        /\ RATE_BPS * ((NAD * p) \div RATE_BPS) <= NAD * p
        /\ (NAD * q) \div RATE_BPS \in Nat
    BY <1>1, <2>1, DivFloor
  <2>3. (NAD * q) \div RATE_BPS >= (NAD * p) \div RATE_BPS
    BY <1>1, <2>1, <2>2, DivAtLeast DEF RATE_BPS
  <2> QED
    BY <2>2, <2>3 DEF BpsToNad
<1>3. BpsToNad(MAX_ALLOWED_RATE_BPS) <= MaxU64
  BY RateFitsAssumption DEF BpsToNad
<1>4. BpsToNad(a) <= BpsToNad(b) /\ BpsToNad(b) <= BpsToNad(MAX_ALLOWED_RATE_BPS)
  BY <1>1, <1>2
<1> QED
  BY <1>1, <1>2, <1>3, <1>4, OneInU64 DEF U64

\* what governance may create is a rate model
LEMMA NewIsRateModel ==
  ASSUME NEW a \in RateArgs, ValidUtilBounds(a), ValidRateParams(a)
  PROVE  /\ IsRateModel(New(a))
         /\ New(a).initial_rate \in U64
<1>1. a \in RateArgs /\ ValidUtilBounds(a) /\ ValidRateParams(a)
  OBVIOUS
<1>2. /\ a.half_life_ms \in Nat \ {0}
      /\ a.target_util_start \in Nat /\ a.target_util_end \in Nat
      /\ a.target_util_start <= a.target_util_end
      /\ a.target_util_end <= MAX_ALLOWED_RATE_BPS
      /\ a.min_rate \in Nat /\ a.max_rate \in Nat /\ a.initial_rate \in Nat
      /\ a.min_rate <= MAX_ALLOWED_RATE_BPS
      /\ a.max_rate <= MAX_ALLOWED_RATE_BPS
      /\ a.initial_rate <= MAX_ALLOWED_RATE_BPS
      /\ a.max_rate > 0 => a.min_rate <= a.max_rate
  <2>1. /\ a.half_life_ms \in Nat /\ a.target_util_start \in Nat /\ a.target_util_end \in Nat
        /\ a.min_rate \in Nat /\ a.max_rate \in Nat /\ a.initial_rate \in Nat
    BY <1>1 DEF RateArgs
  <2>2. a.half_life_ms > 0
    <3>1. a.half_life_ms \in MIN_RATE_HALF_LIFE_MS .. MAX_RATE_HALF_LIFE_MS
      BY <1>1 DEF ValidRateParams
    <3> QED
      BY <2>1, <3>1, RateTimeAssumption
  <2>3. a.target_util_start <= a.target_util_end /\ a.target_util_end <= MAX_ALLOWED_RATE_BPS
    BY <1>1, <2>1 DEF ValidUtilBounds, MAX_TARGET_UTIL_BPS, MAX_ALLOWED_RATE_BPS
  <2>4. a.initial_rate <= MAX_ALLOWED_RATE_BPS
    <3>1. a.initial_rate \in MIN_INITIAL_RATE_BPS .. MAX_INITIAL_RATE_BPS
      BY <1>1 DEF ValidRateParams
    <3>2. /\ MIN_INITIAL_RATE_BPS \in Nat /\ MAX_INITIAL_RATE_BPS \in Nat
          /\ MAX_ALLOWED_RATE_BPS \in Nat /\ MAX_INITIAL_RATE_BPS <= MAX_ALLOWED_RATE_BPS
      BY DEF MIN_INITIAL_RATE_BPS, MAX_INITIAL_RATE_BPS, MAX_ALLOWED_RATE_BPS
    <3> QED
      BY <2>1, <3>1, <3>2
  <2>5. /\ a.min_rate <= MAX_ALLOWED_RATE_BPS
        /\ a.max_rate > 0 => a.max_rate <= MAX_ALLOWED_RATE_BPS /\ a.min_rate <= a.max_rate
    BY <1>1, Zenon DEF ValidRateParams
  <2>6. a.max_rate <= MAX_ALLOWED_RATE_BPS
    BY <2>1, <2>5 DEF MAX_ALLOWED_RATE_BPS
  <2> QED
    BY <2>1, <2>2, <2>3, <2>4, <2>5, <2>6
<1>3. /\ BpsToNad(a.min_rate) \in U64
      /\ BpsToNad(a.max_rate) \in U64
      /\ BpsToNad(a.initial_rate) \in U64
      /\ BpsToNad(a.target_util_start) \in U64
      /\ BpsToNad(a.target_util_end) \in U64
      /\ BpsToNad(a.target_util_start) <= BpsToNad(a.target_util_end)
  BY <1>2, BpsToNadRange
<1>4. a.max_rate > 0 => BpsToNad(a.min_rate) <= BpsToNad(a.max_rate)
  BY <1>2, BpsToNadRange
<1>5. a.max_rate = 0 => BpsToNad(a.max_rate) = 0
  BY OneInU64 DEF BpsToNad, RATE_BPS
<1>6. NATURAL_LOG_OF_TWO_NAD \div a.half_life_ms \in 0 .. NATURAL_LOG_OF_TWO_NAD
  <2> DEFINE l == NATURAL_LOG_OF_TWO_NAD
             h == a.half_life_ms
  <2>1. l \in Nat /\ h \in Nat \ {0} /\ l * 1 <= l * h /\ l * h \in Nat
    <3>1. l \in Nat /\ h \in Nat \ {0}
      BY <1>2, ScaleAssumption
    <3> HIDE DEF l, h
    <3>2. 1 * l <= h * l /\ h * l \in Nat
      BY <3>1, MulMonotone, MulNat
    <3> QED
      BY <3>1, <3>2
  <2> HIDE DEF l, h
  <2>2. l \div h \in Nat /\ l \div h <= l
    BY <2>1, DivFloor, DivAtMost
  <2> QED
    BY <2>1, <2>2 DEF l, h
<1>7. a.max_rate > 0 \/ a.max_rate = 0
  BY <1>2
<1> QED
  BY <1>3, <1>4, <1>5, <1>6, <1>7 DEF New, IsRateModel, U64

----------------------------------------------------------------------------
(* A rate between two accruals. *)

\* with a positive exponent the decay factor is at most one
LEMMA DecayFactorAtMostOne ==
  ASSUME NEW m, IsRateModel(m), m.exp_rate > 0, NEW dt \in Nat, dt > 0
  PROVE  DecayFactor(m, dt) \in Nat /\ DecayFactor(m, dt) <= NAD
<1>1. m.exp_rate \in Nat \ {0} /\ MaxU128 \in Nat \ {0}
  BY WidthAssumption DEF IsRateModel
<1>2. m.exp_rate * dt \in Nat /\ m.exp_rate * dt >= 1
  BY <1>1, MulNat, MulMonotone, SMT
<1>3. SatMul128(m.exp_rate, dt) \in Nat /\ SatMul128(m.exp_rate, dt) > 0
  BY <1>1, <1>2 DEF SatMul128
<1> QED
  BY <1>3, OneInU64, ExpOfMinusAtMostOne DEF DecayFactor

\* growing never lowers a rate
LEMMA GrownAtLeast ==
  ASSUME NEW m, IsRateModel(m), m.exp_rate > 0, NEW dt \in Nat, dt > 0, NEW last \in U64
  PROVE  Grown(m, last, dt) \in Nat /\ Grown(m, last, dt) >= last
<1>1. last \in Nat /\ NAD \in Nat /\ NAD >= 1
  BY OneInU64 DEF U64
<1> DEFINE factor == Greater(DecayFactor(m, dt), 1)
<1>2. factor \in Nat \ {0} /\ factor <= NAD
  BY <1>1, DecayFactorAtMostOne DEF Greater
<1> HIDE DEF factor
<1>3. SatMul128(last, NAD) = last * NAD
  BY OneInU64, ProductInU128 DEF SatMul128
<1>4. last * factor <= last * NAD /\ last * NAD \in Nat
  <2>1. factor * last <= NAD * last
    BY <1>1, <1>2, MulMonotone
  <2> QED
    BY <1>1, <1>2, <2>1, MulNat, SMT
<1>5. (last * NAD) \div factor \in Nat /\ (last * NAD) \div factor >= last
  BY <1>1, <1>2, <1>4, DivFloor, DivAtLeast
<1> QED
  BY <1>3, <1>5 DEF Grown, factor

\* decaying never raises a rate
LEMMA DecayedAtMost ==
  ASSUME NEW m, IsRateModel(m), m.exp_rate > 0, NEW dt \in Nat, dt > 0, NEW last \in U64
  PROVE  Decayed(m, last, dt) \in Nat /\ Decayed(m, last, dt) <= last
<1> DEFINE factor == DecayFactor(m, dt)
<1>1. last \in Nat /\ NAD \in Nat \ {0} /\ NAD <= MaxU64 /\ MaxU64 \in Nat
  BY OneInU64 DEF U64
<1>2. factor \in Nat /\ factor <= NAD /\ factor \in U64
  BY <1>1, DecayFactorAtMostOne DEF U64
<1> HIDE DEF factor
<1>3. SatMul128(last, factor) = last * factor
  BY <1>2, ProductInU128 DEF SatMul128
<1>4. last * factor \in Nat /\ last * factor < last * NAD + NAD
  <2>1. factor * last <= NAD * last
    BY <1>1, <1>2, MulMonotone
  <2> QED
    BY <1>1, <1>2, <2>1, MulNat, SMT
<1>5. (last * factor) \div NAD \in Nat /\ (last * factor) \div NAD <= last
  BY <1>1, <1>4, DivFloor, DivAtMost
<1> QED
  BY <1>3, <1>5 DEF Decayed, factor

\* the rate calculate_rate returns
NewRate(m, last, dt, util) == CalculateRate(m, last, dt, util).rate

\* the branches of calculate_rate, by utilization and limits
LEMMA RateBranches ==
  ASSUME NEW m, IsRateModel(m), NEW last_r \in U64, NEW dt \in Nat, dt > 0, NEW util \in U64
  PROVE  LET last == Greater(last_r, m.min_rate)
         IN  /\ util > m.target_util_end =>
                  NewRate(m, last_r, dt, util) =
                    Lesser(IF HitsMax(m, last, dt) THEN m.max_rate ELSE Grown(m, last, dt), MaxU64)
             /\ ~(util > m.target_util_end) /\ util < m.target_util_start =>
                  NewRate(m, last_r, dt, util) =
                    Lesser(IF HitsMin(m, last, dt) THEN m.min_rate ELSE Decayed(m, last, dt), MaxU64)
             /\ ~(util > m.target_util_end) /\ ~(util < m.target_util_start) =>
                  NewRate(m, last_r, dt, util) = Lesser(last, MaxU64)
<1> DEFINE last == Greater(last_r, m.min_rate)
           high == util > m.target_util_end
           low  == util < m.target_util_start
           up   == Grown(m, last, dt)
           down == Decayed(m, last, dt)
           rises == IF ~HitsMax(m, last, dt) THEN Moving(m, last, up, up)
                    ELSE IF last >= m.max_rate THEN Resting(m.max_rate, dt)
                    ELSE ToLimit(m, last, m.max_rate, m.max_rate, dt)
           falls == IF ~HitsMin(m, last, dt) THEN Moving(m, down, last, down)
                    ELSE IF last <= m.min_rate THEN Resting(m.min_rate, dt)
                    ELSE ToLimit(m, m.min_rate, last, m.min_rate, dt)
<1>1. dt # 0
  OBVIOUS
<1>2. CalculateRate(m, last_r, dt, util) =
        CASE dt = 0 -> [rate |-> last_r, integral |-> 0]
          [] dt > 0 /\ high -> rises
          [] dt > 0 /\ low -> falls
          [] OTHER -> Resting(last, dt)
  BY DEF CalculateRate
<1>3. rises.rate = Lesser(IF HitsMax(m, last, dt) THEN m.max_rate ELSE up, MaxU64)
  BY DEF Moving, Resting, ToLimit, Charge
<1>4. falls.rate = Lesser(IF HitsMin(m, last, dt) THEN m.min_rate ELSE down, MaxU64)
  BY DEF Moving, Resting, ToLimit, Charge
<1>5. Resting(last, dt).rate = Lesser(last, MaxU64)
  BY DEF Resting, Charge
<1>6. ~(high /\ low)
  BY DEF IsRateModel, U64
<1> HIDE DEF rises, falls, high, low, last
<1>7. high => CalculateRate(m, last_r, dt, util) = rises
  BY <1>1, <1>2, <1>6
<1>8. ~high /\ low => CalculateRate(m, last_r, dt, util) = falls
  BY <1>1, <1>2
<1>9. ~high /\ ~low => CalculateRate(m, last_r, dt, util) = Resting(last, dt)
  BY <1>1, <1>2
<1> QED
  BY <1>3, <1>4, <1>5, <1>7, <1>8, <1>9 DEF NewRate, high, low, last

\* its floor, and its ceiling for a rate that was not above it
LEMMA RateWithinLimits ==
  ASSUME NEW m, IsRateModel(m), NEW last_r \in U64, NEW dt \in Nat, dt > 0,
         NEW util \in U64, CalculateRateOk(m, last_r, dt, util)
  PROVE  /\ NewRate(m, last_r, dt, util) \in U64
         /\ NewRate(m, last_r, dt, util) >= m.min_rate
         /\ m.max_rate > 0 /\ last_r <= m.max_rate =>
              NewRate(m, last_r, dt, util) <= m.max_rate
<1> DEFINE last == Greater(last_r, m.min_rate)
           up   == Grown(m, last, dt)
           down == Decayed(m, last, dt)
           rate == NewRate(m, last_r, dt, util)
<1>1. /\ MaxU64 \in Nat /\ m.min_rate \in U64 /\ m.max_rate \in U64
      /\ last \in U64 /\ last >= m.min_rate
      /\ m.max_rate > 0 => m.min_rate <= m.max_rate
      /\ m.max_rate > 0 /\ last_r <= m.max_rate => last <= m.max_rate
  BY OneInU64 DEF U64, IsRateModel, Greater
<1>2. /\ util > m.target_util_end =>
             rate = Lesser(IF HitsMax(m, last, dt) THEN m.max_rate ELSE up, MaxU64)
      /\ ~(util > m.target_util_end) /\ util < m.target_util_start =>
             rate = Lesser(IF HitsMin(m, last, dt) THEN m.min_rate ELSE down, MaxU64)
      /\ ~(util > m.target_util_end) /\ ~(util < m.target_util_start) =>
             rate = Lesser(last, MaxU64)
  BY RateBranches
<1>3. /\ util > m.target_util_end /\ ~HitsMax(m, last, dt) => m.exp_rate > 0
      /\ util < m.target_util_start /\ ~HitsMin(m, last, dt) => m.exp_rate > 0
  <2>1. /\ m.target_util_start \in Nat /\ m.target_util_end \in Nat
        /\ m.target_util_start <= m.target_util_end /\ util \in Nat
    BY DEF IsRateModel, U64
  <2>2. /\ util > m.target_util_end => ~(util \in m.target_util_start .. m.target_util_end)
        /\ util > m.target_util_end => ~(util < m.target_util_start)
        /\ util < m.target_util_start => ~(util \in m.target_util_start .. m.target_util_end)
        /\ util < m.target_util_start => ~(util > m.target_util_end)
    BY <2>1
  <2>3. dt # 0
    OBVIOUS
  <2> QED
    BY <2>2, <2>3, Zenon DEF CalculateRateOk
<1> HIDE DEF rate, last
<1>4. CASE util > m.target_util_end
  <2>1. CASE HitsMax(m, last, dt)
    BY <1>1, <1>2, <1>4, <2>1 DEF HitsMax, Lesser, U64, rate
  <2>2. CASE ~HitsMax(m, last, dt)
    <3>1. up \in Nat /\ up >= last
      BY <1>1, <1>3, <1>4, <2>2, GrownAtLeast
    <3>2. m.max_rate > 0 => up <= m.max_rate
      BY <1>1, <2>2, <3>1 DEF HitsMax, U64
    <3>3. rate = Lesser(up, MaxU64)
      BY <1>2, <1>4, <2>2
    <3> HIDE DEF up
    <3>4. rate \in U64 /\ rate >= m.min_rate /\ (m.max_rate > 0 => rate <= m.max_rate)
      BY <1>1, <3>1, <3>2, <3>3 DEF Lesser, U64
    <3> QED
      BY <3>4 DEF rate
  <2> QED
    BY <2>1, <2>2
<1>5. CASE ~(util > m.target_util_end) /\ util < m.target_util_start
  <2>1. CASE HitsMin(m, last, dt)
    BY <1>1, <1>2, <1>5, <2>1 DEF Lesser, U64, rate
  <2>2. CASE ~HitsMin(m, last, dt)
    <3>1. down \in Nat /\ down <= last
      BY <1>1, <1>3, <1>5, <2>2, DecayedAtMost
    <3>2. down >= m.min_rate
      BY <1>1, <2>2, <3>1 DEF HitsMin, U64
    <3>3. rate = Lesser(down, MaxU64)
      BY <1>2, <1>5, <2>2
    <3> HIDE DEF down
    <3>4. /\ rate \in U64 /\ rate >= m.min_rate
          /\ m.max_rate > 0 /\ last_r <= m.max_rate => rate <= m.max_rate
      BY <1>1, <3>1, <3>2, <3>3 DEF Lesser, U64
    <3> QED
      BY <3>4 DEF rate
  <2> QED
    BY <2>1, <2>2
<1>6. CASE ~(util > m.target_util_end) /\ ~(util < m.target_util_start)
  BY <1>1, <1>2, <1>6 DEF Lesser, U64, rate
<1> QED
  BY <1>4, <1>5, <1>6

----------------------------------------------------------------------------
(* What a period is charged. *)

\* a saturating product of naturals is a natural
LEMMA SatMul128Nat ==
  ASSUME NEW a \in Nat, NEW b \in Nat
  PROVE  SatMul128(a, b) \in Nat
BY MulNat, WidthAssumption DEF SatMul128

\* a natural area is charged as a u64
LEMMA ChargeInU64 ==
  ASSUME NEW rate, NEW area \in Nat
  PROVE  Charge(rate, area).integral \in U64
<1>1. CeilDiv(area, MILLISECONDS_PER_YEAR) \in Nat /\ area \div MILLISECONDS_PER_YEAR \in Nat
  BY RateTimeAssumption, CeilDivNat, DivFloor
<1>2. CeilDivOr(area, MILLISECONDS_PER_YEAR) \in Nat
  BY <1>1 DEF CeilDivOr
<1> QED
  BY <1>2, CutInU64 DEF Charge

\* the exponential's area is natural, from the lower rate to the higher
LEMMA MovingInU64 ==
  ASSUME NEW m, IsRateModel(m), m.exp_rate > 0, NEW low \in Nat, NEW high \in Nat,
         low <= high, NEW rate
  PROVE  Moving(m, low, high, rate).integral \in U64
<1>1. m.exp_rate \in Nat \ {0} /\ high - low \in Nat /\ NAD \in Nat
  BY OneInU64 DEF IsRateModel
<1>2. SatMul128(high - low, NAD) \in Nat
  BY <1>1, SatMul128Nat
<1>3. SatMul128(high - low, NAD) \div m.exp_rate \in Nat
  BY <1>1, <1>2, DivFloor
<1> QED
  BY <1>3, ChargeInU64 DEF Moving

\* every branch of calculate_rate that does not panic charges a u64
LEMMA IntegralInU64 ==
  ASSUME NEW m, IsRateModel(m), NEW last_r \in U64, NEW dt \in Nat, NEW util \in U64,
         CalculateRateOk(m, last_r, dt, util)
  PROVE  CalculateRate(m, last_r, dt, util).integral \in U64
<1> DEFINE last == Greater(last_r, m.min_rate)
           up   == Grown(m, last, dt)
           down == Decayed(m, last, dt)
           high == util > m.target_util_end
           low  == util < m.target_util_start
           rises == IF ~HitsMax(m, last, dt) THEN Moving(m, last, up, up)
                    ELSE IF last >= m.max_rate THEN Resting(m.max_rate, dt)
                    ELSE ToLimit(m, last, m.max_rate, m.max_rate, dt)
           falls == IF ~HitsMin(m, last, dt) THEN Moving(m, down, last, down)
                    ELSE IF last <= m.min_rate THEN Resting(m.min_rate, dt)
                    ELSE ToLimit(m, m.min_rate, last, m.min_rate, dt)
<1>1. /\ last \in U64 /\ last \in Nat /\ m.max_rate \in Nat /\ m.min_rate \in Nat
      /\ m.target_util_start \in Nat /\ m.target_util_end \in Nat
      /\ m.target_util_start <= m.target_util_end /\ util \in Nat /\ m.exp_rate \in Nat
  BY DEF U64, IsRateModel, Greater
<1>2. CalculateRate(m, last_r, dt, util) =
        CASE dt = 0 -> [rate |-> last_r, integral |-> 0]
          [] dt > 0 /\ high -> rises
          [] dt > 0 /\ low -> falls
          [] OTHER -> Resting(last, dt)
  BY DEF CalculateRate
<1>3. \A rate \in Nat : Resting(rate, dt).integral \in U64
  BY SatMul128Nat, ChargeInU64 DEF Resting
<1>4. ASSUME dt > 0, high PROVE rises.integral \in U64
  <2>1. /\ ~(dt = 0) /\ ~(util \in m.target_util_start .. m.target_util_end)
        /\ ~(util < m.target_util_start)
    BY <1>1, <1>4
  <2>2. CASE ~HitsMax(m, last, dt)
    <3>1. m.exp_rate > 0
      BY <2>1, <2>2, Zenon DEF CalculateRateOk
    <3>2. up \in Nat /\ last <= up
      BY <1>1, <1>4, <3>1, GrownAtLeast
    <3> HIDE DEF last, up
    <3>3. Moving(m, last, up, up).integral \in U64
      BY <1>1, <3>1, <3>2, MovingInU64
    <3> QED
      BY <2>2, <3>3
  <2>3. CASE HitsMax(m, last, dt) /\ last >= m.max_rate
    BY <1>1, <1>3, <2>3
  <2>4. CASE HitsMax(m, last, dt) /\ ~(last >= m.max_rate)
    <3>1. AreaToLimit(m, last, m.max_rate, m.max_rate, dt) \in U128
      BY <1>4, <2>1, <2>4, Zenon DEF CalculateRateOk
    <3>2. AreaToLimit(m, last, m.max_rate, m.max_rate, dt) \in Nat
      BY <3>1, WidthAssumption DEF U128
    <3>3. ToLimit(m, last, m.max_rate, m.max_rate, dt).integral \in U64
      BY <3>2, ChargeInU64 DEF ToLimit
    <3> QED
      BY <2>4, <3>3
  <2> QED
    BY <2>2, <2>3, <2>4
<1>5. ASSUME dt > 0, low PROVE falls.integral \in U64
  <2>1. /\ ~(dt = 0) /\ ~(util \in m.target_util_start .. m.target_util_end)
        /\ ~(util > m.target_util_end)
    BY <1>1, <1>5
  <2>2. CASE ~HitsMin(m, last, dt)
    <3>1. m.exp_rate > 0
      BY <2>1, <2>2, Zenon DEF CalculateRateOk
    <3>2. down \in Nat /\ down <= last
      BY <1>1, <1>5, <3>1, DecayedAtMost
    <3> HIDE DEF last, down
    <3>3. Moving(m, down, last, down).integral \in U64
      BY <1>1, <3>1, <3>2, MovingInU64
    <3> QED
      BY <2>2, <3>3
  <2>3. CASE HitsMin(m, last, dt) /\ last <= m.min_rate
    BY <1>1, <1>3, <2>3
  <2>4. CASE HitsMin(m, last, dt) /\ ~(last <= m.min_rate)
    <3>1. AreaToLimit(m, m.min_rate, last, m.min_rate, dt) \in U128
      BY <1>5, <2>1, <2>4, Zenon DEF CalculateRateOk
    <3>2. AreaToLimit(m, m.min_rate, last, m.min_rate, dt) \in Nat
      BY <3>1, WidthAssumption DEF U128
    <3>3. ToLimit(m, m.min_rate, last, m.min_rate, dt).integral \in U64
      BY <3>2, ChargeInU64 DEF ToLimit
    <3> QED
      BY <2>4, <3>3
  <2> QED
    BY <2>2, <2>3, <2>4
<1>6. 0 \in U64 /\ (dt = 0 \/ dt > 0) /\ Resting(last, dt).integral \in U64 /\ ~(high /\ low)
  BY <1>1, <1>3, WidthAssumption DEF U64
<1> HIDE DEF rises, falls, high, low, last
<1>7. CASE dt = 0
  BY <1>2, <1>6, <1>7
<1>8. CASE dt > 0 /\ high
  BY <1>2, <1>4, <1>6, <1>8
<1>9. CASE dt > 0 /\ ~high /\ low
  BY <1>2, <1>5, <1>6, <1>9
<1>10. CASE dt > 0 /\ ~high /\ ~low
  BY <1>2, <1>6, <1>10
<1> QED
  BY <1>6, <1>7, <1>8, <1>9, <1>10

----------------------------------------------------------------------------
(* ln_nad is defined everywhere, and an integer. *)

\* the halving of ln_nad as a function over D
IsHalving(h, D) ==
  h = [z \in D |-> IF z >= 2 * NAD THEN [h[z \div 2] EXCEPT !.halvings = @ + 1]
                   ELSE [z |-> z, halvings |-> 0]]

\* half of a number is less, unless it is zero
LEMMA HalfIsLess ==
  ASSUME NEW n \in Nat, NEW z \in 0 .. n + 1, z >= 2 * NAD
  PROVE  z \div 2 \in 0 .. n
<1>1. z >= 2
  BY ScaleAssumption
<1> QED
  BY <1>1

\* halving ends
LEMMA HalvingExists ==
  ASSUME NEW x \in Nat
  PROVE  \E h : IsHalving(h, 0 .. x)
<1> DEFINE N == {n \in Nat : \E h : IsHalving(h, 0 .. n)}
<1>1. 0 \in N
  <2> DEFINE h == [z \in 0 .. 0 |-> [z |-> z, halvings |-> 0]]
  <2>1. \A z \in 0 .. 0 : ~(z >= 2 * NAD)
    BY ScaleAssumption
  <2>2. IsHalving(h, 0 .. 0)
    BY <2>1 DEF IsHalving
  <2> QED
    BY <2>2
<1>2. ASSUME NEW n \in Nat, n \in N
      PROVE  n + 1 \in N
  <2>1. PICK f : IsHalving(f, 0 .. n)
    BY <1>2
  <2> DEFINE h == [z \in 0 .. n + 1 |->
                     IF z >= 2 * NAD THEN [f[z \div 2] EXCEPT !.halvings = @ + 1]
                     ELSE [z |-> z, halvings |-> 0]]
  <2>2. \A z \in 0 .. n : z \in 0 .. n + 1
    OBVIOUS
  <2>3. \A z \in 0 .. n : h[z] = f[z]
    BY <2>1, <2>2, Zenon DEF IsHalving
  <2>4. \A z \in 0 .. n + 1 :
          h[z] = IF z >= 2 * NAD THEN [h[z \div 2] EXCEPT !.halvings = @ + 1]
                 ELSE [z |-> z, halvings |-> 0]
    <3> TAKE z \in 0 .. n + 1
    <3>1. CASE z >= 2 * NAD
      <4>1. h[z \div 2] = f[z \div 2]
        BY <2>3, <3>1, HalfIsLess
      <4>2. h[z] = [f[z \div 2] EXCEPT !.halvings = @ + 1]
        BY <3>1
      <4> HIDE DEF h
      <4> QED
        BY <3>1, <4>1, <4>2
    <3>2. CASE ~(z >= 2 * NAD)
      BY <3>2
    <3> QED
      BY <3>1, <3>2
  <2>5. IsHalving(h, 0 .. n + 1)
    <3>1. h = [z \in 0 .. n + 1 |-> h[z]]
      OBVIOUS
    <3> HIDE DEF h
    <3> QED
      BY <2>4, <3>1, Zenon DEF IsHalving
  <2> QED
    BY <2>5
<1>3. Nat \subseteq N
  <2> HIDE DEF N
  <2> QED
    BY <1>1, <1>2, Induction
<1> QED
  BY <1>3

\* it leaves a natural number and counts how often it halved
LEMMA HalvingTyped ==
  ASSUME NEW x \in Nat, NEW h, IsHalving(h, 0 .. x)
  PROVE  \A z \in 0 .. x : h[z].z \in Nat /\ h[z].halvings \in Nat
<1> DEFINE Typed(z) == h[z] \in [z : Nat, halvings : Nat]
           N == {n \in Nat : \A z \in 0 .. x : z <= n => Typed(z)}
<1>1. \A z \in 0 .. x :
        h[z] = IF z >= 2 * NAD THEN [h[z \div 2] EXCEPT !.halvings = @ + 1]
               ELSE [z |-> z, halvings |-> 0]
  BY Zenon DEF IsHalving
<1>2. 0 \in N
  <2>1. ASSUME NEW z \in 0 .. x, z <= 0 PROVE Typed(z)
    <3>1. ~(z >= 2 * NAD) /\ z \in Nat
      BY <2>1, ScaleAssumption
    <3>2. h[z] = [z |-> z, halvings |-> 0]
      BY <1>1, <3>1
    <3> QED
      BY <3>1, <3>2
  <2> QED
    BY <2>1
<1>3. ASSUME NEW n \in Nat, n \in N
      PROVE  n + 1 \in N
  <2>1. ASSUME NEW z \in 0 .. x, z <= n + 1 PROVE Typed(z)
    <3>1. CASE z >= 2 * NAD
      <4>1. z \div 2 \in 0 .. n /\ z \div 2 \in 0 .. x
        <5>1. z \in 0 .. n + 1 /\ z \in 0 .. x + 1
          BY <2>1
        <5> QED
          BY <3>1, <5>1, HalfIsLess
      <4>2. Typed(z \div 2)
        BY <1>3, <4>1
      <4>3. h[z] = [h[z \div 2] EXCEPT !.halvings = @ + 1]
        BY <1>1, <3>1
      <4> QED
        BY <4>2, <4>3
    <3>2. CASE ~(z >= 2 * NAD)
      <4>1. h[z] = [z |-> z, halvings |-> 0]
        BY <1>1, <3>2, Zenon
      <4>2. z \in Nat
        OBVIOUS
      <4> QED
        BY <4>1, <4>2
    <3> QED
      BY <3>1, <3>2
  <2> QED
    BY <2>1
<1>4. Nat \subseteq N
  <2> HIDE DEF N
  <2> QED
    BY <1>2, <1>3, Induction
<1>5. \A z \in 0 .. x : Typed(z)
  BY <1>4
<1> QED
  BY <1>5

\* a logarithm is an integer
LEMMA LnNadInt ==
  ASSUME NEW x \in Nat
  PROVE  LnNad(x) \in Int
<1> DEFINE h == CHOOSE f : IsHalving(f, 0 .. x)
           z  == h[x].z
           v  == ((z - NAD) * NAD) \div (z + NAD)
           v2 == (v * v) \div NAD
           v3 == (v2 * v) \div NAD
           v5 == (v3 * v2) \div NAD
           v7 == (v5 * v2) \div NAD
           v9 == (v7 * v2) \div NAD
<1>1. IsHalving(h, 0 .. x)
  <2>1. \E f : IsHalving(f, 0 .. x)
    BY HalvingExists
  <2> QED
    BY <2>1, Zenon
<1>2. LnNad(x) = 2 * (v + v3 \div 3 + v5 \div 5 + v7 \div 7 + v9 \div 9)
                   + h[x].halvings * NATURAL_LOG_OF_TWO_NAD
  BY DEF LnNad, IsHalving
<1> HIDE DEF h
<1>3. z \in Nat /\ h[x].halvings \in Nat
  BY <1>1, HalvingTyped
<1> HIDE DEF z
<1>4. NAD \in Nat \ {0} /\ NATURAL_LOG_OF_TWO_NAD \in Nat /\ z + NAD \in Nat \ {0}
  BY <1>3, ScaleAssumption
<1>5. \A a, b \in Int, q \in Nat \ {0} : (a * b) \div q \in Int
  <2> TAKE a, b \in Int, q \in Nat \ {0}
  <2>1. a * b \in Int
    OBVIOUS
  <2> DEFINE c == a * b
  <2>2. c \in Int
    BY <2>1
  <2> HIDE DEF c
  <2>3. c \div q \in Int
    BY <2>2
  <2> QED
    BY <2>3 DEF c
<1>6. v \in Int
  BY <1>3, <1>4, <1>5
<1> HIDE DEF v
<1>7. v2 \in Int
  BY <1>4, <1>5, <1>6
<1> HIDE DEF v2
<1>8. v3 \in Int
  BY <1>4, <1>5, <1>6, <1>7
<1> HIDE DEF v3
<1>9. v5 \in Int
  BY <1>4, <1>5, <1>7, <1>8
<1> HIDE DEF v5
<1>10. v7 \in Int
  BY <1>4, <1>5, <1>7, <1>9
<1> HIDE DEF v7
<1>11. v9 \in Int
  BY <1>4, <1>5, <1>7, <1>10
<1> HIDE DEF v9
<1>12. v3 \div 3 \in Int /\ v5 \div 5 \in Int /\ v7 \div 7 \in Int /\ v9 \div 9 \in Int
  BY <1>8, <1>9, <1>10, <1>11
<1> DEFINE k == h[x].halvings * NATURAL_LOG_OF_TWO_NAD
<1>13. k \in Int /\ LnNad(x) = 2 * (v + v3 \div 3 + v5 \div 5 + v7 \div 7 + v9 \div 9) + k
  BY <1>2, <1>3, <1>4
<1> HIDE DEF k
<1> QED
  BY <1>6, <1>12, <1>13

=============================================================================
