----------------------------- MODULE RateControl -----------------------------
(***************************************************************************)
(* The life of one token's interest rate: time passes, Pair::update charges *)
(* debtors for it at whatever utilization it then finds, and governance    *)
(* may give the pair another rate model at any moment, without an update.  *)
(***************************************************************************)
EXTENDS RateModel

CONSTANTS
  Models,          \* arguments of the rate models governance creates
  Utils,           \* utilizations an update may find
  MaxElapsed,      \* bound: an update comes at the latest then
  MaxRate          \* bound: no accrual beyond this rate

ASSUME ModelsAssumption ==
  \A a \in Models : a \in RateArgs /\ ValidUtilBounds(a) /\ ValidRateParams(a)
ASSUME UtilsAssumption == Utils \subseteq U64
ASSUME RateBoundsAssumption == MaxElapsed \in Nat /\ MaxRate \in U64

\* a u128 holds the cube of one, a year's milliseconds for every u64, and the
\* exponent of any elapsed time scaled once more; and no rate moves for so long
\* that its decay is less than one unit
ASSUME RateWidthAssumption ==
  /\ NAD * NAD * NAD <= MaxU128
  /\ (MaxU64 + 1) * MILLISECONDS_PER_YEAR <= MaxU128
  /\ (NATURAL_LOG_OF_TWO_NAD * MaxElapsed) * NAD <= MaxU128
  /\ (NATURAL_LOG_OF_TWO_NAD \div MIN_RATE_HALF_LIFE_MS) * MaxElapsed <= NAD * (NAD - 1)

\* three digits of one, and of ln 2
ASSUME LnTwoAssumption ==
  /\ NAD >= 1000
  /\ 693 * NAD <= 1000 * NATURAL_LOG_OF_TWO_NAD
  /\ 1000 * NATURAL_LOG_OF_TWO_NAD <= 694 * NAD

VARIABLES
  rate_model,      \* the model the pair points to
  last_rate,       \* pair.last_rate0 or last_rate1
  elapsed          \* milliseconds since pair.last_update

vars == <<rate_model, last_rate, elapsed>>

Init ==
  /\ \E a \in Models : rate_model = New(a)
  /\ last_rate = rate_model.initial_rate
  /\ elapsed = 0

Tick ==
  /\ elapsed + TARGET_MS_PER_SLOT <= MaxElapsed
  /\ elapsed' = elapsed + TARGET_MS_PER_SLOT
  /\ UNCHANGED <<rate_model, last_rate>>

Accrue(util) ==
  /\ CalculateRateOk(rate_model, last_rate, elapsed, util)
  /\ CalculateRate(rate_model, last_rate, elapsed, util).rate <= MaxRate
  /\ last_rate' = CalculateRate(rate_model, last_rate, elapsed, util).rate
  /\ elapsed' = 0
  /\ UNCHANGED rate_model

SetPairRateModel(a) ==
  /\ rate_model' = New(a)
  /\ UNCHANGED <<last_rate, elapsed>>

Next ==
  \/ Tick
  \/ \E util \in Utils : Accrue(util)
  \/ \E a \in Models : SetPairRateModel(a)

Spec == Init /\ [][Next]_vars

\* slots go by, and somebody touches the pair again and again: every
\* instruction accrues, and only an accrual sets elapsed to 0
RateFairness == WF_elapsed(Tick) /\ WF_elapsed(elapsed' = 0)

FairSpec == Spec /\ RateFairness

----------------------------------------------------------------------------
Accrual(dt, util) == CalculateRate(rate_model, last_rate, dt, util)

\* The charge lies between what the lower and what the higher of the old and
\* the new rate would cost for all of the time, on every path through
\* calculate_rate, also where the limit cuts the exponential off.  Slack: the
\* unit a rate is rounded by and the nine units the exponent loses when it is
\* divided by ten, over the time they take to grow to one, and one millisecond;
\* the charge itself is rounded up.
ChargeBetweenRates ==
  \A util \in Utils :
    LET charge == Accrual(elapsed, util)
        from   == Greater(last_rate, rate_model.min_rate)
        low    == Lesser(from, charge.rate)
        high   == Greater(from, charge.rate)
        area   == charge.integral * MILLISECONDS_PER_YEAR
        slack  == (NAD + 9 * high) \div rate_model.exp_rate + high
    IN  /\ elapsed > 0 /\ rate_model.exp_rate > 0
        /\ charge.rate < MaxU64 /\ charge.integral < MaxU64
        => /\ low * elapsed <= area + slack
           /\ area <= high * elapsed + slack + MILLISECONDS_PER_YEAR

\* Waiting longer never makes the charge of a period smaller.
ChargeGrowsWithTime ==
  \A util \in Utils :
    /\ elapsed + TARGET_MS_PER_SLOT <= MaxElapsed
    /\ \A dt \in {elapsed, elapsed + TARGET_MS_PER_SLOT} :
          CalculateRateOk(rate_model, last_rate, dt, util)
    => Accrual(elapsed, util).integral <= Accrual(elapsed + TARGET_MS_PER_SLOT, util).integral

\* An update in the middle changes what debtors pay by the roundings only: it
\* neither lets anyone escape interest nor charges it twice.  Slack: each
\* charge is rounded up, the one unit the rate in the middle is rounded by
\* grows with the rate until the end, and e^x is good to two per cent at the
\* resolution of a small NAD.
SplitChargesTheSame ==
  \A util \in Utils :
    LET once   == Accrual(elapsed, util)
        first  == Accrual(TARGET_MS_PER_SLOT, util)
        second == CalculateRate(rate_model, first.rate, elapsed - TARGET_MS_PER_SLOT, util)
        growth == once.rate \div Greater(first.rate, 1) + 1
        unit   == NAD \div rate_model.exp_rate + elapsed
        slack  == (growth * unit) \div MILLISECONDS_PER_YEAR + once.integral \div 50 + 2
    IN  elapsed > TARGET_MS_PER_SLOT /\ once.rate < MaxU64 =>
          /\ once.integral <= first.integral + second.integral + slack
          /\ first.integral + second.integral <= once.integral + slack

\* The limits of the rate model hold after every accrual: a rate is never
\* below the floor, and once at or below the ceiling it never passes it.
AccrualKeepsLimits ==
  [][ elapsed > 0 /\ elapsed' = 0 =>
        /\ last_rate' >= rate_model.min_rate
        /\ rate_model.max_rate > 0 /\ last_rate <= rate_model.max_rate =>
             last_rate' <= rate_model.max_rate ]_vars

\* Every rate model that can be created can be accrued with.
AccrualNeverFails ==
  \A util \in Utils : CalculateRateOk(rate_model, last_rate, elapsed, util)

\* After one half-life of high utilization an uncapped rate has doubled, to five
\* per cent, when exp_rate has lost less than one per cent to the division and
\* the rate is large enough for its own rounding to be as little.
HalfLifeDoubles ==
  /\ elapsed = rate_model.half_life_ms
  /\ rate_model.max_rate = 0
  /\ last_rate >= 100 /\ last_rate >= rate_model.min_rate
  /\ 100 * (NATURAL_LOG_OF_TWO_NAD % rate_model.half_life_ms) <= NATURAL_LOG_OF_TWO_NAD
  /\ Accrual(elapsed, MaxU64).rate < MaxU64
  => 20 * Accrual(elapsed, MaxU64).rate \in 38 * last_rate .. 42 * last_rate

\* every update finds utilization above the band
UnderPressure ==
  Tick \/ \E util \in Utils : util > rate_model.target_util_end /\ Accrue(util)

\* One slot's growth of the floor is a unit or more.  An update keeps whole units
\* only, so a lower rate stays where it is while the pair is touched every slot;
\* a floor that grows takes every rate above it along.
FloorGrowsInASlot(m) ==
  LET decay == Greater(DecayFactor(m, TARGET_MS_PER_SLOT), 1)
  IN  m.min_rate * (NAD - decay) >= decay

\* Pressure works where it survives the rounding: when utilization stays above
\* the band, the rate climbs from wherever lower utilizations and other models
\* have left it to the ceiling of the model and stays there, however often the
\* pair is touched.  calculate_rate's comment, "High util: exponential growth",
\* has no such premise; with the default exponent of 2 and slots of 400 ms only
\* floors of about 0.125% and more meet it, and validation admits lower ones.
HighUtilizationReachesCeiling ==
  <>[][UnderPressure]_vars =>
    <>[](rate_model.max_rate > 0 /\ FloorGrowsInASlot(rate_model)
           => last_rate >= rate_model.max_rate)

=============================================================================
