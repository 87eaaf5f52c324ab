------------------------------ MODULE PairRates ------------------------------
(***************************************************************************)
(* The pair with its interest-rate controller: Pair::update asks the rate  *)
(* model for both tokens, each at its own utilization, and governance may  *)
(* point the pair at another model between two updates.  Omnipair takes    *)
(* the charge of a period as it comes; here it is computed.                *)
(***************************************************************************)
EXTENDS Omnipair, RateModel

CONSTANT Models          \* arguments of the rate models governance creates

ASSUME RatedModelsAssumption ==
  \A a \in Models : a \in RateArgs /\ ValidUtilBounds(a) /\ ValidRateParams(a)

VARIABLES
  rate_model,            \* the model pair.rate_model points to
  last_rate              \* pair.last_rate0 and last_rate1

rateVars  == <<rate_model, last_rate>>
ratedVars == <<vars, rateVars>>

RatedInit ==
  /\ Init
  /\ \E a \in Models : rate_model = New(a)
  /\ last_rate = [t \in Token |-> rate_model.initial_rate]

Utilization(k) ==
  IF k.reserve = 0 THEN 0 ELSE Lesser((k.total_debt * NAD) \div k.reserve, MaxU64)

\* Variant: the two tokens' utilizations are mixed up.
RateAnswerSwapped(t) ==
  CalculateRate(rate_model, last_rate[t], ElapsedMs, Utilization(ledger[Other(t)]))

RateAnswer(t) ==
  CalculateRate(rate_model, last_rate[t], ElapsedMs, Utilization(ledger[t]))

RatesOk ==
  \A t \in Token : CalculateRateOk(rate_model, last_rate[t], ElapsedMs, Utilization(ledger[t]))

RateCharges == [t \in Token |-> RateAnswer(t).integral]

\* Variant: the instruction works on the pair as it was stored.
RatedPairStale == ledger

RatedPair == Update(RateCharges)

RatedInstruction ==
  /\ RatesOk
  /\ UpdateOk(RateCharges)
  /\ PoolInstruction(RatedPair) \/ \E u \in Users : LendingInstruction(u, RatedPair)
  /\ last_rate' = [t \in Token |-> RateAnswer(t).rate]
  /\ UNCHANGED rate_model

\* no update: the new model charges for the time since the last one
SetPairRateModel(a) ==
  /\ rate_model' = New(a)
  /\ UNCHANGED <<vars, last_rate>>

RatedNext ==
  \/ RatedInstruction
  \/ Environment /\ UNCHANGED rateVars
  \/ \E a \in Models : SetPairRateModel(a)

RatedSpec == RatedInit /\ [][RatedNext]_ratedVars

----------------------------------------------------------------------------
\* With the controller in place the pair still is the pair of Omnipair, whose
\* rate charges are arbitrary: what holds there, holds with every rate model.
ImplementsPair == Spec

\* A token becomes dearer to borrow only while more than the band of it is
\* lent out, and cheaper only while less is, whatever the other token and
\* governance do; apart from a floor that a new model brings.
RatesFollowUtilization ==
  [][ \A t \in Token :
        LET util == Utilization(ledger[t])
        IN  /\ last_rate'[t] > last_rate[t] =>
                 util > rate_model.target_util_end \/ last_rate[t] < rate_model.min_rate
            /\ last_rate'[t] < last_rate[t] =>
                 \/ util < rate_model.target_util_start
                 \/ rate_model.max_rate > 0 /\ last_rate[t] > rate_model.max_rate ]_ratedVars

\* Interest never disables the pair: the debt of a token stays a u64, as
\* Pair::update expects of it ("Total debt0 overflow").
DebtStaysRepresentable == RatesOk => UpdateOk(RateCharges)

=============================================================================
