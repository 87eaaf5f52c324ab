------------------------------- MODULE MCRated -------------------------------
(***************************************************************************)
(* A pair whose rates are computed: one borrower of token 1, a trader, two *)
(* rate models that governance switches between.                           *)
(***************************************************************************)
EXTENDS PairRates, TLC

CONSTANTS
  MaxSteps,                  \* bound: instructions in a behaviour
  Reserve,                   \* both reserves at bootstrap
  SwapIn, Collateral0, Debt1,
  MinRates, MaxRates         \* limits of the rate models, basis points

VARIABLE steps

mcVars == <<ratedVars, steps>>

MCModels ==
  [target_util_start : {1000}, target_util_end : {2000}, half_life_ms : {86},
   min_rate : MinRates, max_rate : MaxRates, initial_rate : {2000}]

MCBootstrap == {[t \in Token |-> Reserve]}

MCInputs ==
  [swap       |-> [t \in Token |-> SwapIn],
   liquidity  |-> {},
   burn       |-> {},
   collateral |-> (0 :> Collateral0) @@ (1 :> {}),
   withdraw   |-> (0 :> {MaxU64}) @@ (1 :> {}),
   debt       |-> (0 :> {}) @@ (1 :> Debt1 \cup {MaxU64}),
   flash      |-> {},
   donation   |-> [t \in Token |-> {}],
   switch     |-> {}]

MCInit == RatedInit /\ steps = 0

MCNext ==
  \/ steps < MaxSteps /\ RatedNext /\ steps' = steps + 1
  \/ steps = MaxSteps /\ UNCHANGED mcVars

MCSpec == MCInit /\ [][MCNext]_mcVars

=============================================================================
