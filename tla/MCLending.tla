------------------------------ MODULE MCLending ------------------------------
(***************************************************************************)
(* The lending market of one direction (collateral token 0, debt token 1): *)
(* borrowers, a trader who moves the price, interest and liquidations.     *)
(* Amounts are small, so that every rounding of shares and debt shows.     *)
(***************************************************************************)
EXTENDS Views, TLC

CONSTANTS
  MaxSteps,                  \* bound: instructions in a behaviour
  Reserve,                   \* both reserves at bootstrap
  SwapIn0, SwapIn1,          \* amounts swapped in, by token
  Collateral0, Debt1         \* amounts of collateral and of debt

VARIABLE steps

mcVars == <<vars, steps>>

\* the collateral has a decimal more than the debt
MCDecimalScale == (0 :> 10) @@ (1 :> 1)

MCBootstrap == {[t \in Token |-> Reserve]}

MCInputs ==
  [swap       |-> (0 :> SwapIn0) @@ (1 :> SwapIn1),
   liquidity  |-> {},
   burn       |-> {},
   collateral |-> (0 :> Collateral0) @@ (1 :> {}),
   withdraw   |-> (0 :> Collateral0 \cup {MaxU64}) @@ (1 :> {}),
   debt       |-> (0 :> {}) @@ (1 :> Debt1 \cup {MaxU64}),
   flash      |-> {},
   donation   |-> [t \in Token |-> {}],
   switch     |-> {}]

MCInit == Init /\ steps = 0

MCNext ==
  \/ steps < MaxSteps /\ Next /\ steps' = steps + 1
  \/ steps = MaxSteps /\ UNCHANGED mcVars

MCSpec == MCInit /\ [][MCNext]_mcVars

=============================================================================
