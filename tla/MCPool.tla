-------------------------------- MODULE MCPool --------------------------------
(***************************************************************************)
(* The whole pair with every instruction: swaps in both directions,        *)
(* liquidity, flash loans, fee claims, donations, the reduce-only switches *)
(* and users who borrow one of the tokens.                                 *)
(***************************************************************************)
EXTENDS Books, TLC

CONSTANTS
  MaxSteps,                  \* bound: instructions in a behaviour
  Reserve,                   \* both reserves at bootstrap
  SwapIn,                    \* amounts swapped in, of either token
  Deposit, Burn,             \* amounts of add_liquidity and remove_liquidity
  Collateral0, Debt1,        \* amounts of collateral and of debt
  Loan, Gift,                \* amounts of flash loans and of donations
  Switch                     \* values of the reduce-only switches

VARIABLE steps

mcVars == <<vars, steps>>

MCBootstrap == {[t \in Token |-> Reserve]}

MCInputs ==
  [swap       |-> [t \in Token |-> SwapIn],
   liquidity  |-> {[t \in Token |-> a] : a \in Deposit},
   burn       |-> Burn,
   collateral |-> (0 :> Collateral0) @@ (1 :> {}),
   withdraw   |-> (0 :> Collateral0 \cup {MaxU64}) @@ (1 :> {}),
   debt       |-> (0 :> {}) @@ (1 :> Debt1 \cup {MaxU64}),
   flash      |-> {(0 :> a) @@ (1 :> 0) : a \in Loan},
   donation   |-> (0 :> {}) @@ (1 :> Gift),
   switch     |-> Switch]

MCInit == Init /\ steps = 0

MCNext ==
  \/ steps < MaxSteps /\ Next /\ steps' = steps + 1
  \/ steps = MaxSteps /\ UNCHANGED mcVars

MCSpec == MCInit /\ [][MCNext]_mcVars

=============================================================================
