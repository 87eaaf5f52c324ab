------------------------------- MODULE MCKeepers -------------------------------
(***************************************************************************)
(* Borrowers, a falling price, interest, and keepers who go on when all    *)
(* others have stopped.                                                    *)
(***************************************************************************)
EXTENDS Keepers, TLC

CONSTANTS
  MaxSteps,                  \* bound: instructions of borrowers and traders
  Reserve,                   \* both reserves at bootstrap
  SwapIn0,                   \* amounts swapped in
  Collateral0, Debt1         \* amounts of collateral and of debt

VARIABLE steps

mcVars == <<vars, polled, steps>>

MCBootstrap == {[t \in Token |-> Reserve]}

MCInputs ==
  [swap       |-> (0 :> SwapIn0) @@ (1 :> {}),
   liquidity  |-> {},
   burn       |-> {},
   collateral |-> (0 :> Collateral0) @@ (1 :> {}),
   withdraw   |-> [t \in Token |-> {}],
   debt       |-> (0 :> {}) @@ (1 :> Debt1 \cup {MaxU64}),
   flash      |-> {},
   donation   |-> [t \in Token |-> {}],
   switch     |-> {}]

MCInit == KeeperInit /\ steps = 0

MCNext ==
  \/ steps < MaxSteps /\ Next /\ steps' = steps + 1 /\ UNCHANGED polled
  \/ KeeperTurn /\ UNCHANGED steps

MCSpec == MCInit /\ [][MCNext]_mcVars /\ KeeperFairness

=============================================================================
