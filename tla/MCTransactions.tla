---------------------------- MODULE MCTransactions ----------------------------
(***************************************************************************)
(* Transactions of two top-level instructions: liquidity moved on this or  *)
(* on another pair, credit, swaps, and other programs that call by CPI.    *)
(***************************************************************************)
EXTENDS Transactions, TLC

CONSTANTS
  MaxSteps,                  \* bound: instructions of the pair in a behaviour
  Reserve,                   \* both reserves at bootstrap
  Names                      \* the program's instructions at top level

VARIABLE steps

mcVars == <<vars, txVars, steps>>

MCBootstrap == {[t \in Token |-> Reserve]}

MCInputs ==
  [swap       |-> (0 :> {6}) @@ (1 :> {}),
   liquidity  |-> {[t \in Token |-> 5]},
   burn       |-> {3},
   collateral |-> (0 :> {10}) @@ (1 :> {}),
   withdraw   |-> (0 :> {MaxU64}) @@ (1 :> {}),
   debt       |-> (0 :> {}) @@ (1 :> {MaxU64}),
   flash      |-> {(0 :> 7) @@ (1 :> 0)},
   donation   |-> (0 :> {}) @@ (1 :> {2}),
   switch     |-> {TRUE}]

MCTopLevel ==
  [program : {OMNIPAIR}, name : Names, pair : {THIS_PAIR}]
    \cup {[program |-> OMNIPAIR, name |-> "add_liquidity", pair |-> "another pair"],
          [program |-> "wrapper", name |-> "any", pair |-> THIS_PAIR]}

MCInit == TxInit /\ steps = 0

MCNext ==
  \/ /\ steps < MaxSteps
     /\ PairInstruction \/ Between
     /\ steps' = steps + 1
  \/ /\ Begin \/ Return \/ Commit \/ Abort
     /\ UNCHANGED steps

MCSpec == MCInit /\ [][MCNext]_mcVars

=============================================================================
