----------------------------- MODULE Transactions -----------------------------
(***************************************************************************)
(* Transactions of several instructions around one pair, and the circuit   *)
(* breaker that looks at them: utils/liquidity_delta_circuit_breaker.rs.   *)
(*                                                                         *)
(* A transaction is a list of top-level instructions, run in order and     *)
(* reverted as a whole when one of them fails.  One of another program may *)
(* call the pair's instructions any number of times by CPI; the            *)
(* instructions sysvar, which is all the breaker sees, lists the top level *)
(* only.  The clock stands still within a transaction, and transactions    *)
(* that write the same pair run one after the other.                       *)
(***************************************************************************)
EXTENDS Omnipair, Sequences

CONSTANTS
  TopLevel,        \* the instructions transactions are made of
  MaxLength        \* bound: their number in a transaction

THIS_PAIR == "this pair"
OMNIPAIR  == "omnipair"

ASSUME TopLevelAssumption ==
  TopLevel \subseteq [program : STRING, name : STRING, pair : STRING]
ASSUME MaxLengthAssumption == MaxLength \in Nat

VARIABLES
  instructions,    \* the top level of the running transaction
  current,         \* the index of the instruction that runs, 0 for none
  saved,           \* the pair as it was last committed
  done             \* history: instructions of the pair run in this transaction

txVars == <<instructions, current, saved, done>>

----------------------------------------------------------------------------
(* The circuit breaker. *)

IsSamePair(ix, names) ==
  ix.program = OMNIPAIR /\ ix.name \in names /\ ix.pair = THIS_PAIR

\* require_top_level_liquidity_delta_ix
RequireTopLevel(name) == IsSamePair(instructions[current], {name})

\* Variant: only the instructions up to the running one are scanned.
RequireNoneBefore(names) ==
  \A i \in DOMAIN instructions : i <= current => ~IsSamePair(instructions[i], names)

\* require_no_matching_liquidity_delta: none in the whole transaction, the
\* running instruction and those still to come included
RequireNone(names) == \A i \in DOMAIN instructions : ~IsSamePair(instructions[i], names)

RequireNoSameTxAddLiquidity == RequireNone({"add_liquidity"})

\* Variant: withdrawals are not looked for.
RequireNoSameTxAdd == RequireNone({"add_liquidity"})

RequireNoSameTxLiquidityDelta == RequireNone({"add_liquidity", "remove_liquidity"})

----------------------------------------------------------------------------
(* The runtime. *)

Pair == [ledger |-> ledger, last_update |-> last_update, position |-> position,
         total_supply |-> total_supply, lp_supply |-> lp_supply,
         reserve_vault |-> reserve_vault, collateral_vault |-> collateral_vault]

TxInit ==
  /\ Init
  /\ instructions = << >>
  /\ current = 0
  /\ saved = Pair
  /\ done = {}

Begin ==
  /\ current = 0
  /\ \E n \in 1 .. MaxLength : instructions' \in [1 .. n -> TopLevel]
  /\ current' = 1
  /\ UNCHANGED <<vars, saved, done>>

\* instruction `name` of the pair runs, from the top level or by CPI
Runs(name) ==
  /\ current \in DOMAIN instructions
  /\ \/ IsSamePair(instructions[current], {name}) /\ current' = current + 1
     \/ instructions[current].program # OMNIPAIR /\ UNCHANGED current
  /\ done' = done \cup {name}
  /\ UNCHANGED <<instructions, saved>>

\* the instruction returns: of another program, or of another pair
Return ==
  /\ current \in DOMAIN instructions
  /\ \/ instructions[current].program # OMNIPAIR
     \/ instructions[current].pair # THIS_PAIR
  /\ current' = current + 1
  /\ UNCHANGED <<vars, instructions, saved, done>>

EndTransaction == instructions' = << >> /\ current' = 0 /\ done' = {}

Commit ==
  /\ current = Len(instructions) + 1
  /\ current > 0
  /\ EndTransaction
  /\ saved' = Pair
  /\ UNCHANGED vars

\* an instruction of the transaction fails, of this pair or not
Abort ==
  /\ current > 0
  /\ EndTransaction
  /\ UNCHANGED <<modeVars, slot, saved>>
  /\ ledger' = saved.ledger
  /\ last_update' = saved.last_update
  /\ position' = saved.position
  /\ total_supply' = saved.total_supply
  /\ lp_supply' = saved.lp_supply
  /\ reserve_vault' = saved.reserve_vault
  /\ collateral_vault' = saved.collateral_vault

----------------------------------------------------------------------------
(* The pair's instructions with what they ask of the transaction. *)

TxAddLiquidity(l) ==
  /\ Runs("add_liquidity")
  /\ RequireTopLevel("add_liquidity")
  /\ \E a \in Inputs.liquidity : AddLiquidity(a, l)

TxRemoveLiquidity(l) ==
  /\ Runs("remove_liquidity")
  /\ RequireTopLevel("remove_liquidity")
  /\ RequireNoSameTxAddLiquidity
  /\ \E liquidity \in Inputs.burn : RemoveLiquidity(liquidity, l)

TxBorrow(u, l) ==
  /\ Runs("borrow")
  /\ RequireNoSameTxLiquidityDelta
  /\ \E d \in Token : \E amount \in Inputs.debt[d] : Borrow(u, d, amount, l)

TxRemoveCollateral(u, l) ==
  /\ Runs("remove_collateral")
  /\ RequireNoSameTxLiquidityDelta
  /\ \E c \in Token : \E amount \in Inputs.withdraw[c] : RemoveCollateral(u, c, amount, l)

\* instructions that ask for nothing
TxSwap(l) ==
  /\ Runs("swap")
  /\ \E t \in Token : \E amount \in Inputs.swap[t] : Swap(t, amount, l)

TxFlashloan(l) == Runs("flashloan") /\ \E a \in Inputs.flash : Flashloan(a, l)

TxClaimProtocolFees(l) == Runs("claim_protocol_fees") /\ ClaimProtocolFees(l)

TxAddCollateral(u, l) ==
  /\ Runs("add_collateral")
  /\ \E c \in Token : \E amount \in Inputs.collateral[c] : AddCollateral(u, c, amount, l)

TxRepay(u, l) ==
  /\ Runs("repay")
  /\ \E d \in Token : \E amount \in Inputs.debt[d] : Repay(u, d, amount, l)

TxLiquidate(u, l) == Runs("liquidate") /\ \E c \in Token : Liquidate(u, c, l)

PairInstruction ==
  \E l \in UpdatedPairs :
    \/ TxAddLiquidity(l)
    \/ TxRemoveLiquidity(l)
    \/ TxSwap(l)
    \/ TxFlashloan(l)
    \/ TxClaimProtocolFees(l)
    \/ \E u \in Users : TxBorrow(u, l)
    \/ \E u \in Users : TxRemoveCollateral(u, l)
    \/ \E u \in Users : TxAddCollateral(u, l)
    \/ \E u \in Users : TxRepay(u, l)
    \/ \E u \in Users : TxLiquidate(u, l)

\* time, governance and gifts, between two transactions
Between ==
  /\ current = 0
  /\ Environment
  /\ saved' = Pair'
  /\ UNCHANGED <<instructions, current, done>>

TxNext == Begin \/ PairInstruction \/ Return \/ Commit \/ Abort \/ Between

TxSpec == TxInit /\ [][TxNext]_<<vars, txVars>>

----------------------------------------------------------------------------
(***************************************************************************)
(* Properties.                                                             *)
(***************************************************************************)

\* Credit is extended only on liquidity that nobody moves in the same
\* transaction, before or after, in any of its instructions or by CPI: from
\* the first borrow or withdrawal of collateral to the commit, the LP supply
\* is what it was when the transaction began.
CreditOnUnmovedLiquidity ==
  done \cap {"borrow", "remove_collateral"} # {} => total_supply = saved.total_supply

\* Liquidity is not there for one transaction only: none both adds and removes.
NoLiquidityRoundTrip == ~({"add_liquidity", "remove_liquidity"} \subseteq done)

=============================================================================
