------------------------------ MODULE Omnipair ------------------------------
(***************************************************************************)
(* One pair of the program: the pair account, its vaults, the users'       *)
(* positions, and the instructions that change them.                       *)
(*                                                                         *)
(* An instruction is atomic (any error reverts the transaction), so each   *)
(* is one action: Pair::update, then the validation and the handler on the *)
(* updated ledgers l.  Its errors are its guards.  Users can always pay    *)
(* what they offer and accept any slippage; LP tokens change hands freely, *)
(* so only their minted supply is kept.                                    *)
(***************************************************************************)
EXTENDS PairState, Functions

CONSTANTS
  NumUsers,          \* position owners are 1 .. NumUsers
  Inputs,            \* the arguments instructions are called with, by kind;
                     \* the amount MaxU64 asks for "all"
  Bootstrap,         \* pairs of amounts the pool may be bootstrapped with
  Integrals,         \* rate integrals the rate model may return for a period
  MaxSlot,           \* bound: the clock stops here
  SwapFeeBps,        \* pair.swap_fee_bps
  SwapShareBps,      \* revenue_share.swap_bps
  BuybacksBps,       \* revenue_distribution.buybacks_vault_bps
  TeamBps            \* revenue_distribution.team_treasury_bps

FLASHLOAN_FEE_BPS               == 5
CLOSE_FACTOR_BPS                == 5000
LIQUIDATION_PENALTY_BPS         == 300
LIQUIDATION_INCENTIVE_BPS       == 50
LIQUIDITY_WITHDRAWAL_FEE_BPS    == 100
POST_WITHDRAW_DEBT_COVERAGE_BPS == 11500

ASSUME UsersAssumption     == NumUsers \in Nat \ {0}
ASSUME InputsAssumption ==
  Inputs \in [swap       : [Token -> SUBSET U64],     \* amount in, by token in
              liquidity  : SUBSET [Token -> U64],     \* both amounts of add_liquidity
              burn       : SUBSET U64,                \* LP tokens of remove_liquidity
              collateral : [Token -> SUBSET U64],     \* amounts of add_collateral
              withdraw   : [Token -> SUBSET U64],     \* and of remove_collateral
              debt       : [Token -> SUBSET U64],
              flash      : SUBSET [Token -> U64],
              donation   : [Token -> SUBSET U64],
              switch     : SUBSET BOOLEAN]
ASSUME BootstrapAssumption == Bootstrap \subseteq [Token -> U64 \ {0}]
ASSUME IntegralsAssumption == Integrals \subseteq Nat /\ 0 \in Integrals
ASSUME MaxSlotAssumption   == MaxSlot \in Nat
ASSUME FeesAssumption ==
  /\ SwapFeeBps \in 0 .. BPS_DENOMINATOR \div 2
  /\ SwapShareBps \in Nat
  /\ BuybacksBps \in Nat /\ TeamBps \in Nat
  /\ BuybacksBps + TeamBps <= BPS_DENOMINATOR

Users == 1 .. NumUsers

VARIABLES
  ledger,              \* the pair's fields that exist per token
  total_supply,        \* pair.total_supply
  last_update,         \* pair.last_update
  reduce_only,         \* pair.reduce_only
  global_reduce_only,  \* futarchy_authority.global_reduce_only
  position,            \* UserPosition of each user, per token
  lp_supply,           \* LP tokens minted and not burnt
  reserve_vault,       \* balance of the reserve vault of each token
  collateral_vault,    \* balance of the collateral vault of each token
  slot                 \* Clock::slot

pairVars  == <<ledger, last_update>>
modeVars  == <<reduce_only, global_reduce_only>>
lpVars    == <<total_supply, lp_supply>>
vaultVars == <<reserve_vault, collateral_vault>>
vars      == <<pairVars, modeVars, lpVars, vaultVars, position, slot>>

\* liquidation_cf is the factor locked for borrowing the other token
Holding == [collateral : U64, debt_shares : U128, liquidation_cf : 0 .. BPS_DENOMINATOR]

TypeOK ==
  /\ ledger \in [Token -> Ledger]
  /\ total_supply \in U64
  /\ last_update \in 0 .. slot
  /\ reduce_only \in BOOLEAN
  /\ global_reduce_only \in BOOLEAN
  /\ position \in [Users -> [Token -> Holding]]
  /\ lp_supply \in U64
  /\ reserve_vault \in [Token -> U64]
  /\ collateral_vault \in [Token -> U64]
  /\ slot \in 0 .. MaxSlot

----------------------------------------------------------------------------
(* initialize: the pair is created and bootstrapped in one instruction;     *)
(* MIN_LIQUIDITY of the supply is never minted.                             *)

BootstrapLedger(amount, other) ==
  [reserve |-> amount, cash_reserve |-> amount,
   total_debt |-> 0, total_debt_shares |-> 0, total_collateral |-> 0,
   symmetric |-> SpotPrice(amount, other), directional |-> SpotPrice(amount, other),
   clipped |-> FALSE]

NoHolding == [collateral |-> 0, debt_shares |-> 0, liquidation_cf |-> 0]

Init ==
  /\ \E a \in Bootstrap :
       /\ ledger = [t \in Token |-> BootstrapLedger(a[t], a[Other(t)])]
       /\ Sqrt(a[0] * a[1]) - MIN_LIQUIDITY \in U64
       /\ Sqrt(a[0] * a[1]) \in U64
       /\ lp_supply = Sqrt(a[0] * a[1]) - MIN_LIQUIDITY
       /\ total_supply = MIN_LIQUIDITY + lp_supply
       /\ reserve_vault = a
  /\ collateral_vault = [t \in Token |-> 0]
  /\ position = [u \in Users |-> [t \in Token |-> NoHolding]]
  /\ reduce_only = FALSE
  /\ global_reduce_only = FALSE
  /\ slot = 0
  /\ last_update = 0

----------------------------------------------------------------------------
(* Pair::update, the beginning of every instruction on the pair. *)

ElapsedMs == SlotsToMs(last_update, slot)

\* the rate model's answers; none is asked for within a slot
Accruals == IF ElapsedMs = 0 THEN [Token -> {0}] ELSE [Token -> Integrals]

Updated(t, ig) == UpdateToken(ledger[t], ledger[Other(t)].reserve, ElapsedMs, ig[t])

Update(ig) == [ledger EXCEPT ![0] = Updated(0, ig), ![1] = Updated(1, ig)]

UpdateOk(ig) == \A t \in Token : UpdateTokenOk(ledger[t], ElapsedMs, ig[t])

\* what update may make of the pair: the ledgers an instruction works on
UpdatedPairs == {Update(ig) : ig \in {ig \in Accruals : UpdateOk(ig)}}

\* the instruction leaves the pair in l
CommitPair(l) == ledger' = l /\ last_update' = slot

IsReduceOnly == global_reduce_only \/ reduce_only

\* tokens that enter or leave r_virtual and r_cash together
Credit(k, amount) ==
  [k EXCEPT !.reserve = @ + amount, !.cash_reserve = SatAdd(@, amount)]
Debit(k, amount) ==
  [k EXCEPT !.reserve = @ - amount, !.cash_reserve = @ - amount]

BpsCeil(amount, bps)  == CeilDiv(amount * bps, BPS_DENOMINATOR)
BpsFloor(amount, bps) == (amount * bps) \div BPS_DENOMINATOR

----------------------------------------------------------------------------
(* swap: `amount` of token t in.  The protocol's part of the fee goes to    *)
(* the vault and not to the reserves.                                       *)

Swap(t, amount, l) ==
  LET o            == Other(t)
      swap_fee     == BpsCeil(amount, SwapFeeBps)
      futarchy_fee == BpsCeil(swap_fee, SwapShareBps)
      out   == CalculateAmountOut(l[t].reserve, l[o].reserve, amount - swap_fee)
      in_lp == amount - futarchy_fee
      next  == [l EXCEPT ![t] = Credit(@, in_lp), ![o] = Debit(@, out)]
  IN  /\ amount > 0
      /\ swap_fee <= amount
      /\ AmountOutOk(l[t].reserve, amount - swap_fee)
      /\ futarchy_fee <= amount
      /\ l[t].reserve + in_lp <= MaxU64
      /\ out <= l[o].reserve
      /\ out <= l[o].cash_reserve
      /\ next[0].reserve * next[1].reserve >= l[0].reserve * l[1].reserve
      /\ reserve_vault[t] + amount <= MaxU64
      /\ out <= reserve_vault[o]
      /\ CommitPair(next)
      /\ reserve_vault' = [reserve_vault EXCEPT ![t] = @ + amount, ![o] = @ - out]
      /\ UNCHANGED <<modeVars, lpVars, collateral_vault, position, slot>>

----------------------------------------------------------------------------
(* add_liquidity and remove_liquidity. *)

\* LP tokens for the offered amounts, rounded down
LiquidityFor(l, a) ==
  Lesser((a[0] * total_supply) \div l[0].reserve, (a[1] * total_supply) \div l[1].reserve)

AddLiquidity(a, l) ==
  LET liquidity == LiquidityFor(l, a)
      used      == [t \in Token |-> CeilDiv(liquidity * l[t].reserve, total_supply)]
  IN  /\ ~IsReduceOnly
      /\ \A t \in Token : a[t] > 0 /\ l[t].reserve > 0
      /\ liquidity <= MaxU64
      /\ \A t \in Token : l[t].reserve + used[t] <= MaxU64
      /\ \A t \in Token : l[t].cash_reserve + used[t] <= MaxU64
      /\ \A t \in Token : reserve_vault[t] + used[t] <= MaxU64
      /\ total_supply + liquidity <= MaxU64
      /\ CommitPair([t \in Token |-> Credit(l[t], used[t])])
      /\ total_supply' = total_supply + liquidity
      /\ lp_supply' = lp_supply + liquidity
      /\ reserve_vault' = [t \in Token |-> reserve_vault[t] + used[t]]
      /\ UNCHANGED <<modeVars, collateral_vault, position, slot>>

\* Variant: rounded up, and no withdrawal fee.
WithdrawAmountUp(reserve, liquidity) == CeilDiv(liquidity * reserve, total_supply)

\* the LP's part of a reserve less the withdrawal fee
WithdrawAmount(reserve, liquidity) ==
  LET gross == (liquidity * reserve) \div total_supply
  IN  gross - BpsCeil(gross, LIQUIDITY_WITHDRAWAL_FEE_BPS)

\* required_collateral_with_impact and with_debt_coverage_buffer: the other
\* reserve could buy all debt of token d back, with a margin; prices are the
\* pair's, reserves those after the withdrawal
DebtCovered(l, post, d) ==
  LET c == Other(d)
      v == VirtualReserves(post[c], post[d], EmaPrice(l[c]), DirectionalEmaPrice(l[c]))
  IN  l[d].total_debt > 0 =>
        /\ EmaPrice(l[c]) > 0 /\ DirectionalEmaPrice(l[c]) > 0
        /\ VirtualReservesOk(post[c], post[d], EmaPrice(l[c]), DirectionalEmaPrice(l[c]))
        /\ v.x > 0 /\ v.y > l[d].total_debt
        /\ AmountInOk(v.x, v.y, l[d].total_debt)
        /\ post[c] >= BpsCeil(CalculateAmountIn(v.x, v.y, l[d].total_debt),
                              POST_WITHDRAW_DEBT_COVERAGE_BPS)

RemoveLiquidity(liquidity, l) ==
  LET out  == [t \in Token |-> WithdrawAmount(l[t].reserve, liquidity)]
      post == [t \in Token |-> l[t].reserve - out[t]]
  IN  /\ liquidity > 0
      /\ liquidity <= total_supply
      /\ liquidity <= lp_supply
      /\ \A t \in Token : out[t] <= l[t].cash_reserve /\ out[t] <= l[t].reserve
      /\ \A t \in Token : out[t] <= reserve_vault[t]
      /\ \A d \in Token : DebtCovered(l, post, d)
      /\ CommitPair([t \in Token |-> Debit(l[t], out[t])])
      /\ total_supply' = total_supply - liquidity
      /\ lp_supply' = lp_supply - liquidity
      /\ reserve_vault' = [t \in Token |-> reserve_vault[t] - out[t]]
      /\ UNCHANGED <<modeVars, collateral_vault, position, slot>>

----------------------------------------------------------------------------
(* add_collateral and remove_collateral. *)

AddCollateral(u, c, amount, l) ==
  /\ amount > 0
  /\ l[c].total_collateral + amount <= MaxU64
  /\ position[u][c].collateral + amount <= MaxU64
  /\ collateral_vault[c] + amount <= MaxU64
  /\ CommitPair([l EXCEPT ![c].total_collateral = @ + amount])
  /\ position' = [position EXCEPT ![u][c].collateral = @ + amount]
  /\ collateral_vault' = [collateral_vault EXCEPT ![c] = @ + amount]
  /\ UNCHANGED <<modeVars, lpVars, reserve_vault, slot>>

\* Variant: the limit must exceed the debt, also where there is none.
WithdrawalStrict(debt, limit) == (IsReduceOnly => debt = 0) /\ limit > debt

\* validate_remove: what is left must still support the debt; in reduce-only
\* mode there may be none
WithdrawalCovered(debt, limit) ==
  /\ IsReduceOnly => debt = 0
  /\ debt > 0 => limit >= debt

RemoveCollateralOk(u, c, amount, l) ==
  LET d         == Other(c)
      held      == position[u][c].collateral
      debt      == CalculateDebt(position[u][d].debt_shares, l[d])
      withdraw  == IF amount = MaxU64 /\ debt = 0 THEN held ELSE amount
      post      == MaxDebtForCollateral(l, c, held - withdraw)
  IN  /\ amount > 0
      /\ CalculateDebtOk(position[u][d].debt_shares, l[d])
      /\ withdraw > 0
      /\ withdraw <= held
      /\ post.ok
      /\ WithdrawalCovered(debt, post.limit)
      /\ withdraw <= collateral_vault[c]
      /\ withdraw <= l[c].total_collateral

RemoveCollateral(u, c, amount, l) ==
  LET d         == Other(c)
      held      == position[u][c].collateral
      debt      == CalculateDebt(position[u][d].debt_shares, l[d])
      withdraw  == IF amount = MaxU64 /\ debt = 0 THEN held ELSE amount
      post      == MaxDebtForCollateral(l, c, held - withdraw)
  IN  /\ RemoveCollateralOk(u, c, amount, l)
      /\ CommitPair([l EXCEPT ![c].total_collateral = @ - withdraw])
      /\ position' = [position EXCEPT ![u][c].collateral = @ - withdraw,
                                      ![u][c].liquidation_cf = post.cf]
      /\ collateral_vault' = [collateral_vault EXCEPT ![c] = @ - withdraw]
      /\ UNCHANGED <<modeVars, lpVars, reserve_vault, slot>>

----------------------------------------------------------------------------
(* borrow and repay token d. *)

Borrow(u, d, amount, l) ==
  LET c      == Other(d)
      held   == position[u][d].debt_shares
      debt   == CalculateDebt(held, l[d])
      max    == MaxDebtForCollateral(l, c, position[u][c].collateral)
      borrow == IF amount = MaxU64 THEN max.limit - debt ELSE amount
      shares == BorrowShares(l[d], borrow)
  IN  /\ ~IsReduceOnly
      /\ CalculateDebtOk(held, l[d])
      /\ max.ok
      /\ borrow > 0
      /\ debt + borrow <= max.limit
      /\ borrow <= l[d].cash_reserve
      /\ borrow <= reserve_vault[d]
      /\ BorrowSharesOk(l[d], borrow)
      /\ CommitPair([l EXCEPT ![d] = IncreaseDebt(@, shares, borrow)])
      /\ position' = [position EXCEPT
                        ![u][d].debt_shares = SharesAfterBorrow(l[d], @, shares),
                        ![u][c].liquidation_cf = max.cf]
      /\ reserve_vault' = [reserve_vault EXCEPT ![d] = @ - borrow]
      /\ UNCHANGED <<modeVars, lpVars, collateral_vault, slot>>

RepayOk(u, d, amount, l) ==
  LET debt   == CalculateDebt(position[u][d].debt_shares, l[d])
      repaid == IF amount = MaxU64 THEN debt ELSE amount
  IN  /\ amount > 0
      /\ CalculateDebtOk(position[u][d].debt_shares, l[d])
      /\ debt > 0
      /\ repaid <= debt
      /\ RepaidSharesOk(l[d], repaid)
      /\ reserve_vault[d] + repaid <= MaxU64

Repay(u, d, amount, l) ==
  LET held   == position[u][d].debt_shares
      repaid == IF amount = MaxU64 THEN CalculateDebt(held, l[d]) ELSE amount
      shares == RepaidShares(l[d], held, repaid)
  IN  /\ RepayOk(u, d, amount, l)
      /\ CommitPair([l EXCEPT ![d] = Repayment(@, shares, repaid)])
      /\ position' = [position EXCEPT ![u][d].debt_shares = SatSub(@, shares)]
      /\ reserve_vault' = [reserve_vault EXCEPT ![d] = @ + repaid]
      /\ UNCHANGED <<modeVars, lpVars, collateral_vault, slot>>

----------------------------------------------------------------------------
(* liquidate: write debt of token Other(c) off against collateral c.  The   *)
(* collateral is valued on the curve at the EMA price, not at spot.         *)

\* at the pessimistic price, as borrow values the collateral; a variant of the next
LiquidationReservesLow(l, c) ==
  VirtualReserves(l[c].reserve, l[Other(c)].reserve, EmaPrice(l[c]), DirectionalEmaPrice(l[c]))

LiquidationReserves(l, c) ==
  VirtualReserves(l[c].reserve, l[Other(c)].reserve, EmaPrice(l[c]), EmaPrice(l[c]))

LiquidationReservesOk(l, c) ==
  VirtualReservesOk(l[c].reserve, l[Other(c)].reserve, EmaPrice(l[c]), EmaPrice(l[c]))

CollateralValue(l, c, amount) ==
  CalculateAmountOut(LiquidationReserves(l, c).x, LiquidationReserves(l, c).y, amount)

\* Variant: the close factor limits insolvent liquidations too.
SharesByCloseFactor(held, insolvent) == Lesser(held, BpsCeil(held, CLOSE_FACTOR_BPS))

\* Variant: the part is rounded down.
SharesByCloseFactorDown(held, insolvent) ==
  IF insolvent THEN held ELSE BpsFloor(held, CLOSE_FACTOR_BPS)

\* a part of the shares while the collateral covers the debt, else all
SharesToWriteOff(held, insolvent) ==
  IF insolvent THEN held ELSE Lesser(held, BpsCeil(held, CLOSE_FACTOR_BPS))

DebtToWriteOff(k, shares, debt) ==
  IF k.total_debt_shares = 0 THEN 0
  ELSE Lesser(debt, (shares * k.total_debt) \div k.total_debt_shares)

\* Variant: the cap at the position's collateral is forgotten.
SeizedUncapped(base, held) == BpsCeil(base, BPS_DENOMINATOR + LIQUIDATION_PENALTY_BPS)

SeizedCollateral(base, held) ==
  Lesser(BpsCeil(base, BPS_DENOMINATOR + LIQUIDATION_PENALTY_BPS), held)

CallerIncentive(base, seized) == Lesser(BpsFloor(base, LIQUIDATION_INCENTIVE_BPS), seized)

\* seized collateral joins the pool, less the caller's incentive
Seize(k, seized, incentive) ==
  Credit([k EXCEPT !.total_collateral = @ - seized], seized - incentive)

\* Variant: at the factor that a new loan would lock in.
UndercollateralizedNow(u, c, l) ==
  /\ position[u][Other(c)].debt_shares > 0
  /\ CalculateDebt(position[u][Other(c)].debt_shares, l[Other(c)])
       >= BpsFloor(CollateralValue(l, c, position[u][c].collateral),
                   MaxDebtForCollateral(l, c, position[u][c].collateral).cf)

\* the health test: the debt has reached the limit of the factor locked in
Undercollateralized(u, c, l) ==
  /\ position[u][Other(c)].debt_shares > 0
  /\ CalculateDebt(position[u][Other(c)].debt_shares, l[Other(c)])
       >= BpsFloor(CollateralValue(l, c, position[u][c].collateral),
                   position[u][c].liquidation_cf)

LiquidateOk(u, c, l) ==
  LET d         == Other(c)
      held      == position[u][d].debt_shares
      pledged   == position[u][c].collateral
      v         == LiquidationReserves(l, c)
      debt      == CalculateDebt(held, l[d])
      value     == CollateralValue(l, c, pledged)
      insolvent == debt > value
      shares    == SharesToWriteOff(held, insolvent)
      written   == DebtToWriteOff(l[d], shares, debt)
      base      == CalculateAmountIn(v.x, v.y, written)
      seized    == SeizedCollateral(base, pledged)
      gain      == seized - CallerIncentive(base, seized)
  IN  /\ CalculateDebtOk(held, l[d])
      /\ LiquidationReservesOk(l, c)
      /\ AmountOutOk(v.x, pledged)
      /\ Undercollateralized(u, c, l)
      /\ ~insolvent => MulFits(held, CLOSE_FACTOR_BPS)
      /\ MulFits(shares, l[d].total_debt)
      /\ AmountInOk(v.x, v.y, written)
      /\ MaxDebtForCollateral(l, c, pledged - seized).ok
      /\ seized <= collateral_vault[c]
      /\ seized <= l[c].total_collateral
      /\ l[c].reserve + gain <= MaxU64
      /\ reserve_vault[c] + gain <= MaxU64

Liquidate(u, c, l) ==
  LET d         == Other(c)
      held      == position[u][d].debt_shares
      pledged   == position[u][c].collateral
      v         == LiquidationReserves(l, c)
      debt      == CalculateDebt(held, l[d])
      insolvent == debt > CollateralValue(l, c, pledged)
      shares    == SharesToWriteOff(held, insolvent)
      written   == DebtToWriteOff(l[d], shares, debt)
      base      == CalculateAmountIn(v.x, v.y, written)
      seized    == SeizedCollateral(base, pledged)
      incentive == CallerIncentive(base, seized)
  IN  /\ LiquidateOk(u, c, l)
      /\ CommitPair([l EXCEPT
                       ![d] = WriteOff(@, shares, written),
                       ![c] = Seize(@, seized, incentive)])
      /\ position' = [position EXCEPT
                        ![u][d].debt_shares = SatSub(@, shares),
                        ![u][c].collateral = @ - seized,
                        ![u][c].liquidation_cf =
                          MaxDebtForCollateral(l, c, pledged - seized).cf]
      /\ reserve_vault' = [reserve_vault EXCEPT ![c] = @ + (seized - incentive)]
      /\ collateral_vault' = [collateral_vault EXCEPT ![c] = @ - seized]
      /\ UNCHANGED <<modeVars, lpVars, slot>>

----------------------------------------------------------------------------
(* flashloan: the receiver's callback must leave in each vault at least the *)
(* balance before plus the fee; anything beyond it is a donation.           *)

FlashloanFee(amount) == BpsCeil(amount, FLASHLOAN_FEE_BPS)

EarnFee(k, fee) ==
  [k EXCEPT !.reserve      = SatAdd(@, fee),
            !.cash_reserve = SatAdd(@, fee),
            !.clipped      = @ \/ k.reserve + fee > MaxU64]

Flashloan(a, l) ==
  LET fee == [t \in Token |-> FlashloanFee(a[t])]
  IN  /\ \E t \in Token : a[t] > 0
      /\ \A t \in Token : a[t] <= l[t].cash_reserve /\ a[t] <= reserve_vault[t]
      /\ \A t \in Token : reserve_vault[t] + fee[t] <= MaxU64
      /\ CommitPair([t \in Token |-> EarnFee(l[t], fee[t])])
      /\ reserve_vault' = [t \in Token |-> reserve_vault[t] + fee[t]]
      /\ UNCHANGED <<modeVars, lpVars, collateral_vault, position, slot>>

----------------------------------------------------------------------------
(* claim_protocol_fees: what a reserve vault holds beyond r_cash, split by  *)
(* basis points, the remainder to the futarchy treasury.                    *)

\* Variant: all the vault holds beyond what the LPs could withdraw at once.
ClaimableOverCash(vault, k) == SatSub(vault, SatSub(k.cash_reserve, k.total_debt))

Claimable(vault, k) == SatSub(vault, k.cash_reserve)

Distributed(claimable) ==
  LET buybacks == BpsFloor(claimable, BuybacksBps)
      team     == BpsFloor(claimable, TeamBps)
      futarchy == SatSub(SatSub(claimable, buybacks), team)
  IN  buybacks + team + futarchy

ClaimProtocolFees(l) ==
  /\ CommitPair(l)
  /\ reserve_vault' = [t \in Token |->
           reserve_vault[t] - Distributed(Claimable(reserve_vault[t], l[t]))]
  /\ UNCHANGED <<modeVars, lpVars, collateral_vault, position, slot>>

----------------------------------------------------------------------------
(* Governance switches, the clock, and tokens anyone sends to a vault. *)

SetPairReduceOnly(b) ==
  /\ reduce_only' = b
  /\ UNCHANGED <<pairVars, global_reduce_only, lpVars, vaultVars, position, slot>>

SetGlobalReduceOnly(b) ==
  /\ global_reduce_only' = b
  /\ UNCHANGED <<pairVars, reduce_only, lpVars, vaultVars, position, slot>>

Tick ==
  /\ slot < MaxSlot
  /\ slot' = slot + 1
  /\ UNCHANGED <<pairVars, modeVars, lpVars, vaultVars, position>>

Donate(t, amount) ==
  /\ reserve_vault[t] + amount <= MaxU64
  /\ reserve_vault' = [reserve_vault EXCEPT ![t] = @ + amount]
  /\ UNCHANGED <<pairVars, modeVars, lpVars, collateral_vault, position, slot>>

----------------------------------------------------------------------------
PoolInstruction(l) ==
  \/ \E t \in Token : \E amount \in Inputs.swap[t] : Swap(t, amount, l)
  \/ \E a \in Inputs.liquidity : AddLiquidity(a, l)
  \/ \E liquidity \in Inputs.burn : RemoveLiquidity(liquidity, l)
  \/ \E a \in Inputs.flash : Flashloan(a, l)
  \/ ClaimProtocolFees(l)

LendingInstruction(u, l) ==
  \/ \E c \in Token : \E amount \in Inputs.collateral[c] : AddCollateral(u, c, amount, l)
  \/ \E c \in Token : \E amount \in Inputs.withdraw[c] : RemoveCollateral(u, c, amount, l)
  \/ \E d \in Token : \E amount \in Inputs.debt[d] : Borrow(u, d, amount, l)
  \/ \E d \in Token : \E amount \in Inputs.debt[d] : Repay(u, d, amount, l)
  \/ \E c \in Token : Liquidate(u, c, l)

Environment ==
  \/ Tick
  \/ \E t \in Token : \E amount \in Inputs.donation[t] : Donate(t, amount)
  \/ \E b \in Inputs.switch : SetPairReduceOnly(b)
  \/ \E b \in Inputs.switch : SetGlobalReduceOnly(b)

Next ==
  \/ \E l \in UpdatedPairs : PoolInstruction(l)
  \/ \E l \in UpdatedPairs, u \in Users : LendingInstruction(u, l)
  \/ Environment

Spec == Init /\ [][Next]_vars

LiquidationOf(u, c) == \E l \in UpdatedPairs : Liquidate(u, c, l)

----------------------------------------------------------------------------
(***************************************************************************)
(* Properties.                                                             *)
(***************************************************************************)

\* r_virtual = r_cash + r_debt for each token, whatever the interleaving of
\* swaps, interest, repayments and write-offs, until an addition clips at
\* u64::MAX: the transition "dR_virtual = dR_cash + dR_debt" that decrease_debt
\* and Pair::update are written to keep.
LedgerIdentity ==
  \A t \in Token :
    ~ledger[t].clipped =>
      ledger[t].reserve = ledger[t].cash_reserve + ledger[t].total_debt

\* The vaults hold what the pair accounts for: r_cash is there to be lent,
\* swapped or withdrawn, and every position's collateral is there to be
\* returned, even after protocol fees have been claimed from the same vault.
VaultsBackAccounts ==
  \A t \in Token :
    /\ reserve_vault[t] >= ledger[t].cash_reserve
    /\ collateral_vault[t] >= ledger[t].total_collateral

SumOverUsers(f) == FoldFunction(+, 0, f)

\* The pair's totals are the sums of what the positions and the LP mint
\* record: no instruction updates one side only, and the locked MIN_LIQUIDITY
\* is never redeemable.
PositionsSumToTotals ==
  /\ \A t \in Token :
       /\ ledger[t].total_collateral = SumOverUsers([u \in Users |-> position[u][t].collateral])
       /\ ~ledger[t].clipped =>
            ledger[t].total_debt_shares = SumOverUsers([u \in Users |-> position[u][t].debt_shares])
  /\ total_supply = MIN_LIQUIDITY + lp_supply

\* Shares never outlive their debt: the comments of liquidate and
\* decrease_debt claim that the rounding drains the shares first.
NoOrphanedShares ==
  \A t \in Token : ledger[t].total_debt = 0 => ledger[t].total_debt_shares = 0

\* Whoever owes nothing can take the whole collateral out: reduce-only mode,
\* an empty cash reserve, other users' debt or a failing CF computation never
\* trap it.
DebtFreeCanExit ==
  \A u \in Users, c \in Token, l \in UpdatedPairs :
    /\ position[u][c].collateral > 0
    /\ CalculateDebt(position[u][Other(c)].debt_shares, l[Other(c)]) = 0
    => RemoveCollateralOk(u, c, MaxU64, l)

\* all the debt of a token, and a unit more, times all its shares is a u128
DebtFits(k) == MulFits(k.total_debt + 1, k.total_debt_shares)

\* Whoever owes something can repay all of it, in every mode, while the debt
\* can be computed, and the vault can hold what is paid.
DebtCanBeRepaid ==
  \A u \in Users, d \in Token, l \in UpdatedPairs :
    LET debt == CalculateDebt(position[u][d].debt_shares, l[d])
    IN  /\ debt > 0
        /\ ~l[d].clipped /\ DebtFits(l[d])
        /\ reserve_vault[d] + debt <= MaxU64
        => RepayOk(u, d, MaxU64, l)

\* the integers of the program hold what a liquidation of u's collateral c needs
LiquidationFits(u, c, l) ==
  LET held    == position[u][Other(c)].debt_shares
      pledged == position[u][c].collateral
  IN  /\ DebtFits(l[Other(c)])
      /\ MulFits(held, CLOSE_FACTOR_BPS)
      /\ LiquidationReservesOk(l, c)
      /\ l[c].reserve + pledged <= MaxU64
      /\ reserve_vault[c] + pledged <= MaxU64

\* README: "Insolvent positions are written off against the pool".  Whatever
\* the roundings, other positions and the free liquidity are, liquidate accepts
\* every unhealthy position, as long as the curve can price its debt at the EMA
\* price and, unless it is insolvent by more than a rounding, pessimistic_max_debt
\* can price its collateral, a part of which it may keep at a new factor.
UnhealthyCanBeLiquidated ==
  \A u \in Users, c \in Token, l \in UpdatedPairs :
    LET d       == Other(c)
        pledged == position[u][c].collateral
        v       == LiquidationReserves(l, c)
        debt    == CalculateDebt(position[u][d].debt_shares, l[d])
    IN  /\ Undercollateralized(u, c, l)
        /\ ~l[d].clipped /\ LiquidationFits(u, c, l)
        /\ AmountOutOk(v.x, pledged) /\ AmountInOk(v.x, v.y, debt)
        /\ \/ debt > CollateralValue(l, c, pledged) + 1
           \/ MaxDebtForCollateral(l, c, pledged).ok
        => LiquidateOk(u, c, l)

----------------------------------------------------------------------------
(* Action properties. *)

AnyLiquidation == \E u \in Users, c \in Token : LiquidationOf(u, c)

AnySwap == \E t \in Token, l \in UpdatedPairs : \E a \in Inputs.swap[t] : Swap(t, a, l)

ProductOfReserves(l) == l[0].reserve * l[1].reserve

\* Only a liquidation can cost the LPs: fees, interest and every rounding of
\* swaps, deposits and withdrawals leave k per squared LP token no lower.
LpValueNeverDrops ==
  [][ \/ ProductOfReserves(ledger') * total_supply * total_supply
           >= ProductOfReserves(ledger) * total_supply' * total_supply'
      \/ AnyLiquidation ]_vars

Debt(u, d) == CalculateDebt(position[u][d].debt_shares, ledger[d])

\* Within a slot nobody's debt grows by what another user does: the rounding
\* of shares is paid by the one who borrows or repays.  A liquidation rounds
\* the written-off debt down and may leave at most one unit to the others.
\* (Unless an addition has clipped: shares cut off at u128::MAX are lost.)
OthersDebtUnaffected ==
  [][ last_update = slot =>
        \A u \in Users, d \in Token :
          position'[u][d].debt_shares = position[u][d].debt_shares =>
            \/ Debt(u, d)' <= Debt(u, d)
            \/ Debt(u, d)' = Debt(u, d) + 1 /\ AnyLiquidation
            \/ ledger'[d].clipped ]_vars

\* Within a slot no swap raises what collateral may borrow, by more than the
\* rounding of the virtual reserves: the limit is taken at the pessimistic
\* price, and the price of a spot that was pushed up is not in it before the
\* slot is over.  (The rounding is one unit at the run's prices.)
TradingKeepsLimit ==
  [][ last_update = slot =>
        \/ \A c \in Token : \A amount \in Inputs.collateral[c] :
             MaxDebtForCollateral(ledger', c, amount).limit
               <= MaxDebtForCollateral(ledger, c, amount).limit + 1
        \/ ~AnySwap ]_vars

\* what a virtual reserve, a unit for the root apart, may fall short by where
\* the product leaves u128 and one factor is divided first
DividedFirst(a, b, num, den) ==
  IF MulFits(a * b, num) THEN 0 ELSE CeilDiv(b, Sqrt(MulDiv(a, b, num, den)) + 1)

RoundingOfX(l, c) ==
  DividedFirst(l[c].reserve, l[Other(c)].reserve, NAD, EmaPrice(l[c]))

RoundingOfY(l, c) ==
  DividedFirst(l[Other(c)].reserve, l[c].reserve, EmaPrice(l[c]), NAD)

\* A unit of the virtual reserve of the debt's token is worth one, a unit of the
\* collateral's the price.  This is what the roundings of both reserves are worth
\* to `amount` of collateral when the ledgers change from l to m.
RoundingWorth(l, m, c, amount) ==
  CeilDiv(amount * (NAD * (1 + RoundingOfY(m, c))
                      + EmaPrice(l[c]) * (1 + RoundingOfX(l, c) + RoundingOfX(m, c))),
          NAD * (LiquidationReserves(l, c).x + amount))

\* get_virtual_reserves finds a point of the curve at the EMA price
Priced(l, c) ==
  /\ \A t \in Token : l[t].reserve >= MIN_LIQUIDITY
  /\ EmaPrice(l[c]) > 0

\* Nobody's collateral loses value by what others do within a slot, so no
\* trading, borrowing or depositing makes a position liquidatable: liquidate
\* values collateral on the curve at the EMA price.  Two things may: an LP
\* who leaves shrinks the curve, and so does a liquidation.
TradingKeepsValue ==
  [][ last_update = slot =>
        \/ \A c \in Token : \A amount \in Inputs.collateral[c] \ {0} :
             Priced(ledger, c) /\ Priced(ledger', c) =>
               CollateralValue(ledger', c, amount) + RoundingWorth(ledger, ledger', c, amount)
                 >= CollateralValue(ledger, c, amount)
        \/ total_supply' < total_supply
        \/ AnyLiquidation ]_vars

\* The step between the two EMA prices is not lost in a truncation.  Where only
\* the product with the higher price leaves u128, the order of its factors
\* changes, which may cost more than the step unless a unit of it counts.
PriceStepCounts(l, c) ==
  LET rd == l[Other(c)].reserve
      k  == l[c].reserve * rd
  IN  rd >= NAD \/ (MulFits(k, DirectionalEmaPrice(l[c])) => MulFits(k, EmaPrice(l[c])))

\* what one share of the debt owes; borrow may leave its borrower owing that much
\* more than was asked for, since the shares are rounded up
ShareWorth(k) == CalculateDebt(1, k)

\* An owner's own instruction leaves the position healthy at the factor it has
\* just locked in: at the price liquidate goes by, the debt stays the LTV buffer
\* below the limit of that factor, up to the share a loan is rounded by.
OwnerLeavesPositionCovered ==
  [][ \A u \in Users, c \in Token, l \in UpdatedPairs :
        LET owed  == Debt(u, Other(c))'
            worth == CollateralValue(ledger', c, position'[u][c].collateral)
            limit == BpsFloor(worth, MaxAllowedCf(position'[u][c].liquidation_cf))
        IN  PriceStepCounts(l, c) =>
              /\ (\E a \in Inputs.withdraw[c] : RemoveCollateral(u, c, a, l)) =>
                    owed = 0 \/ owed <= limit
              /\ (\E a \in Inputs.debt[Other(c)] : Borrow(u, Other(c), a, l)) =>
                    \/ owed <= limit + ShareWorth(l[Other(c)])
                    \/ ledger'[Other(c)].clipped ]_vars

\* The factor that is locked in keeps others out of a position's health: what
\* they borrow, repay, pledge or withdraw within the slot moves the utilization
\* and with it the factor of the next loan, but makes nobody liquidatable who
\* has collateral.  (TradingKeepsValue is about what moves the reserves.)
OthersLoansKeepHealth ==
  [][ last_update = slot /\ (\A t \in Token : ledger'[t].reserve = ledger[t].reserve) =>
        \A u \in Users, c \in Token :
          \/ position'[u] # position[u] \/ position[u][c].collateral = 0
          \/ Undercollateralized(u, c, ledger)
          \/ ~Undercollateralized(u, c, ledger)'
          \/ AnyLiquidation
          \/ ledger'[Other(c)].clipped ]_vars

\* Whoever owes more than the collateral is worth loses all of that worth: on
\* the curve, what is seized is worth as much as the whole collateral, so the
\* shortfall is never socialised while the borrower keeps a part that counts.
\* (Collateral may be left over where a unit of it is worth less than a unit
\* of debt: the debt written off is rounded down before it is priced.)
InsolventLosesAllValue ==
  [][ \A u \in Users, c \in Token, l \in UpdatedPairs :
        /\ CalculateDebt(position[u][Other(c)].debt_shares, l[Other(c)])
             > CollateralValue(l, c, position[u][c].collateral)
        /\ Liquidate(u, c, l)
        => CollateralValue(l, c, position[u][c].collateral - position'[u][c].collateral)
             >= CollateralValue(l, c, position[u][c].collateral) ]_vars

=============================================================================
