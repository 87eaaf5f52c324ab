--------------------------------- MODULE Views ---------------------------------
(***************************************************************************)
(* What the view instructions answer: instructions/emit_value.rs and the   *)
(* queries of state/user_position.rs only they use.  A view updates a copy *)
(* of the pair, so its answer is a function of l \in UpdatedPairs and no   *)
(* state changes.  Off-chain callers act on the answers: each repeats a    *)
(* computation that some instruction makes on its own.                     *)
(***************************************************************************)
EXTENDS Omnipair

CONSTANT
  DecimalScale     \* 10^(decimals of a token less those of the other), 1 where negative

ASSUME DecimalScaleAssumption == DecimalScale \in [Token -> Nat \ {0}]

SatMul(a, b) == IF MulFits(a, b) THEN a * b ELSE MaxU128     \* u128::saturating_mul

UserDebt(u, d, l) == CalculateDebt(position[u][d].debt_shares, l[d])

----------------------------------------------------------------------------
(* ViewPairData *)

\* Variant: the fee is not taken off before the curve.
SwapQuoteBeforeFee(l, t, amount) ==
  [out |-> CalculateAmountOut(l[t].reserve, l[Other(t)].reserve, amount),
   fee |-> BpsCeil(amount, SwapFeeBps)]

SwapQuote(l, t, amount) ==
  LET fee == BpsCeil(amount, SwapFeeBps)
  IN  [out |-> CalculateAmountOut(l[t].reserve, l[Other(t)].reserve, amount - fee),
       fee |-> fee]

\* the price of collateral c, per whole token, at which `debt` of the other
\* token meets collateral * price * cf
PriceAtLimit(c, collateral, debt, cf) ==
  LET num == SatMul(SatMul(SatMul(debt, DecimalScale[c]), NAD), BPS_DENOMINATOR)
      den == SatMul(SatMul(collateral, DecimalScale[Other(c)]), cf)
  IN  Lesser(Lesser(num + (den - 1), MaxU128) \div den, MaxU64)

\* Variant: the factor of the borrow limit instead of the one that is locked.
SimulateAtBorrowFactor(l, c, collateral, debt) ==
  LET cf == MaxAllowedCf(MaxDebtForCollateral(l, c, collateral).cf)
  IN  IF collateral = 0 \/ cf = 0 THEN MaxU64
      ELSE PriceAtLimit(c, collateral, debt, cf)

\* for a position that does not exist yet; MaxU64 is "immediately unsafe"
SimulateLiquidationPrice(l, c, collateral, debt) ==
  LET cf == MaxDebtForCollateral(l, c, collateral).cf
  IN  IF collateral = 0 \/ cf = 0 THEN MaxU64
      ELSE PriceAtLimit(c, collateral, debt, cf)

----------------------------------------------------------------------------
(* ViewUserPositionData.  Where the virtual reserves fail, the spot         *)
(* reserves stand in.                                                       *)

\* Variant: at the factor of liquidation.
BorrowLimitWithoutBuffer(u, d, l) ==
  LET max == MaxDebtForCollateral(l, Other(d), position[u][Other(d)].collateral)
  IN  IF max.limit = 0 THEN 0
      ELSE BpsFloor(CollateralValue(l, Other(d), position[u][Other(d)].collateral), max.cf)

UserDynamicBorrowLimit(u, d, l) ==
  MaxDebtForCollateral(l, Other(d), position[u][Other(d)].collateral).limit

CurveValue(l, c, dir, amount) ==
  LET rc == l[c].reserve
      rd == l[Other(c)].reserve
      v  == IF VirtualReservesOk(rc, rd, EmaPrice(l[c]), dir)
            THEN VirtualReserves(rc, rd, EmaPrice(l[c]), dir) ELSE [x |-> rc, y |-> rd]
  IN  IF amount > 0 /\ AmountOutOk(v.x, amount)
      THEN CalculateAmountOut(v.x, v.y, amount) ELSE 0

\* Variant: a debt that has just reached the limit is taken for healthy.
UserIsLiquidatableBeyond(u, c, l) ==
  UserDebt(u, Other(c), l)
    > BpsFloor(CurveValue(l, c, DirectionalEmaPrice(l[c]), position[u][c].collateral),
               position[u][c].liquidation_cf)

UserIsLiquidatable(u, c, l) ==
  LET debt == UserDebt(u, Other(c), l)
      h    == position[u][c]
  IN  /\ debt > 0 /\ h.collateral > 0
      /\ debt >= BpsFloor(CurveValue(l, c, DirectionalEmaPrice(l[c]), h.collateral),
                          h.liquidation_cf)

UserCollateralValueWithImpact(u, c, l) ==
  CurveValue(l, c, EmaPrice(l[c]), position[u][c].collateral)

UserLiquidationBorrowLimit(u, c, l) ==
  BpsFloor(UserCollateralValueWithImpact(u, c, l), position[u][c].liquidation_cf)

\* Variant: at the borrow factor, the LTV buffer taken off.
UserLiquidationPriceBuffered(u, c, l) ==
  LET h == position[u][c]
  IN  IF h.collateral = 0 \/ MaxAllowedCf(h.liquidation_cf) = 0 THEN MaxU64
      ELSE PriceAtLimit(c, h.collateral, UserDebt(u, Other(c), l),
                        MaxAllowedCf(h.liquidation_cf))

\* get_liquidation_price
UserLiquidationPrice(u, c, l) ==
  LET h == position[u][c]
  IN  IF UserDebt(u, Other(c), l) = 0 THEN 0
      ELSE IF h.collateral = 0 \/ h.liquidation_cf = 0 THEN MaxU64
      ELSE PriceAtLimit(c, h.collateral, UserDebt(u, Other(c), l), h.liquidation_cf)

----------------------------------------------------------------------------
(* Properties. *)

\* A quote is what a swap of the same slot pays, unless another instruction
\* on the pair comes between them: swap and the view compute it separately.
QuoteIsHonoured ==
  [][ \A t \in Token, l \in UpdatedPairs : \A amount \in Inputs.swap[t] :
        reserve_vault' # reserve_vault /\ Swap(t, amount, l) =>
          /\ reserve_vault[Other(t)] - reserve_vault[Other(t)]' = SwapQuote(l, t, amount).out
          /\ SwapQuote(l, t, amount).fee <= amount ]_vars

\* The liquidation price simulated for a loan is the one the position then
\* has: the factor locked in is the simulated one, and the debt it is about is
\* the loan and a share's worth more at most, the shares being rounded up.
SimulationForetells ==
  [][ \A u \in Users, d \in Token, l \in UpdatedPairs : \A amount \in Inputs.debt[d] \ {MaxU64} :
        position[u][d].debt_shares = 0 /\ Borrow(u, d, amount, l) =>
          LET c == Other(d)
              simulated(debt) ==
                SimulateLiquidationPrice(l, c, position[u][c].collateral, debt)
          IN  \/ UserLiquidationPrice(u, c, ledger)'
                   \in simulated(amount) .. simulated(amount + ShareWorth(l[d]))
              \/ ledger'[d].clipped ]_vars

\* UserLiquidationBorrowLimit's comment: "Position is liquidatable when debt
\* >= this value", which liquidate computes by code of its own, wherever it
\* can value the collateral at all.
LiquidationLimitIsTrue ==
  \A u \in Users, c \in Token, l \in UpdatedPairs :
    /\ UserDebt(u, Other(c), l) > 0
    /\ LiquidationReservesOk(l, c)
    /\ AmountOutOk(LiquidationReserves(l, c).x, position[u][c].collateral)
    => (Undercollateralized(u, c, l)
          <=> UserDebt(u, Other(c), l) >= UserLiquidationBorrowLimit(u, c, l))

\* the lower price puts a value on collateral, by the curve and not by the spot
\* reserves, which get_collateral_value falls back to
LowerPriceCounts(l, c) ==
  /\ PriceStepCounts(l, c)
  /\ DirectionalEmaPrice(l[c]) = 0 => EmaPrice(l[c]) = 0
  /\ VirtualReservesOk(l[c].reserve, l[Other(c)].reserve,
                       EmaPrice(l[c]), DirectionalEmaPrice(l[c]))

\* pessimistic_max_debt's comment, "guaranteeing borrow_limit <=
\* liquidation_limit for any collateral size": whatever the prices have done,
\* no collateral may borrow what would be liquidated at once.
BorrowLimitBelowLiquidation ==
  \A c \in Token, l \in UpdatedPairs : \A amount \in Inputs.collateral[c] \ {0} :
    LET max == MaxDebtForCollateral(l, c, amount)
    IN  max.ok /\ LiquidationReservesOk(l, c) /\ PriceStepCounts(l, c) =>
          max.limit <= BpsFloor(CollateralValue(l, c, amount), max.cf)

\* No warning is missed: UserIsLiquidatable, which takes the lower of the two
\* EMA prices where liquidate takes the symmetric one, reports every debt that
\* liquidate accepts.  (After a fall it also reports others.)
LiquidatableIsReported ==
  \A u \in Users, c \in Token, l \in UpdatedPairs :
    /\ LiquidateOk(u, c, l)
    /\ UserDebt(u, Other(c), l) > 0 /\ position[u][c].collateral > 0
    /\ LowerPriceCounts(l, c)
    => UserIsLiquidatable(u, c, l)

\* the EMA price of a whole token is below the reported liquidation price, by
\* more than the unit that is rounded up
BelowLiquidationPrice(u, c, l) ==
  EmaPrice(l[c]) * DecimalScale[c]
    <= (UserLiquidationPrice(u, c, l) - 1) * DecimalScale[Other(c)]

\* "Returns the NAD-scaled liquidation price of the collateral": once the price
\* is below it, the position is liquidated.  It has no price impact in it,
\* which liquidate takes off, so a position may be liquidated above it, too.
\* (A price that has been rounded to nothing values collateral at the spot
\* reserves, and a product of the reserves too great to be scaled before it is
\* divided may raise the price the curve is put at.)
LiquidatedBelowPrice ==
  \A u \in Users, c \in Token, l \in UpdatedPairs :
    /\ position[u][c].collateral > 0
    /\ EmaPrice(l[c]) > 0 /\ BelowLiquidationPrice(u, c, l)
    /\ LiquidationReservesOk(l, c)
    /\ MulFits(l[c].reserve * l[Other(c)].reserve, NAD)
    => Undercollateralized(u, c, l)

\* UserDynamicBorrowLimit is what borrow lends to somebody who asks for all:
\* the debt is brought to the limit, or above it by what a share is worth at
\* most, by the rounding of the shares in the pool's favour.
AllOfLimitIsLent ==
  [][ \A u \in Users, d \in Token, l \in UpdatedPairs :
        Borrow(u, d, MaxU64, l) =>
          LET limit == UserDynamicBorrowLimit(u, d, l)
          IN  \/ UserDebt(u, d, ledger)' \in limit .. limit + ShareWorth(l[d])
              \/ ledger'[d].clipped ]_vars

=============================================================================
