------------------------------ MODULE GammMath ------------------------------
(***************************************************************************)
(* The constant-product curve, the virtual reserves at the pessimistic     *)
(* price and the borrow limit: utils/gamm_math.rs.                         *)
(*                                                                         *)
(* A Rust function returning Result is an operator for its Ok value and a  *)
(* predicate (or an "ok" field) for not being Err.                         *)
(***************************************************************************)
EXTENDS FixedPoint

CONSTANTS
  MIN_LIQUIDITY,      \* the liquidity locked at bootstrap; the precision floor
  FixedCfBps          \* fixed_cf_bps, 0 for None

BPS_DENOMINATOR           == 10000
MAX_COLLATERAL_FACTOR_BPS == 8500
LTV_BUFFER_BPS            == 500
FIXED_CF_FLOOR_BPS        == 100

ASSUME MinLiquidityAssumption == MIN_LIQUIDITY \in Nat \ {0}
ASSUME FixedCfAssumption ==
  FixedCfBps \in {0} \cup FIXED_CF_FLOOR_BPS .. BPS_DENOMINATOR

----------------------------------------------------------------------------
(* CPCurve: (x + dx)(y - dy) = xy, rounded for the pool. *)

AmountOutOk(reserve_in, amount_in) == reserve_in + amount_in > 0

CalculateAmountOut(reserve_in, reserve_out, amount_in) ==
  (amount_in * reserve_out) \div (reserve_in + amount_in)

CalculateAmountIn(reserve_in, reserve_out, amount_out) ==
  CeilDiv(amount_out * reserve_in, reserve_out - amount_out)

AmountInOk(reserve_in, reserve_out, amount_out) ==
  /\ amount_out < reserve_out
  /\ CalculateAmountIn(reserve_in, reserve_out, amount_out) \in U64

----------------------------------------------------------------------------
(* Virtual reserves: the point of the curve of the spot reserves where the  *)
(* price is the pessimistic one.  k is multiplied first; when that leaves   *)
(* u128, one factor is scaled before the other is multiplied in.            *)

MulDiv(a, b, num, den) ==
  IF MulFits(a * b, num) THEN (a * b * num) \div den ELSE ((a * num) \div den) * b

MulDivOk(a, b, num, den) ==
  ~MulFits(a * b, num) => MulFits((a * num) \div den, b)

VirtualReserves(rc, rd, ema, dir) ==
  LET price == Lesser(dir, ema)
  IN  IF rc < MIN_LIQUIDITY \/ rd < MIN_LIQUIDITY THEN [x |-> 0, y |-> 0]
      ELSE IF price = 0 THEN [x |-> rc, y |-> rd]
      ELSE [x |-> Sqrt(MulDiv(rc, rd, NAD, price)),
            y |-> Sqrt(MulDiv(rd, rc, price, NAD))]

VirtualReservesOk(rc, rd, ema, dir) ==
  LET price == Lesser(dir, ema)
      v     == VirtualReserves(rc, rd, ema, dir)
  IN  rc >= MIN_LIQUIDITY /\ rd >= MIN_LIQUIDITY /\ price > 0 =>
        /\ MulDivOk(rc, rd, NAD, price)
        /\ MulDivOk(rd, rc, price, NAD)
        /\ v.x \in U64
        /\ v.y \in U64

----------------------------------------------------------------------------
(* pessimistic_max_debt: what `amount` of collateral may borrow, and the    *)
(* liquidation factor locked in with it.                                    *)

\* the impact-aware factor: what the pool can still lend against this
\* collateral on top of total_debt, relative to the collateral's own value
DynamicCf(v, value, amount, total_debt) ==
  LET utilized == CalculateAmountIn(v.x, v.y, total_debt)
      max_allowed_total_debt == CalculateAmountOut(v.x, v.y, utilized + amount)
      user_max_debt == SatSub(max_allowed_total_debt, total_debt)
  IN  IF value = 0 THEN 0 ELSE (user_max_debt * BPS_DENOMINATOR) \div value

DynamicCfOk(v, amount, total_debt) ==
  /\ AmountInOk(v.x, v.y, total_debt)
  /\ CalculateAmountIn(v.x, v.y, total_debt) + amount <= MaxU64

LiquidationCf(v, value, amount, ema, dir, total_debt) ==
  IF FixedCfBps > 0
  THEN LET capped == Lesser(FixedCfBps, (dir * FixedCfBps) \div ema)
       IN  IF capped < FIXED_CF_FLOOR_BPS THEN FIXED_CF_FLOOR_BPS ELSE capped
  ELSE Lesser(DynamicCf(v, value, amount, total_debt), MAX_COLLATERAL_FACTOR_BPS)

\* the borrow factor keeps a buffer below the liquidation factor
MaxAllowedCf(liquidation_cf) ==
  (liquidation_cf * (BPS_DENOMINATOR - LTV_BUFFER_BPS)) \div BPS_DENOMINATOR

NoDebtAllowed == [ok |-> TRUE, limit |-> 0, cf |-> 0]
MathError     == [ok |-> FALSE, limit |-> 0, cf |-> 0]

\* Variant: the collateral valued at the price alone, without its impact.
MaxDebtLinear(amount, ema, dir, rc, rd, total_debt) ==
  LET v     == VirtualReserves(rc, rd, ema, dir)
      value == (amount * Lesser(ema, dir)) \div NAD
      cf    == LiquidationCf(v, value, amount, ema, dir, total_debt)
  IN  IF amount = 0 \/ ema = 0 \/ dir = 0 THEN NoDebtAllowed
      ELSE IF ~VirtualReservesOk(rc, rd, ema, dir) THEN MathError
      ELSE IF FixedCfBps = 0 /\ ~DynamicCfOk(v, amount, total_debt) THEN MathError
      ELSE [ok    |-> TRUE,
            limit |-> Lesser((value * MAX_COLLATERAL_FACTOR_BPS) \div BPS_DENOMINATOR, MaxU64),
            cf    |-> cf]

\* Variant: the two factors of the answer exchanged, so that the borrow factor
\* is locked in.
MaxDebtFactorsExchanged(amount, ema, dir, rc, rd, total_debt) ==
  LET v     == VirtualReserves(rc, rd, ema, dir)
      value == CalculateAmountOut(v.x, v.y, amount)
      cf    == LiquidationCf(v, value, amount, ema, dir, total_debt)
  IN  IF amount = 0 \/ ema = 0 \/ dir = 0 THEN NoDebtAllowed
      ELSE IF ~VirtualReservesOk(rc, rd, ema, dir) THEN MathError
      ELSE IF FixedCfBps = 0 /\ rd = 0 THEN NoDebtAllowed
      ELSE IF FixedCfBps = 0 /\ ~DynamicCfOk(v, amount, total_debt) THEN MathError
      ELSE [ok    |-> TRUE,
            limit |-> Lesser((value * MaxAllowedCf(cf)) \div BPS_DENOMINATOR, MaxU64),
            cf    |-> MaxAllowedCf(cf)]

MaxDebt(amount, ema, dir, rc, rd, total_debt) ==
  LET v     == VirtualReserves(rc, rd, ema, dir)
      value == CalculateAmountOut(v.x, v.y, amount)
      cf    == LiquidationCf(v, value, amount, ema, dir, total_debt)
  IN  IF amount = 0 \/ ema = 0 \/ dir = 0 THEN NoDebtAllowed
      ELSE IF ~VirtualReservesOk(rc, rd, ema, dir) THEN MathError
      ELSE IF FixedCfBps = 0 /\ rd = 0 THEN NoDebtAllowed
      ELSE IF FixedCfBps = 0 /\ ~DynamicCfOk(v, amount, total_debt) THEN MathError
      ELSE [ok    |-> TRUE,
            limit |-> Lesser((value * MaxAllowedCf(cf)) \div BPS_DENOMINATOR, MaxU64),
            cf    |-> cf]

=============================================================================
