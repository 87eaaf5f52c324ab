----------------------------- MODULE PairProofs -----------------------------
(***************************************************************************)
(* Theorems about the pair, for every number of users, every width of the  *)
(* integers and every choice of the inputs: types, the solvency of the     *)
(* vaults, the ledger identity and the totals.                             *)
(*                                                                         *)
(* First the operators the pair is built from: the ranges of the borrow    *)
(* limit, of prices and interest and of the share accounting.  Then        *)
(* TokenInv, the invariant of one token's ledger, and what every operation *)
(* on a ledger does to it.  The ledger identity needs more than itself:    *)
(* SyncEmpty drops the debt that is left when the shares run out, so the   *)
(* identity survives a repayment only if nobody holds more shares than the *)
(* pair records.  TokenInv therefore says that the users' shares add up to *)
(* the pair's, and that the vaults back the accounts.                      *)
(*                                                                         *)
(* PairInv, the inductive invariant, is TokenInv for both tokens and the   *)
(* supply equation, which keeps total_supply positive.  An instruction     *)
(* works on ledgers that update has just changed, so its lemma starts from *)
(* Sound(l), the first part of PairInv with the updated ledgers l in place *)
(* of the pair's.  PledgesInv, that collateral totals are sums too, is     *)
(* proved on top of it.                                                    *)
(***************************************************************************)
EXTENDS Omnipair, FixedPointLemmas

----------------------------------------------------------------------------
(* The curve and the borrow limit. *)

\* the curve pays out a natural
LEMMA AmountOutNat ==
  ASSUME NEW reserve_in \in Nat, NEW reserve_out \in Nat, NEW amount \in Nat,
         AmountOutOk(reserve_in, amount)
  PROVE  CalculateAmountOut(reserve_in, reserve_out, amount) \in Nat
<1>1. amount * reserve_out \in Nat /\ reserve_in + amount \in Nat \ {0}
  BY MulNat DEF AmountOutOk
<1> QED
  BY <1>1, DivFloor DEF CalculateAmountOut

\* virtual reserves that were computed without an error are u64
LEMMA VirtualReservesInU64 ==
  ASSUME NEW rc \in U64, NEW rd \in U64, NEW ema \in U64, NEW dir \in U64,
         VirtualReservesOk(rc, rd, ema, dir)
  PROVE  VirtualReserves(rc, rd, ema, dir) \in [x : U64, y : U64]
<1>1. MIN_LIQUIDITY \in Nat /\ 0 \in U64
  BY MinLiquidityAssumption, WidthAssumption DEF U64
<1>2. CASE rc < MIN_LIQUIDITY \/ rd < MIN_LIQUIDITY
  BY <1>1, <1>2 DEF VirtualReserves
<1>3. CASE ~(rc < MIN_LIQUIDITY \/ rd < MIN_LIQUIDITY) /\ Lesser(dir, ema) = 0
  BY <1>3 DEF VirtualReserves
<1>4. CASE ~(rc < MIN_LIQUIDITY \/ rd < MIN_LIQUIDITY) /\ Lesser(dir, ema) # 0
  <2>1. rc >= MIN_LIQUIDITY /\ rd >= MIN_LIQUIDITY /\ Lesser(dir, ema) > 0
    BY <1>1, <1>4, WidthAssumption DEF U64, Lesser
  <2> QED
    BY <1>4, <2>1 DEF VirtualReservesOk, VirtualReserves
<1> QED
  BY <1>2, <1>3, <1>4

\* how the factors compare
LEMMA BpsFacts ==
  /\ BPS_DENOMINATOR \in Nat \ {0}
  /\ FixedCfBps \in Nat /\ FixedCfBps <= BPS_DENOMINATOR
  /\ FIXED_CF_FLOOR_BPS \in Nat /\ FIXED_CF_FLOOR_BPS <= BPS_DENOMINATOR
  /\ MAX_COLLATERAL_FACTOR_BPS \in Nat /\ MAX_COLLATERAL_FACTOR_BPS <= BPS_DENOMINATOR
  /\ BPS_DENOMINATOR - LTV_BUFFER_BPS \in Nat
BY FixedCfAssumption
DEF BPS_DENOMINATOR, FIXED_CF_FLOOR_BPS, MAX_COLLATERAL_FACTOR_BPS, LTV_BUFFER_BPS

\* the factor a fixed or a dynamic configuration locks in is a fraction
LEMMA LiquidationCfRange ==
  ASSUME NEW v \in [x : U64, y : U64], NEW value \in Nat, NEW amount \in U64,
         NEW ema \in U64, NEW dir \in U64, NEW total_debt \in U64,
         amount > 0, ema > 0,
         FixedCfBps = 0 => DynamicCfOk(v, amount, total_debt)
  PROVE  LiquidationCf(v, value, amount, ema, dir, total_debt) \in 0 .. BPS_DENOMINATOR
<1>1. MaxU64 \in Nat
  BY WidthAssumption
<1>2. CASE FixedCfBps > 0
  <2>1. FixedCfBps \in Nat
    BY BpsFacts
  <2>2. dir * FixedCfBps \in Nat
    BY <1>1, <2>1, MulNat DEF U64
  <2>3. (dir * FixedCfBps) \div ema \in Nat
    BY <1>1, <2>2, DivFloor DEF U64
  <2> DEFINE shrunk == (dir * FixedCfBps) \div ema
             capped == Lesser(FixedCfBps, shrunk)
  <2>4. capped \in Nat /\ capped <= FixedCfBps
    <3>1. shrunk \in Nat
      BY <2>3
    <3> HIDE DEF shrunk
    <3> QED
      BY <2>1, <3>1, LesserRange
  <2>5. LiquidationCf(v, value, amount, ema, dir, total_debt)
          = IF capped < FIXED_CF_FLOOR_BPS THEN FIXED_CF_FLOOR_BPS ELSE capped
    BY <1>2 DEF LiquidationCf
  <2> HIDE DEF capped
  <2> QED
    BY <2>4, <2>5, BpsFacts
<1>3. CASE ~(FixedCfBps > 0)
  <2>1. FixedCfBps = 0
    BY <1>3, BpsFacts
  <2> DEFINE utilized == CalculateAmountIn(v.x, v.y, total_debt)
             allowed  == CalculateAmountOut(v.x, v.y, utilized + amount)
             free     == SatSub(allowed, total_debt)
  <2>2. utilized \in U64
    BY <2>1 DEF DynamicCfOk, AmountInOk
  <2>3. allowed \in Nat
    <3> HIDE DEF utilized
    <3>1. v.x \in Nat /\ v.y \in Nat /\ utilized + amount \in Nat
      BY <1>1, <2>2 DEF U64
    <3>2. AmountOutOk(v.x, utilized + amount)
      BY <1>1, <2>2 DEF U64, AmountOutOk
    <3> QED
      BY <3>1, <3>2, AmountOutNat
  <2>4. free \in Nat
    BY <1>1, <2>3 DEF SatSub, U64
  <2>5. DynamicCf(v, value, amount, total_debt)
          = IF value = 0 THEN 0 ELSE (free * BPS_DENOMINATOR) \div value
    BY DEF DynamicCf
  <2> HIDE DEF free
  <2>6. free * BPS_DENOMINATOR \in Nat
    BY <2>4, BpsFacts, MulNat
  <2>7. DynamicCf(v, value, amount, total_debt) \in Nat
    BY <2>5, <2>6, DivFloor
  <2>8. LiquidationCf(v, value, amount, ema, dir, total_debt)
          = Lesser(DynamicCf(v, value, amount, total_debt), MAX_COLLATERAL_FACTOR_BPS)
    BY <1>3 DEF LiquidationCf
  <2> QED
    <3> DEFINE cf == DynamicCf(v, value, amount, total_debt)
    <3>1. cf \in Nat
      BY <2>7
    <3> HIDE DEF cf
    <3>2. LiquidationCf(v, value, amount, ema, dir, total_debt) = Lesser(cf, MAX_COLLATERAL_FACTOR_BPS)
      BY <2>8 DEF cf
    <3> QED
      BY <3>1, <3>2, BpsFacts, LesserRange
<1> QED
  BY <1>2, <1>3

\* pessimistic_max_debt answers with a u64 limit and a factor that is a fraction
LEMMA MaxDebtRange ==
  ASSUME NEW amount \in U64, NEW ema \in U64, NEW dir \in U64,
         NEW rc \in U64, NEW rd \in U64, NEW total_debt \in U64
  PROVE  /\ MaxDebt(amount, ema, dir, rc, rd, total_debt).limit \in U64
         /\ MaxDebt(amount, ema, dir, rc, rd, total_debt).cf \in 0 .. BPS_DENOMINATOR
<1> DEFINE v     == VirtualReserves(rc, rd, ema, dir)
           value == CalculateAmountOut(v.x, v.y, amount)
           cf    == LiquidationCf(v, value, amount, ema, dir, total_debt)
           limit == Lesser((value * MaxAllowedCf(cf)) \div BPS_DENOMINATOR, MaxU64)
<1>1. MaxU64 \in Nat /\ 0 \in U64 /\ 0 \in 0 .. BPS_DENOMINATOR
  BY WidthAssumption, BpsFacts DEF U64
<1>2. CASE amount = 0 \/ ema = 0 \/ dir = 0
  BY <1>1, <1>2 DEF MaxDebt, NoDebtAllowed
<1>3. CASE ~(amount = 0 \/ ema = 0 \/ dir = 0) /\ ~VirtualReservesOk(rc, rd, ema, dir)
  BY <1>1, <1>3 DEF MaxDebt, MathError
<1>4. CASE /\ ~(amount = 0 \/ ema = 0 \/ dir = 0) /\ VirtualReservesOk(rc, rd, ema, dir)
           /\ FixedCfBps = 0 /\ rd = 0
  BY <1>1, <1>4 DEF MaxDebt, NoDebtAllowed
<1>5. CASE /\ ~(amount = 0 \/ ema = 0 \/ dir = 0) /\ VirtualReservesOk(rc, rd, ema, dir)
           /\ ~(FixedCfBps = 0 /\ rd = 0)
           /\ FixedCfBps = 0 /\ ~DynamicCfOk(v, amount, total_debt)
  BY <1>1, <1>5 DEF MaxDebt, MathError
<1>6. CASE /\ ~(amount = 0 \/ ema = 0 \/ dir = 0) /\ VirtualReservesOk(rc, rd, ema, dir)
           /\ ~(FixedCfBps = 0 /\ rd = 0)
           /\ ~(FixedCfBps = 0 /\ ~DynamicCfOk(v, amount, total_debt))
  <2>1. MaxDebt(amount, ema, dir, rc, rd, total_debt) = [ok |-> TRUE, limit |-> limit, cf |-> cf]
    BY <1>6 DEF MaxDebt
  <2>2. v \in [x : U64, y : U64]
    BY <1>6, VirtualReservesInU64
  <2> HIDE DEF v
  <2>3. value \in Nat
    <3>1. v.x \in Nat /\ v.y \in Nat /\ amount \in Nat /\ amount > 0
      BY <1>1, <1>6, <2>2 DEF U64
    <3>2. AmountOutOk(v.x, amount)
      BY <3>1 DEF AmountOutOk
    <3> QED
      BY <3>1, <3>2, AmountOutNat
  <2> HIDE DEF value
  <2>4. cf \in 0 .. BPS_DENOMINATOR
    <3>1. amount > 0 /\ ema > 0
      BY <1>1, <1>6 DEF U64
    <3>2. FixedCfBps = 0 => DynamicCfOk(v, amount, total_debt)
      BY <1>6
    <3> QED
      BY <2>2, <2>3, <3>1, <3>2, LiquidationCfRange
  <2> HIDE DEF cf
  <2>5. cf * (BPS_DENOMINATOR - LTV_BUFFER_BPS) \in Nat
    BY <2>4, BpsFacts, MulNat
  <2>6. MaxAllowedCf(cf) \in Nat
    BY <2>5, BpsFacts, DivFloor DEF MaxAllowedCf
  <2>7. (value * MaxAllowedCf(cf)) \div BPS_DENOMINATOR \in Nat
    BY <2>3, <2>6, BpsFacts, MulNat, DivFloor
  <2>8. limit \in U64
    BY <1>1, <2>7, LesserRange DEF U64
  <2> QED
    BY <2>1, <2>4, <2>8
<1> QED
  BY <1>2, <1>3, <1>4, <1>5, <1>6

----------------------------------------------------------------------------
(* A token's ledger.  Balanced is the ledger identity for one token.        *)

Balanced(k) == ~k.clipped => k.reserve = k.cash_reserve + k.total_debt

\* the fields of a ledger are naturals, and so are the widths
LEMMA LedgerFields ==
  ASSUME NEW k \in Ledger
  PROVE  /\ MaxU64 \in Nat /\ MaxU128 \in Nat
         /\ k.reserve \in Nat /\ k.reserve <= MaxU64
         /\ k.cash_reserve \in Nat /\ k.cash_reserve <= MaxU64
         /\ k.total_debt \in Nat /\ k.total_debt <= MaxU64
         /\ k.total_debt_shares \in Nat /\ k.total_debt_shares <= MaxU128
         /\ k.total_collateral \in Nat /\ k.total_collateral <= MaxU64
         /\ k.clipped \in BOOLEAN
BY WidthAssumption DEF Ledger, U64, U128

\* a spot price is a u64
LEMMA SpotPriceInU64 ==
  ASSUME NEW reserve \in U64, NEW reserve_other \in U64
  PROVE  SpotPrice(reserve, reserve_other) \in U64
<1>1. MaxU64 \in Nat
  BY WidthAssumption
<1>2. CASE reserve = 0
  BY <1>1, <1>2 DEF SpotPrice, U64
<1>3. CASE reserve # 0
  <2>1. (reserve_other * NAD) \div reserve \in Nat
    BY <1>1, <1>3, ScaleAssumption, MulNat, DivFloor DEF U64
  <2> QED
    BY <1>3, <2>1, CutInU64 DEF SpotPrice
<1> QED
  BY <1>2, <1>3

\* the price part of update changes the two prices only
LEMMA UpdatePricesKeeps ==
  ASSUME NEW k \in Ledger, NEW spot \in U64, NEW dt \in Nat
  PROVE  /\ UpdatePrices(k, spot, dt) \in Ledger
         /\ UpdatePrices(k, spot, dt).reserve = k.reserve
         /\ UpdatePrices(k, spot, dt).cash_reserve = k.cash_reserve
         /\ UpdatePrices(k, spot, dt).total_debt = k.total_debt
         /\ UpdatePrices(k, spot, dt).total_debt_shares = k.total_debt_shares
         /\ UpdatePrices(k, spot, dt).total_collateral = k.total_collateral
         /\ UpdatePrices(k, spot, dt).clipped = k.clipped
<1> DEFINE lowered == Lesser(k.directional, spot)
           ema     == ComputeEma(k.symmetric, dt, spot, HalfLifeMs)
           low     == ComputeEma(lowered, dt, spot, DIRECTIONAL_EMA_HALF_LIFE_MS)
<1>1. MaxU64 \in Nat /\ HalfLifeMs \in Nat /\ DIRECTIONAL_EMA_HALF_LIFE_MS \in Nat
  BY WidthAssumption, HalfLifeAssumption
<1>2. k.directional \in U64 /\ k.symmetric \in U64
  BY DEF Ledger
<1>3. lowered \in U64
  BY <1>1, <1>2 DEF Lesser, U64
<1> HIDE DEF lowered
<1>4. ema \in U64 /\ low \in U64
  BY <1>1, <1>2, <1>3, ComputeEmaInU64
<1>5. CASE dt = 0
  <2>1. UpdatePrices(k, spot, dt) = [k EXCEPT !.directional = lowered]
    BY <1>5 DEF UpdatePrices, lowered
  <2> QED
    BY <1>3, <2>1 DEF Ledger
<1>6. CASE dt # 0
  <2>1. UpdatePrices(k, spot, dt)
          = [k EXCEPT !.symmetric = ema, !.directional = Lesser(spot, low)]
    BY <1>6 DEF UpdatePrices, lowered
  <2> HIDE DEF ema, low
  <2>2. Lesser(spot, low) \in U64
    BY <1>4 DEF Lesser
  <2> QED
    BY <1>4, <2>1, <2>2 DEF Ledger
<1> QED
  BY <1>5, <1>6

\* interest keeps a ledger a ledger and balanced, and lowers r_cash at most
LEMMA AccrueInterestKeeps ==
  ASSUME NEW k \in Ledger, NEW integral \in Nat, AccrueOk(k, integral)
  PROVE  /\ AccrueInterest(k, integral) \in Ledger
         /\ Balanced(k) => Balanced(AccrueInterest(k, integral))
         /\ AccrueInterest(k, integral).cash_reserve <= k.cash_reserve
         /\ AccrueInterest(k, integral).reserve >= k.reserve
         /\ AccrueInterest(k, integral).total_collateral = k.total_collateral
         /\ AccrueInterest(k, integral).total_debt_shares = k.total_debt_shares
         /\ k.clipped => AccrueInterest(k, integral).clipped
<1> DEFINE interest == Interest(k, integral)
           fee      == ProtocolFee(k, integral)
           covered  == CoveredFee(k, integral)
<1>1. /\ MaxU64 \in Nat /\ k.total_debt \in Nat /\ k.cash_reserve \in Nat /\ k.reserve \in Nat
      /\ k.cash_reserve <= MaxU64 /\ k.clipped \in BOOLEAN
  BY WidthAssumption DEF Ledger, U64
<1>2. interest \in Nat
  BY <1>1, ScaleAssumption, MulNat, CeilDivNat DEF Interest
<1>3. fee \in Nat
  BY <1>2, BpsFacts, InterestBpsAssumption, MulNat, DivFloor DEF ProtocolFee
<1>4. covered \in Nat /\ covered <= fee /\ covered <= k.cash_reserve
  BY <1>1, <1>3, LesserRange DEF CoveredFee
<1>5. k.total_debt + interest + fee <= MaxU64
  BY DEF AccrueOk
<1> DEFINE grown == interest + (fee - covered)
           debt  == k.total_debt + interest + fee
           cash  == k.cash_reserve - covered
           flag  == k.clipped \/ k.reserve + interest + (fee - covered) > MaxU64
<1>6. AccrueInterest(k, integral) =
        [k EXCEPT !.total_debt = debt, !.reserve = SatAdd(k.reserve, grown),
                  !.cash_reserve = cash, !.clipped = flag]
  BY DEF AccrueInterest
<1>7. /\ grown \in Nat /\ cash \in U64 /\ debt \in U64 /\ flag \in BOOLEAN
      /\ cash <= k.cash_reserve
      /\ k.cash_reserve + k.total_debt + grown = cash + debt
  <2> HIDE DEF interest, fee, covered
  <2> QED
    BY <1>1, <1>2, <1>3, <1>4, <1>5 DEF U64
<1>8. ~flag => k.reserve + grown <= MaxU64
  <2> HIDE DEF interest, fee, covered
  <2> QED
    BY <1>1, <1>2, <1>3, <1>4
<1>9. /\ SatAdd(k.reserve, grown) \in U64
      /\ ~flag => SatAdd(k.reserve, grown) = k.reserve + grown
      /\ SatAdd(k.reserve, grown) >= k.reserve
  <2> HIDE DEF grown, flag
  <2>1. SatAdd(k.reserve, grown) >= k.reserve
    BY <1>1, <1>7, LedgerFields DEF SatAdd, Lesser
  <2> QED
    BY <1>1, <1>7, <1>8, <2>1, SatAddRange
<1>10. k.clipped => flag
  BY <1>1
<1> HIDE DEF grown, debt, cash, flag
<1>11. AccrueInterest(k, integral) \in Ledger
  BY <1>6, <1>7, <1>9 DEF Ledger
<1>12. /\ AccrueInterest(k, integral).reserve = SatAdd(k.reserve, grown)
       /\ AccrueInterest(k, integral).cash_reserve = cash
       /\ AccrueInterest(k, integral).total_debt = debt
       /\ AccrueInterest(k, integral).clipped = flag
       /\ AccrueInterest(k, integral).total_collateral = k.total_collateral
       /\ AccrueInterest(k, integral).total_debt_shares = k.total_debt_shares
  BY <1>6 DEF Ledger
<1>13. Balanced(k) => Balanced(AccrueInterest(k, integral))
  BY <1>1, <1>7, <1>9, <1>10, <1>12 DEF Balanced, U64
<1> QED
  BY <1>7, <1>9, <1>10, <1>11, <1>12, <1>13

\* Pair::update for one token does the same
LEMMA UpdateTokenKeeps ==
  ASSUME NEW k \in Ledger, NEW reserve_other \in U64, NEW dt \in Nat, NEW integral \in Nat,
         UpdateTokenOk(k, dt, integral)
  PROVE  /\ UpdateToken(k, reserve_other, dt, integral) \in Ledger
         /\ Balanced(k) => Balanced(UpdateToken(k, reserve_other, dt, integral))
         /\ UpdateToken(k, reserve_other, dt, integral).cash_reserve <= k.cash_reserve
         /\ UpdateToken(k, reserve_other, dt, integral).reserve >= k.reserve
         /\ UpdateToken(k, reserve_other, dt, integral).total_collateral = k.total_collateral
         /\ UpdateToken(k, reserve_other, dt, integral).total_debt_shares = k.total_debt_shares
         /\ k.clipped => UpdateToken(k, reserve_other, dt, integral).clipped
<1> DEFINE priced == UpdatePrices(k, SpotPrice(k.reserve, reserve_other), dt)
<1>1. k.reserve \in U64 /\ k.reserve \in Int /\ k.cash_reserve \in Int
  BY WidthAssumption DEF Ledger, U64
<1>2. SpotPrice(k.reserve, reserve_other) \in U64
  BY <1>1, SpotPriceInU64
<1>3. UpdateToken(k, reserve_other, dt, integral)
        = IF dt = 0 THEN priced ELSE AccrueInterest(priced, integral)
  BY DEF UpdateToken
<1> HIDE DEF priced
<1>4. /\ priced \in Ledger
      /\ priced.reserve = k.reserve /\ priced.cash_reserve = k.cash_reserve
      /\ priced.total_debt = k.total_debt /\ priced.total_debt_shares = k.total_debt_shares
      /\ priced.total_collateral = k.total_collateral /\ priced.clipped = k.clipped
  BY <1>2, UpdatePricesKeeps DEF priced
<1>5. Balanced(k) => Balanced(priced)
  BY <1>4 DEF Balanced
<1>6. CASE dt = 0
  BY <1>1, <1>3, <1>4, <1>5, <1>6
<1>7. CASE dt # 0
  <2>1. AccrueOk(priced, integral)
    <3>1. AccrueOk(k, integral)
      BY <1>7 DEF UpdateTokenOk
    <3> QED
      BY <1>4, <3>1 DEF AccrueOk, Interest, ProtocolFee
  <2> QED
    BY <1>3, <1>4, <1>5, <1>7, <2>1, AccrueInterestKeeps
<1> QED
  BY <1>6, <1>7

----------------------------------------------------------------------------
(* Debt and shares. *)

\* a debt that is computed without an error is a u64; nobody who holds a part
\* of the shares owes more than the pair's debt
LEMMA CalculateDebtRange ==
  ASSUME NEW k \in Ledger, NEW shares \in Nat, CalculateDebtOk(shares, k)
  PROVE  /\ CalculateDebt(shares, k) \in U64
         /\ shares <= k.total_debt_shares => CalculateDebt(shares, k) <= k.total_debt
<1> DEFINE debts == k.total_debt
           all   == k.total_debt_shares
<1>1. debts \in Nat /\ all \in Nat /\ MaxU64 \in Nat
  BY LedgerFields
<1>2. CASE all = 0
  BY <1>1, <1>2 DEF CalculateDebt, U64
<1>3. CASE all # 0
  <2>1. CalculateDebt(shares, k) \in U64
    BY <1>1, <1>3 DEF CalculateDebtOk
  <2>2. ASSUME shares <= all
        PROVE  CeilDiv(shares * debts, all) <= debts
    <3>1. shares * debts <= all * debts /\ shares * debts \in Nat
      BY <1>1, <2>2, MulMonotone, MulNat
    <3>2. shares * debts <= debts * all
      BY <1>1, <3>1
    <3> HIDE DEF debts, all
    <3> QED
      BY <1>1, <1>3, <3>1, <3>2, CeilDivAtMost
  <2> QED
    BY <1>3, <2>1, <2>2 DEF CalculateDebt
<1> QED
  BY <1>2, <1>3

\* what a borrower is given fits u128
LEMMA BorrowSharesRange ==
  ASSUME NEW k \in Ledger, NEW amount \in Nat, NEW held \in U128, BorrowSharesOk(k, amount)
  PROVE  /\ BorrowShares(k, amount) \in Nat
         /\ SharesAfterBorrow(k, held, BorrowShares(k, amount)) \in U128
<1> DEFINE all == k.total_debt_shares
<1>1. /\ all \in Nat /\ k.total_debt \in Nat /\ MaxU128 \in Nat
      /\ DEBT_SHARE_SCALE \in Nat /\ held \in Nat
  BY LedgerFields, DebtShareScaleAssumption DEF U128
<1>2. CASE all = 0
  <2>1. amount * DEBT_SHARE_SCALE \in U128
    BY <1>1, <1>2, MulFitsBound DEF BorrowSharesOk
  <2> QED
    BY <1>1, <1>2, <2>1 DEF BorrowShares, SharesAfterBorrow, U128
<1>3. CASE all # 0
  <2>1. k.total_debt \in Nat \ {0}
    BY <1>1, <1>3 DEF BorrowSharesOk
  <2>2. amount * all \in Nat
    BY <1>1, MulNat
  <2>3. BorrowShares(k, amount) \in Nat
    BY <1>3, <2>1, <2>2, CeilDivNat DEF BorrowShares
  <2>4. SatAddShares(held, BorrowShares(k, amount)) \in U128
    <3> DEFINE shares == BorrowShares(k, amount)
    <3>1. shares \in Nat
      BY <2>3
    <3> HIDE DEF shares
    <3>2. SatAddShares(held, shares) \in U128
      BY <1>1, <3>1 DEF SatAddShares, Lesser, U128
    <3> QED
      BY <3>2 DEF shares
  <2> QED
    BY <1>3, <2>3, <2>4 DEF SharesAfterBorrow
<1> QED
  BY <1>2, <1>3

\* borrowing keeps a ledger a ledger and balanced; unless the shares clip, the
\* pair's shares grow by the borrower's
LEMMA IncreaseDebtKeeps ==
  ASSUME NEW k \in Ledger, NEW amount \in Nat, BorrowSharesOk(k, amount),
         amount <= k.cash_reserve
  PROVE  LET next == IncreaseDebt(k, BorrowShares(k, amount), amount)
         IN  /\ next \in Ledger
             /\ Balanced(k) => Balanced(next)
             /\ next.cash_reserve = k.cash_reserve - amount
             /\ next.total_collateral = k.total_collateral
             /\ k.clipped => next.clipped
             /\ ~next.clipped =>
                  next.total_debt_shares = k.total_debt_shares + BorrowShares(k, amount)
<1> DEFINE shares == BorrowShares(k, amount)
           next   == IncreaseDebt(k, shares, amount)
           after  == SharesAfterBorrow(k, k.total_debt_shares, shares)
           debt   == SatAdd(k.total_debt, amount)
           cash   == k.cash_reserve - amount
           flag   == k.clipped \/ k.total_debt_shares + shares > MaxU128
<1>1. shares \in Nat /\ after \in U128
  BY BorrowSharesRange DEF Ledger
<1>2. debt \in U64 /\ (k.total_debt + amount <= MaxU64 => debt = k.total_debt + amount)
  BY LedgerFields, SatAddRange
<1>3. cash \in U64 /\ flag \in BOOLEAN /\ (k.clipped => flag)
  BY LedgerFields DEF U64
<1>4. ~flag => after = k.total_debt_shares + shares
  <2> HIDE DEF shares
  <2>1. ~flag => k.total_debt_shares + shares <= MaxU128
    BY <1>1, LedgerFields
  <2> QED
    BY <1>1, <2>1, LedgerFields DEF SharesAfterBorrow, SatAddShares, Lesser
<1>5. next = [k EXCEPT !.total_debt_shares = after, !.total_debt = debt,
                       !.cash_reserve = cash, !.clipped = flag]
  BY DEF IncreaseDebt
<1> HIDE DEF shares, next, after, debt, flag
<1>6. /\ next \in Ledger
      /\ next.reserve = k.reserve /\ next.cash_reserve = cash /\ next.total_debt = debt
      /\ next.total_debt_shares = after /\ next.clipped = flag
      /\ next.total_collateral = k.total_collateral
  BY <1>1, <1>2, <1>3, <1>5 DEF Ledger
<1>7. Balanced(k) => Balanced(next)
  <2>1. SUFFICES ASSUME Balanced(k), ~next.clipped
                 PROVE  next.reserve = next.cash_reserve + next.total_debt
    BY DEF Balanced
  <2>2. k.reserve = k.cash_reserve + k.total_debt
    BY <1>3, <1>6, <2>1 DEF Balanced
  <2>3. debt = k.total_debt + amount
    BY <1>2, <2>2, LedgerFields
  <2> QED
    BY <1>6, <2>2, <2>3, LedgerFields
<1> QED
  BY <1>3, <1>4, <1>6, <1>7 DEF next, shares

\* decreasing debt removes no more than there is
LEMMA SatSubRange ==
  ASSUME NEW a \in Nat, NEW b \in Nat
  PROVE  /\ SatSub(a, b) \in Nat /\ SatSub(a, b) <= a
         /\ b <= a => SatSub(a, b) = a - b
BY DEF SatSub

\* the sync after a decrease changes the debt only, and nothing when the
\* shares run out together with the debt
LEMMA SyncEmptyKeeps ==
  ASSUME NEW k \in Ledger
  PROVE  /\ SyncEmpty(k) \in Ledger
         /\ SyncEmpty(k).reserve = k.reserve /\ SyncEmpty(k).cash_reserve = k.cash_reserve
         /\ SyncEmpty(k).total_debt_shares = k.total_debt_shares
         /\ SyncEmpty(k).total_collateral = k.total_collateral
         /\ SyncEmpty(k).clipped = k.clipped
         /\ (k.total_debt_shares = 0 => k.total_debt = 0) => SyncEmpty(k).total_debt = k.total_debt
<1>1. 0 \in U64
  BY WidthAssumption DEF U64
<1>2. CASE k.total_debt_shares = 0
  BY <1>1, <1>2 DEF SyncEmpty, Ledger
<1>3. CASE k.total_debt_shares # 0
  BY <1>3 DEF SyncEmpty
<1> QED
  BY <1>2, <1>3

\* a repayment keeps a ledger a ledger, and balanced when it is of a debt of
\* the pair, the cash has room for it and it takes the last shares only
\* together with the last debt
LEMMA RepaymentKeeps ==
  ASSUME NEW k \in Ledger, NEW shares \in Nat, NEW amount \in Nat
  PROVE  LET next == Repayment(k, shares, amount)
         IN  /\ next \in Ledger
             /\ /\ Balanced(k)
                /\ ~k.clipped =>
                     /\ amount <= k.total_debt
                     /\ k.cash_reserve + amount <= MaxU64
                     /\ k.total_debt_shares <= shares => amount = k.total_debt
                => Balanced(next)
             /\ next.cash_reserve = SatAdd(k.cash_reserve, amount)
             /\ next.total_collateral = k.total_collateral
             /\ next.clipped = k.clipped
             /\ next.total_debt_shares = SatSub(k.total_debt_shares, shares)
<1> DEFINE next == Repayment(k, shares, amount)
           all  == SatSub(k.total_debt_shares, shares)
           debt == SatSub(k.total_debt, amount)
           cash == SatAdd(k.cash_reserve, amount)
           mid  == [k EXCEPT !.total_debt_shares = all, !.total_debt = debt,
                             !.cash_reserve = cash]
<1>1. /\ all \in Nat /\ all <= k.total_debt_shares
      /\ shares <= k.total_debt_shares => all = k.total_debt_shares - shares
  BY LedgerFields, SatSubRange
<1>2. /\ debt \in Nat /\ debt <= k.total_debt
      /\ amount <= k.total_debt => debt = k.total_debt - amount
  BY LedgerFields, SatSubRange
<1>3. /\ cash \in U64
      /\ k.cash_reserve + amount <= MaxU64 => cash = k.cash_reserve + amount
  BY LedgerFields, SatAddRange
<1>4. next = SyncEmpty(mid)
  BY DEF Repayment
<1> HIDE DEF all, debt, cash
<1>5. all \in U128 /\ debt \in U64
  BY <1>1, <1>2, LedgerFields DEF U64, U128
<1>6. /\ mid \in Ledger
      /\ mid.reserve = k.reserve /\ mid.cash_reserve = cash /\ mid.total_debt = debt
      /\ mid.total_debt_shares = all /\ mid.clipped = k.clipped
      /\ mid.total_collateral = k.total_collateral
  BY <1>3, <1>5 DEF Ledger
<1> HIDE DEF next, mid
<1>7. /\ next \in Ledger
      /\ next.reserve = k.reserve /\ next.cash_reserve = cash
      /\ next.total_debt_shares = all /\ next.clipped = k.clipped
      /\ next.total_collateral = k.total_collateral
      /\ (all = 0 => debt = 0) => next.total_debt = debt
  BY <1>4, <1>6, SyncEmptyKeeps
<1>8. ASSUME Balanced(k), ~k.clipped, amount <= k.total_debt,
             k.cash_reserve + amount <= MaxU64,
             k.total_debt_shares <= shares => amount = k.total_debt
      PROVE  next.reserve = next.cash_reserve + next.total_debt
  <2>1. k.reserve = k.cash_reserve + k.total_debt
    BY <1>8 DEF Balanced
  <2>2. debt = k.total_debt - amount /\ cash = k.cash_reserve + amount
    BY <1>2, <1>3, <1>8
  <2>3. all = 0 => debt = 0
    BY <1>1, <1>8, <2>2, LedgerFields
  <2> QED
    BY <1>7, <2>1, <2>2, <2>3, LedgerFields
<1> QED
  BY <1>7, <1>8 DEF Balanced, next, all, cash

\* so does a write-off, which leaves r_cash alone
LEMMA WriteOffKeeps ==
  ASSUME NEW k \in Ledger, NEW shares \in Nat, NEW amount \in Nat
  PROVE  LET next == WriteOff(k, shares, amount)
         IN  /\ next \in Ledger
             /\ /\ Balanced(k)
                /\ ~k.clipped =>
                     /\ amount <= k.total_debt
                     /\ k.total_debt_shares <= shares => amount = k.total_debt
                => Balanced(next)
             /\ next.cash_reserve = k.cash_reserve
             /\ next.total_collateral = k.total_collateral
             /\ next.clipped = k.clipped
             /\ next.total_debt_shares = SatSub(k.total_debt_shares, shares)
<1> DEFINE next == WriteOff(k, shares, amount)
           all  == SatSub(k.total_debt_shares, shares)
           debt == SatSub(k.total_debt, amount)
           res  == IF k.reserve < amount THEN 1 ELSE k.reserve - amount
           mid  == [k EXCEPT !.total_debt_shares = all, !.total_debt = debt, !.reserve = res]
<1>1. /\ all \in Nat /\ all <= k.total_debt_shares
      /\ shares <= k.total_debt_shares => all = k.total_debt_shares - shares
  BY LedgerFields, SatSubRange
<1>2. /\ debt \in Nat /\ debt <= k.total_debt
      /\ amount <= k.total_debt => debt = k.total_debt - amount
  BY LedgerFields, SatSubRange
<1>3. res \in U64 /\ (amount <= k.reserve => res = k.reserve - amount)
  BY LedgerFields, WidthAssumption DEF U64
<1>4. next = SyncEmpty(mid)
  BY DEF WriteOff
<1> HIDE DEF all, debt, res
<1>5. all \in U128 /\ debt \in U64
  BY <1>1, <1>2, LedgerFields DEF U64, U128
<1>6. /\ mid \in Ledger
      /\ mid.reserve = res /\ mid.cash_reserve = k.cash_reserve /\ mid.total_debt = debt
      /\ mid.total_debt_shares = all /\ mid.clipped = k.clipped
      /\ mid.total_collateral = k.total_collateral
  BY <1>3, <1>5 DEF Ledger
<1> HIDE DEF next, mid
<1>7. /\ next \in Ledger
      /\ next.reserve = res /\ next.cash_reserve = k.cash_reserve
      /\ next.total_debt_shares = all /\ next.clipped = k.clipped
      /\ next.total_collateral = k.total_collateral
      /\ (all = 0 => debt = 0) => next.total_debt = debt
  BY <1>4, <1>6, SyncEmptyKeeps
<1>8. ASSUME Balanced(k), ~k.clipped, amount <= k.total_debt,
             k.total_debt_shares <= shares => amount = k.total_debt
      PROVE  next.reserve = next.cash_reserve + next.total_debt
  <2>1. k.reserve = k.cash_reserve + k.total_debt
    BY <1>8 DEF Balanced
  <2>2. debt = k.total_debt - amount /\ res = k.reserve - amount
    BY <1>2, <1>3, <1>8, <2>1, LedgerFields
  <2>3. all = 0 => debt = 0
    BY <1>1, <1>8, <2>2, LedgerFields
  <2> QED
    BY <1>7, <2>1, <2>2, <2>3, LedgerFields
<1> QED
  BY <1>7, <1>8 DEF Balanced, next, all

\* A repayment that takes all the pair's shares pays all of its debt: the
\* shares for an amount are rounded down.
LEMMA LastSharesPayLastDebt ==
  ASSUME NEW k \in Ledger, NEW held \in Nat, NEW amount \in Nat,
         k.total_debt > 0, k.total_debt_shares > 0, amount <= k.total_debt,
         k.total_debt_shares <= RepaidShares(k, held, amount)
  PROVE  amount = k.total_debt
<1> DEFINE debt == k.total_debt
           all  == k.total_debt_shares
           part == (amount * all) \div debt
<1>1. debt \in Nat \ {0} /\ all \in Nat \ {0}
  BY LedgerFields
<1>2. amount * all \in Nat
  BY <1>1, MulNat
<1>3. part \in Nat /\ debt * part <= amount * all
  BY <1>1, <1>2, DivFloor
<1>4. all <= part
  <2>1. RepaidShares(k, held, amount) = Lesser(part, held)
    BY DEF RepaidShares
  <2> HIDE DEF part
  <2>2. Lesser(part, held) \in Nat /\ Lesser(part, held) <= part
    BY <1>3, LesserRange
  <2>3. all <= Lesser(part, held)
    BY <2>1
  <2> QED
    BY <1>1, <1>3, <2>2, <2>3
<1> HIDE DEF part
<1>5. all * debt <= part * debt
  BY <1>1, <1>3, <1>4, MulMonotone
<1>6. debt * all <= amount * all
  BY <1>1, <1>2, <1>3, <1>5
<1>7. ASSUME amount < debt PROVE FALSE
  <2>1. (amount + 1) * all <= debt * all
    BY <1>1, <1>7, MulMonotone
  <2>2. amount * all + all <= debt * all
    BY <1>1, <2>1
  <2> QED
    BY <1>1, <1>2, <1>6, <2>2
<1> QED
  BY <1>1, <1>7

----------------------------------------------------------------------------
(* Sums over the users. *)

SumsTo(f, total) == total = SumOverUsers(f)

\* there are finitely many users
LEMMA FiniteUsers == IsFiniteSet(Users)
BY UsersAssumption, FS_Interval DEF Users

\* no user's part exceeds the sum, nor do two users' parts together
LEMMA PartOfSum ==
  ASSUME NEW f \in [Users -> Nat], NEW total, SumsTo(f, total), NEW u \in Users
  PROVE  /\ total \in Nat
         /\ f[u] <= total
         /\ \A other \in Users \ {u} : f[u] + f[other] <= total
BY FiniteUsers, PartsWithinSum, SumNat DEF SumsTo, SumOverUsers, SumOf

\* replacing one user's part replaces it in the sum
LEMMA ReplaceInSum ==
  ASSUME NEW f \in [Users -> Nat], NEW total, SumsTo(f, total),
         NEW u \in Users, NEW part \in Nat
  PROVE  SumsTo([f EXCEPT ![u] = part], total - f[u] + part)
BY FiniteUsers, SumReplaced DEF SumsTo, SumOverUsers, SumOf

----------------------------------------------------------------------------
(* The invariant of one token: its ledger, the users' shares of its debt    *)
(* and the balances of its two vaults.                                      *)

TokenInv(k, shares, reserves, pledges) ==
  /\ k \in Ledger
  /\ shares \in [Users -> U128]
  /\ reserves \in U64
  /\ pledges \in U64
  /\ Balanced(k)
  /\ k.cash_reserve <= reserves
  /\ k.total_collateral <= pledges
  /\ ~k.clipped => SumsTo(shares, k.total_debt_shares)

\* a user's shares and those of a token
LEMMA SharesAreNat ==
  ASSUME NEW shares \in [Users -> U128]
  PROVE  shares \in [Users -> Nat] /\ \A u \in Users : shares[u] <= MaxU128
BY WidthAssumption DEF U128

\* updating the ledger keeps it
LEMMA UpdateTokenInv ==
  ASSUME NEW k, NEW shares, NEW reserves, NEW pledges, TokenInv(k, shares, reserves, pledges),
         NEW reserve_other \in U64, NEW dt \in Nat, NEW integral \in Nat,
         UpdateTokenOk(k, dt, integral)
  PROVE  TokenInv(UpdateToken(k, reserve_other, dt, integral), shares, reserves, pledges)
<1> DEFINE next == UpdateToken(k, reserve_other, dt, integral)
<1>1. k \in Ledger
  BY DEF TokenInv
<1>2. /\ next \in Ledger
      /\ Balanced(k) => Balanced(next)
      /\ next.cash_reserve <= k.cash_reserve
      /\ next.total_collateral = k.total_collateral
      /\ next.total_debt_shares = k.total_debt_shares
      /\ k.clipped => next.clipped
  BY <1>1, UpdateTokenKeeps
<1> HIDE DEF next
<1>3. /\ MaxU64 \in Nat /\ k.cash_reserve \in Nat /\ next.cash_reserve \in Nat
      /\ next.cash_reserve <= reserves /\ next.total_collateral <= pledges
  BY <1>1, <1>2, LedgerFields DEF TokenInv, U64
<1>4. ~next.clipped => SumsTo(shares, next.total_debt_shares)
  BY <1>2 DEF TokenInv
<1> QED
  BY <1>2, <1>3, <1>4 DEF TokenInv, next

\* so does crediting the reserves with no more than the vault receives
LEMMA CreditInv ==
  ASSUME NEW k, NEW shares, NEW reserves, NEW pledges, TokenInv(k, shares, reserves, pledges),
         NEW amount \in Nat, NEW received \in Nat, amount <= received,
         k.reserve + amount <= MaxU64, reserves + received <= MaxU64
  PROVE  TokenInv(Credit(k, amount), shares, reserves + received, pledges)
<1>1. k \in Ledger /\ reserves \in Nat /\ k.cash_reserve <= reserves
  BY WidthAssumption DEF TokenInv, U64
<1>2. k.cash_reserve + amount <= MaxU64
  BY <1>1, LedgerFields
<1>3. SatAdd(k.cash_reserve, amount) = k.cash_reserve + amount
  BY <1>1, <1>2, LedgerFields, SatAddRange
<1> DEFINE reserve == k.reserve + amount
           cash    == k.cash_reserve + amount
           next    == Credit(k, amount)
<1>4. next = [k EXCEPT !.reserve = reserve, !.cash_reserve = cash]
  BY <1>3 DEF Credit
<1>5. /\ reserve \in U64 /\ cash \in U64 /\ cash <= reserves + received
      /\ reserves + received \in U64
      /\ (k.reserve = k.cash_reserve + k.total_debt) => (reserve = cash + k.total_debt)
  BY <1>1, <1>2, LedgerFields DEF U64
<1> HIDE DEF reserve, cash, next
<1>6. /\ next \in Ledger
      /\ next.reserve = reserve /\ next.cash_reserve = cash /\ next.total_debt = k.total_debt
      /\ next.total_debt_shares = k.total_debt_shares /\ next.clipped = k.clipped
      /\ next.total_collateral = k.total_collateral
  BY <1>1, <1>4, <1>5 DEF Ledger
<1>7. Balanced(next)
  BY <1>5, <1>6 DEF TokenInv, Balanced
<1> QED
  BY <1>5, <1>6, <1>7 DEF TokenInv, next

\* so does debiting what the reserves, the cash and the vault hold
LEMMA DebitInv ==
  ASSUME NEW k, NEW shares, NEW reserves, NEW pledges, TokenInv(k, shares, reserves, pledges),
         NEW amount \in Nat, amount <= k.reserve, amount <= k.cash_reserve
  PROVE  TokenInv(Debit(k, amount), shares, reserves - amount, pledges)
<1>1. k \in Ledger /\ reserves \in Nat /\ reserves <= MaxU64 /\ k.cash_reserve <= reserves
  BY WidthAssumption DEF TokenInv, U64
<1> DEFINE reserve == k.reserve - amount
           cash    == k.cash_reserve - amount
           next    == Debit(k, amount)
<1>2. next = [k EXCEPT !.reserve = reserve, !.cash_reserve = cash]
  BY DEF Debit
<1>3. /\ reserve \in U64 /\ cash \in U64 /\ cash <= reserves - amount
      /\ reserves - amount \in U64
      /\ (k.reserve = k.cash_reserve + k.total_debt) => (reserve = cash + k.total_debt)
  BY <1>1, LedgerFields DEF U64
<1> HIDE DEF reserve, cash, next
<1>4. /\ next \in Ledger
      /\ next.reserve = reserve /\ next.cash_reserve = cash /\ next.total_debt = k.total_debt
      /\ next.total_debt_shares = k.total_debt_shares /\ next.clipped = k.clipped
      /\ next.total_collateral = k.total_collateral
  BY <1>1, <1>2, <1>3 DEF Ledger
<1>5. Balanced(next)
  BY <1>3, <1>4 DEF TokenInv, Balanced
<1> QED
  BY <1>3, <1>4, <1>5 DEF TokenInv, next

\* and a change of the pledged total that the collateral vault follows
LEMMA PledgeInv ==
  ASSUME NEW k, NEW shares, NEW reserves, NEW pledges, TokenInv(k, shares, reserves, pledges),
         NEW total \in U64, NEW held \in U64, total <= held
  PROVE  TokenInv([k EXCEPT !.total_collateral = total], shares, reserves, held)
<1> DEFINE next == [k EXCEPT !.total_collateral = total]
<1>1. k \in Ledger
  BY DEF TokenInv
<1>2. /\ next \in Ledger
      /\ next.reserve = k.reserve /\ next.cash_reserve = k.cash_reserve
      /\ next.total_debt = k.total_debt
      /\ next.total_debt_shares = k.total_debt_shares /\ next.clipped = k.clipped
      /\ next.total_collateral = total
  BY <1>1 DEF Ledger
<1> HIDE DEF next
<1>3. Balanced(next)
  BY <1>2 DEF TokenInv, Balanced
<1> QED
  BY <1>2, <1>3 DEF TokenInv, next

\* Borrowing: the borrower's shares and the pair's grow alike.
LEMMA BorrowInv ==
  ASSUME NEW k, NEW shares, NEW reserves, NEW pledges, TokenInv(k, shares, reserves, pledges),
         NEW u \in Users, NEW amount \in Nat, BorrowSharesOk(k, amount),
         amount <= k.cash_reserve
  PROVE  TokenInv(IncreaseDebt(k, BorrowShares(k, amount), amount),
                  [shares EXCEPT ![u] = SharesAfterBorrow(k, @, BorrowShares(k, amount))],
                  reserves - amount, pledges)
<1> DEFINE new  == BorrowShares(k, amount)
           held == SharesAfterBorrow(k, shares[u], new)
           next == IncreaseDebt(k, new, amount)
           mine == [shares EXCEPT ![u] = held]
<1>1. /\ k \in Ledger /\ reserves \in Nat /\ reserves <= MaxU64 /\ k.cash_reserve <= reserves
      /\ shares \in [Users -> U128] /\ shares[u] \in U128
  BY WidthAssumption DEF TokenInv, U64
<1>2. new \in Nat /\ held \in U128
  BY <1>1, BorrowSharesRange
<1>3. /\ next \in Ledger
      /\ Balanced(next)
      /\ next.cash_reserve = k.cash_reserve - amount
      /\ next.total_collateral = k.total_collateral
      /\ k.clipped => next.clipped
      /\ ~next.clipped => next.total_debt_shares = k.total_debt_shares + new
  BY <1>1, IncreaseDebtKeeps DEF TokenInv
<1> HIDE DEF new, held, next
<1>4. mine \in [Users -> U128]
  BY <1>1, <1>2
<1>5. next.cash_reserve <= reserves - amount /\ reserves - amount \in U64
  BY <1>1, <1>3, LedgerFields DEF U64
<1>6. ASSUME ~next.clipped PROVE SumsTo(mine, next.total_debt_shares)
  <2>1. shares \in [Users -> Nat] /\ shares[u] \in Nat /\ ~k.clipped
        /\ SumsTo(shares, k.total_debt_shares)
    BY <1>1, <1>3, <1>6, SharesAreNat, LedgerFields DEF TokenInv
  <2>2. shares[u] <= k.total_debt_shares
    BY <2>1, PartOfSum
  <2>3. k.total_debt_shares + new <= MaxU128
    BY <1>3, <1>6, LedgerFields
  <2>4. held = shares[u] + new
    BY <1>1, <1>2, <2>1, <2>2, <2>3, LedgerFields
       DEF held, SharesAfterBorrow, SatAddShares, Lesser
  <2>5. held \in Nat /\ k.total_debt_shares - shares[u] + held = k.total_debt_shares + new
    BY <1>1, <1>2, <2>1, <2>4, LedgerFields
  <2>6. SumsTo(mine, k.total_debt_shares - shares[u] + held)
    BY <2>1, <2>5, ReplaceInSum
  <2> QED
    BY <1>3, <1>6, <2>5, <2>6
<1>7. pledges \in U64 /\ next.total_collateral <= pledges
  BY <1>3 DEF TokenInv
<1>8. TokenInv(next, mine, reserves - amount, pledges)
  BY <1>3, <1>4, <1>5, <1>6, <1>7 DEF TokenInv
<1> QED
  BY <1>8 DEF next, mine, held, new

\* Taking shares from one user and from the pair: what decrease_debt does to
\* the shares, in a repayment and in a write-off.
LEMMA SharesTaken ==
  ASSUME NEW shares \in [Users -> U128], NEW total \in Nat, SumsTo(shares, total),
         NEW u \in Users, NEW n \in Nat, n <= shares[u]
  PROVE  SumsTo([shares EXCEPT ![u] = SatSub(@, n)], SatSub(total, n))
<1>1. shares \in [Users -> Nat] /\ shares[u] \in Nat
  BY SharesAreNat
<1>2. shares[u] <= total
  BY <1>1, PartOfSum
<1> DEFINE left == SatSub(shares[u], n)
<1>3. left = shares[u] - n
  BY <1>1, SatSubRange
<1>4. n <= total /\ SatSub(total, n) = total - n
  <2>1. n <= total
    BY <1>1, <1>2
  <2> QED
    BY <2>1, SatSubRange
<1> HIDE DEF left
<1>5. left \in Nat /\ total - shares[u] + left = total - n
  BY <1>1, <1>2, <1>3
<1>6. SumsTo([shares EXCEPT ![u] = left], total - shares[u] + left)
  BY <1>1, <1>5, ReplaceInSum
<1> QED
  BY <1>4, <1>5, <1>6 DEF left

\* Repaying.
LEMMA RepayInv ==
  ASSUME NEW k, NEW shares, NEW reserves, NEW pledges, TokenInv(k, shares, reserves, pledges),
         NEW u \in Users, NEW amount \in Nat,
         CalculateDebtOk(shares[u], k), CalculateDebt(shares[u], k) > 0,
         amount <= CalculateDebt(shares[u], k),
         RepaidSharesOk(k, amount), reserves + amount <= MaxU64
  PROVE  LET n == RepaidShares(k, shares[u], amount)
         IN  TokenInv(Repayment(k, n, amount), [shares EXCEPT ![u] = SatSub(@, n)],
                      reserves + amount, pledges)
<1> DEFINE n    == RepaidShares(k, shares[u], amount)
           next == Repayment(k, n, amount)
           mine == [shares EXCEPT ![u] = SatSub(@, n)]
           left == SatSub(shares[u], n)
           debt == CalculateDebt(shares[u], k)
<1>1. /\ k \in Ledger /\ reserves \in Nat /\ reserves <= MaxU64 /\ k.cash_reserve <= reserves
      /\ shares \in [Users -> U128] /\ shares[u] \in Nat /\ shares[u] <= MaxU128
      /\ MaxU128 \in Nat
  BY WidthAssumption, SharesAreNat DEF TokenInv, U64
<1>2. debt \in Nat /\ (shares[u] <= k.total_debt_shares => debt <= k.total_debt)
  BY <1>1, CalculateDebtRange DEF U64
<1>3. k.total_debt > 0 /\ k.total_debt_shares > 0
  BY <1>1, <1>2, LedgerFields DEF RepaidSharesOk, CalculateDebt
<1>4. n \in Nat /\ n <= shares[u]
  <2>1. (amount * k.total_debt_shares) \div k.total_debt \in Nat
    BY <1>1, <1>3, LedgerFields, MulNat, DivFloor
  <2> QED
    BY <1>1, <2>1, LesserRange DEF RepaidShares
<1>5. k.total_debt_shares <= n /\ amount <= k.total_debt => amount = k.total_debt
  BY <1>1, <1>3, LastSharesPayLastDebt
<1>6. SatAdd(k.cash_reserve, amount) \in U64
      /\ SatAdd(k.cash_reserve, amount) <= reserves + amount
  <2>1. k.cash_reserve \in Nat /\ k.cash_reserve + amount \in Nat /\ MaxU64 \in Nat
    BY <1>1, LedgerFields
  <2>2. Lesser(k.cash_reserve + amount, MaxU64) <= k.cash_reserve + amount
    BY <2>1, LesserRange
  <2>3. SatAdd(k.cash_reserve, amount) \in U64
    BY <2>1, SatAddRange
  <2>4. SatAdd(k.cash_reserve, amount) = Lesser(k.cash_reserve + amount, MaxU64)
    BY DEF SatAdd
  <2>5. SatAdd(k.cash_reserve, amount) \in Nat
    BY <2>1, <2>3 DEF U64
  <2> QED
    BY <1>1, <2>1, <2>2, <2>3, <2>4, <2>5
<1>7. left \in U128
  BY <1>1, <1>4, SatSubRange DEF U128
<1> HIDE DEF n, debt
<1>8. ~k.clipped => /\ shares[u] <= k.total_debt_shares
                    /\ amount <= k.total_debt
                    /\ k.cash_reserve + amount <= MaxU64
  <2> SUFFICES ASSUME ~k.clipped
               PROVE  /\ shares[u] <= k.total_debt_shares
                      /\ amount <= k.total_debt
                      /\ k.cash_reserve + amount <= MaxU64
    OBVIOUS
  <2>1. shares[u] <= k.total_debt_shares
    BY <1>1, SharesAreNat, PartOfSum DEF TokenInv
  <2>2. amount <= k.total_debt
    BY <1>1, <1>2, <2>1, LedgerFields DEF debt
  <2>3. k.reserve = k.cash_reserve + k.total_debt
    BY DEF TokenInv, Balanced
  <2> QED
    BY <1>1, <2>1, <2>2, <2>3, LedgerFields
<1>9. /\ next \in Ledger
      /\ Balanced(next)
      /\ next.cash_reserve = SatAdd(k.cash_reserve, amount)
      /\ next.total_collateral = k.total_collateral
      /\ next.clipped = k.clipped
      /\ next.total_debt_shares = SatSub(k.total_debt_shares, n)
  BY <1>1, <1>4, <1>5, <1>8, RepaymentKeeps DEF TokenInv
<1> HIDE DEF next, left
<1>10. mine \in [Users -> U128]
  <2>1. mine = [shares EXCEPT ![u] = left]
    BY DEF left
  <2> QED
    BY <1>1, <1>7, <2>1
<1>11. ~next.clipped => SumsTo(mine, next.total_debt_shares)
  <2>1. k.total_debt_shares \in Nat
    BY <1>1, LedgerFields
  <2> QED
    BY <1>1, <1>4, <1>9, <2>1, SharesTaken DEF TokenInv
<1>12. reserves + amount \in U64 /\ pledges \in U64 /\ next.total_collateral <= pledges
  BY <1>1, <1>9 DEF TokenInv, U64
<1>13. TokenInv(next, mine, reserves + amount, pledges)
  BY <1>6, <1>9, <1>10, <1>11, <1>12 DEF TokenInv
<1> QED
  BY <1>13 DEF next, mine, n

\* Writing debt off: all shares together carry all debt.
LEMMA WriteOffInv ==
  ASSUME NEW k, NEW shares, NEW reserves, NEW pledges, TokenInv(k, shares, reserves, pledges),
         NEW u \in Users, NEW n \in Nat, shares[u] > 0, n <= shares[u],
         CalculateDebtOk(shares[u], k)
  PROVE  LET written == DebtToWriteOff(k, n, CalculateDebt(shares[u], k))
         IN  /\ written \in Nat
             /\ TokenInv(WriteOff(k, n, written), [shares EXCEPT ![u] = SatSub(@, n)],
                         reserves, pledges)
<1> DEFINE debt    == CalculateDebt(shares[u], k)
           part    == (n * k.total_debt) \div k.total_debt_shares
           written == DebtToWriteOff(k, n, debt)
           next    == WriteOff(k, n, written)
           left    == SatSub(shares[u], n)
           mine    == [shares EXCEPT ![u] = SatSub(@, n)]
<1>1. /\ k \in Ledger /\ shares \in [Users -> U128] /\ shares[u] \in Nat
      /\ shares[u] <= MaxU128 /\ MaxU128 \in Nat
  BY WidthAssumption, SharesAreNat DEF TokenInv
<1>2. debt \in Nat /\ (shares[u] <= k.total_debt_shares => debt <= k.total_debt)
  BY <1>1, CalculateDebtRange DEF U64
<1>3. k.total_debt_shares > 0 => part \in Nat
  BY <1>1, LedgerFields, MulNat, DivFloor
<1> HIDE DEF debt, part
<1>4. written \in Nat /\ written <= debt
      /\ (k.total_debt_shares > 0 => written = Lesser(debt, part))
  <2>1. CASE k.total_debt_shares = 0
    BY <1>2, <2>1 DEF DebtToWriteOff
  <2>2. CASE k.total_debt_shares > 0
    <3>1. written = Lesser(debt, part)
      BY <2>2 DEF DebtToWriteOff, part
    <3> QED
      BY <1>2, <1>3, <2>2, <3>1, LesserRange
  <2> QED
    BY <1>1, <2>1, <2>2, LedgerFields
<1> HIDE DEF written
<1>5. ~k.clipped => /\ shares[u] <= k.total_debt_shares
                    /\ written <= k.total_debt
                    /\ k.total_debt_shares <= n => written = k.total_debt
  <2> SUFFICES ASSUME ~k.clipped
               PROVE  /\ shares[u] <= k.total_debt_shares
                      /\ written <= k.total_debt
                      /\ k.total_debt_shares <= n => written = k.total_debt
    OBVIOUS
  <2>1. shares[u] <= k.total_debt_shares
    BY <1>1, SharesAreNat, PartOfSum DEF TokenInv
  <2>2. written <= k.total_debt
    BY <1>1, <1>2, <1>4, <2>1, LedgerFields
  <2>3. ASSUME k.total_debt_shares <= n PROVE written = k.total_debt
    <3> DEFINE all  == k.total_debt_shares
               owed == k.total_debt
    <3>1. all \in Nat \ {0} /\ owed \in Nat /\ n = all /\ shares[u] = all
      BY <1>1, <2>1, <2>3, LedgerFields
    <3>2. debt = CeilDiv(all * owed, all) /\ part = (all * owed) \div all
      BY <3>1 DEF CalculateDebt, debt, part
    <3> HIDE DEF all, owed
    <3>3. all * owed \in Nat /\ owed * all = all * owed
      BY <3>1, MulNat
    <3>4. part >= owed
      BY <3>1, <3>2, <3>3, DivAtLeast
    <3>5. CeilDiv(all * owed, all) >= owed
      <4>1. owed * all <= all * owed + all - 1 /\ all * owed + all - 1 \in Nat
        BY <3>1, <3>3
      <4> QED
        BY <3>1, <4>1, DivAtLeast DEF CeilDiv
    <3>6. written >= owed
      BY <1>2, <1>3, <1>4, <3>1, <3>2, <3>4, <3>5 DEF Lesser, all
    <3> QED
      BY <1>4, <2>2, <3>1, <3>6 DEF owed
  <2> QED
    BY <2>1, <2>2, <2>3
<1>6. left \in U128
  BY <1>1, SatSubRange DEF U128
<1>7. /\ next \in Ledger
      /\ Balanced(next)
      /\ next.cash_reserve = k.cash_reserve
      /\ next.total_collateral = k.total_collateral
      /\ next.clipped = k.clipped
      /\ next.total_debt_shares = SatSub(k.total_debt_shares, n)
  BY <1>1, <1>4, <1>5, WriteOffKeeps DEF TokenInv
<1> HIDE DEF next, left
<1>8. mine \in [Users -> U128]
  <2>1. mine = [shares EXCEPT ![u] = left]
    BY DEF left
  <2> QED
    BY <1>1, <1>6, <2>1
<1>9. ~next.clipped => SumsTo(mine, next.total_debt_shares)
  <2>1. k.total_debt_shares \in Nat
    BY <1>1, LedgerFields
  <2> QED
    BY <1>1, <1>7, <2>1, SharesTaken DEF TokenInv
<1>10. TokenInv(next, mine, reserves, pledges)
  BY <1>7, <1>8, <1>9 DEF TokenInv
<1> QED
  BY <1>4, <1>10 DEF next, mine, written, debt

\* A flash loan's fee.
LEMMA EarnFeeInv ==
  ASSUME NEW k, NEW shares, NEW reserves, NEW pledges, TokenInv(k, shares, reserves, pledges),
         NEW fee \in Nat, reserves + fee <= MaxU64
  PROVE  TokenInv(EarnFee(k, fee), shares, reserves + fee, pledges)
<1> DEFINE reserve == SatAdd(k.reserve, fee)
           cash    == SatAdd(k.cash_reserve, fee)
           flag    == k.clipped \/ k.reserve + fee > MaxU64
           next    == EarnFee(k, fee)
<1>1. k \in Ledger /\ reserves \in Nat /\ k.cash_reserve <= reserves
  BY WidthAssumption DEF TokenInv, U64
<1>2. next = [k EXCEPT !.reserve = reserve, !.cash_reserve = cash, !.clipped = flag]
  BY DEF EarnFee
<1>3. k.cash_reserve + fee <= MaxU64 /\ k.cash_reserve + fee <= reserves + fee
  BY <1>1, LedgerFields
<1>4. cash = k.cash_reserve + fee /\ cash \in U64
  BY <1>1, <1>3, LedgerFields, SatAddRange
<1>5. /\ reserve \in U64
      /\ k.reserve + fee <= MaxU64 => reserve = k.reserve + fee
  BY <1>1, LedgerFields, SatAddRange
<1>6. flag \in BOOLEAN /\ (~flag => ~k.clipped /\ reserve = k.reserve + fee)
  BY <1>1, <1>5, LedgerFields
<1> HIDE DEF reserve, cash, flag, next
<1>7. /\ next \in Ledger
      /\ next.reserve = reserve /\ next.cash_reserve = cash /\ next.total_debt = k.total_debt
      /\ next.total_debt_shares = k.total_debt_shares /\ next.clipped = flag
      /\ next.total_collateral = k.total_collateral
  BY <1>1, <1>2, <1>4, <1>5, <1>6 DEF Ledger
<1>8. Balanced(next)
  <2> SUFFICES ASSUME ~next.clipped
               PROVE  next.reserve = next.cash_reserve + next.total_debt
    BY DEF Balanced
  <2>1. k.reserve = k.cash_reserve + k.total_debt
    BY <1>6, <1>7 DEF TokenInv, Balanced
  <2> QED
    BY <1>1, <1>4, <1>6, <1>7, <2>1, LedgerFields
<1>9. reserves + fee \in U64 /\ next.cash_reserve <= reserves + fee
  BY <1>1, <1>3, <1>4, <1>7 DEF U64
<1> QED
  BY <1>6, <1>7, <1>8, <1>9 DEF TokenInv, next

\* Tokens that reach the vault unaccounted, or leave it without touching
\* r_cash, as protocol fees do.
LEMMA VaultChangeInv ==
  ASSUME NEW k, NEW shares, NEW reserves, NEW pledges, TokenInv(k, shares, reserves, pledges),
         NEW held \in U64, k.cash_reserve <= held
  PROVE  TokenInv(k, shares, held, pledges)
BY DEF TokenInv

----------------------------------------------------------------------------
(* The pair. *)

Shares(pos, t) == [u \in Users |-> pos[u][t].debt_shares]

\* l, pos, reserves and pledges as the ledgers, the positions and the vaults
SoundPair(l, pos, reserves, pledges) ==
  /\ l \in [Token -> Ledger]
  /\ pos \in [Users -> [Token -> Holding]]
  /\ reserves \in [Token -> U64]
  /\ pledges \in [Token -> U64]
  /\ \A t \in Token : TokenInv(l[t], Shares(pos, t), reserves[t], pledges[t])

Sound(l) == SoundPair(l, position, reserve_vault, collateral_vault)

SoundNext == SoundPair(ledger', position', reserve_vault', collateral_vault')

Supplies ==
  /\ total_supply \in U64
  /\ lp_supply \in U64
  /\ total_supply = MIN_LIQUIDITY + lp_supply

Modes == reduce_only \in BOOLEAN /\ global_reduce_only \in BOOLEAN

Clock == slot \in 0 .. MaxSlot /\ last_update \in 0 .. slot

PairInv == Sound(ledger) /\ Supplies /\ Modes /\ Clock

----------------------------------------------------------------------------
(* Tokens, positions and amounts. *)

\* the two tokens and their opposites
LEMMA Tokens ==
  /\ 0 \in Token /\ 1 \in Token
  /\ \A t \in Token : /\ Other(t) \in Token /\ Other(t) # t /\ Other(Other(t)) = t
                      /\ \A s \in Token : s = t \/ s = Other(t)
BY DEF Token, Other

\* reading a user's position
LEMMA SharesOf ==
  ASSUME NEW pos \in [Users -> [Token -> Holding]], NEW u \in Users, NEW t \in Token
  PROVE  /\ Shares(pos, t)[u] = pos[u][t].debt_shares
         /\ pos[u][t].debt_shares \in U128
         /\ pos[u][t].collateral \in U64
         /\ pos[u][t].liquidation_cf \in 0 .. BPS_DENOMINATOR
         /\ pos[u] \in [Token -> Holding]
BY DEF Shares, Holding

\* a share in basis points, rounded up
LEMMA BpsCeilNat ==
  ASSUME NEW amount \in Nat, NEW bps \in Nat
  PROVE  BpsCeil(amount, bps) \in Nat
<1>1. amount * bps \in Nat
  BY MulNat
<1> QED
  BY <1>1, BpsFacts, CeilDivNat DEF BpsCeil

\* a part in basis points, rounded down, is a natural
LEMMA BpsFloorNat ==
  ASSUME NEW amount \in Nat, NEW bps \in Nat
  PROVE  BpsFloor(amount, bps) \in Nat
<1>1. amount * bps \in Nat
  BY MulNat
<1> QED
  BY <1>1, BpsFacts, DivFloor DEF BpsFloor

\* a u64 is a natural up to MaxU64
LEMMA NumbersU64 ==
  ASSUME NEW a \in U64
  PROVE  a \in Nat /\ a <= MaxU64 /\ MaxU64 \in Nat
BY WidthAssumption DEF U64

\* what a sound pair says of one token
LEMMA SoundParts ==
  ASSUME NEW l, Sound(l), NEW t \in Token
  PROVE  /\ l \in [Token -> Ledger] /\ l[t] \in Ledger
         /\ l[t].reserve \in Nat /\ l[t].cash_reserve \in Nat
         /\ l[t].total_collateral \in Nat
         /\ reserve_vault[t] \in Nat /\ collateral_vault[t] \in Nat
         /\ l[t].cash_reserve <= reserve_vault[t]
         /\ l[t].total_collateral <= collateral_vault[t]
         /\ TokenInv(l[t], Shares(position, t), reserve_vault[t], collateral_vault[t])
<1>1. /\ l \in [Token -> Ledger] /\ l[t] \in Ledger
      /\ reserve_vault[t] \in U64 /\ collateral_vault[t] \in U64
      /\ TokenInv(l[t], Shares(position, t), reserve_vault[t], collateral_vault[t])
  BY DEF Sound, SoundPair
<1> QED
  BY <1>1, LedgerFields, NumbersU64 DEF TokenInv

----------------------------------------------------------------------------
(* Pair::update. *)

\* the time an update is about
LEMMA ElapsedNat == ASSUME Clock PROVE ElapsedMs \in Nat
<1>1. slot - last_update \in Nat /\ TARGET_MS_PER_SLOT \in Nat
  BY MaxSlotAssumption, ScaleAssumption DEF Clock
<1> DEFINE d == slot - last_update
<1>2. d * TARGET_MS_PER_SLOT \in Nat
  BY <1>1, MulNat
<1> QED
  BY <1>2 DEF ElapsedMs, SlotsToMs

\* update keeps a pair sound
LEMMA UpdateSound ==
  ASSUME Sound(ledger), Clock, NEW l \in UpdatedPairs
  PROVE  Sound(l)
<1>1. PICK ig \in Accruals : UpdateOk(ig) /\ l = Update(ig)
  BY DEF UpdatedPairs
<1>2. ElapsedMs \in Nat
  BY ElapsedNat
<1>3. \A t \in Token : ig[t] \in Nat
  BY <1>1, IntegralsAssumption DEF Accruals
<1>4. \A t \in Token : /\ l[t] = Updated(t, ig)
                       /\ TokenInv(l[t], Shares(position, t), reserve_vault[t],
                                   collateral_vault[t])
  <2> SUFFICES ASSUME NEW t \in Token
               PROVE  /\ l[t] = Updated(t, ig)
                      /\ TokenInv(l[t], Shares(position, t), reserve_vault[t],
                                  collateral_vault[t])
    OBVIOUS
  <2>1. l[t] = Updated(t, ig)
    BY <1>1, Tokens DEF Update, Sound, SoundPair, Token
  <2>2. ledger[Other(t)].reserve \in U64
    BY Tokens DEF Sound, SoundPair, Ledger
  <2>3. TokenInv(ledger[t], Shares(position, t), reserve_vault[t], collateral_vault[t])
    BY DEF Sound, SoundPair
  <2>4. UpdateTokenOk(ledger[t], ElapsedMs, ig[t])
    BY <1>1 DEF UpdateOk
  <2>5. TokenInv(UpdateToken(ledger[t], ledger[Other(t)].reserve, ElapsedMs, ig[t]),
                 Shares(position, t), reserve_vault[t], collateral_vault[t])
    BY <1>2, <1>3, <2>2, <2>3, <2>4, UpdateTokenInv
  <2> QED
    BY <2>1, <2>5 DEF Updated
<1>5. l \in [Token -> Ledger]
  <2>1. \A t \in Token : l[t] \in Ledger
    BY <1>4 DEF TokenInv
  <2>2. l = [t \in Token |-> l[t]]
    BY <1>1 DEF Update, Sound, SoundPair
  <2> QED
    BY <2>1, <2>2
<1> QED
  BY <1>4, <1>5 DEF Sound, SoundPair

----------------------------------------------------------------------------
(* The pool's instructions. *)

\* swap: tokens come in, cash goes out, the protocol's fee stays in the vault
LEMMA SwapSound ==
  ASSUME NEW l, Sound(l), NEW t \in Token, NEW amount \in U64, Swap(t, amount, l)
  PROVE  SoundNext
<1> DEFINE o            == Other(t)
           swap_fee     == BpsCeil(amount, SwapFeeBps)
           futarchy_fee == BpsCeil(swap_fee, SwapShareBps)
           rest         == amount - swap_fee
           out          == CalculateAmountOut(l[t].reserve, l[o].reserve, rest)
           in_lp        == amount - futarchy_fee
<1>1. o \in Token /\ o # t /\ \A s \in Token : s = t \/ s = o
  BY Tokens
<1>2. amount \in Nat /\ SwapFeeBps \in Nat /\ SwapShareBps \in Nat
  BY NumbersU64, FeesAssumption
<1>3. swap_fee \in Nat
  BY <1>2, BpsCeilNat
<1>4. futarchy_fee \in Nat
  BY <1>2, <1>3, BpsCeilNat
<1>5. /\ swap_fee <= amount /\ futarchy_fee <= amount
      /\ AmountOutOk(l[t].reserve, rest)
      /\ l[t].reserve + in_lp <= MaxU64
      /\ out <= l[o].reserve /\ out <= l[o].cash_reserve
      /\ reserve_vault[t] + amount <= MaxU64
      /\ ledger' = [l EXCEPT ![t] = Credit(@, in_lp), ![o] = Debit(@, out)]
      /\ reserve_vault' = [reserve_vault EXCEPT ![t] = @ + amount, ![o] = @ - out]
      /\ position' = position /\ collateral_vault' = collateral_vault
  BY DEF Swap, CommitPair
<1> HIDE DEF o, swap_fee, futarchy_fee
<1>6. rest \in Nat /\ in_lp \in Nat /\ in_lp <= amount
  BY <1>2, <1>3, <1>4, <1>5
<1> HIDE DEF rest, in_lp
<1>7. out \in Nat
  BY <1>1, <1>5, <1>6, AmountOutNat, SoundParts
<1> HIDE DEF out
<1>8. TokenInv(Credit(l[t], in_lp), Shares(position, t), reserve_vault[t] + amount,
               collateral_vault[t])
  BY <1>2, <1>5, <1>6, CreditInv, SoundParts
<1>9. TokenInv(Debit(l[o], out), Shares(position, o), reserve_vault[o] - out,
               collateral_vault[o])
  BY <1>1, <1>5, <1>7, DebitInv, SoundParts
<1>10. /\ l \in [Token -> Ledger]
       /\ reserve_vault \in [Token -> U64] /\ collateral_vault \in [Token -> U64]
       /\ position \in [Users -> [Token -> Holding]]
  BY DEF Sound, SoundPair
<1>11. /\ ledger'[t] = Credit(l[t], in_lp) /\ ledger'[o] = Debit(l[o], out)
       /\ reserve_vault'[t] = reserve_vault[t] + amount
       /\ reserve_vault'[o] = reserve_vault[o] - out
  BY <1>1, <1>5, <1>10
<1>12. \A s \in Token : TokenInv(ledger'[s], Shares(position', s), reserve_vault'[s],
                                 collateral_vault'[s])
  BY <1>1, <1>5, <1>8, <1>9, <1>11
<1>13. ledger' \in [Token -> Ledger] /\ reserve_vault' \in [Token -> U64]
  BY <1>1, <1>5, <1>8, <1>9, <1>10 DEF TokenInv
<1> QED
  BY <1>5, <1>10, <1>12, <1>13 DEF SoundNext, SoundPair

\* the ledgers and the reserve vault changed, token by token
LEMMA PoolStep ==
  ASSUME NEW l, Sound(l),
         NEW next, NEW held, next = [t \in Token |-> next[t]], held = [t \in Token |-> held[t]],
         ledger' = next, reserve_vault' = held,
         position' = position, collateral_vault' = collateral_vault,
         \A t \in Token : TokenInv(next[t], Shares(position, t), held[t], collateral_vault[t])
  PROVE  SoundNext
<1>1. next \in [Token -> Ledger] /\ held \in [Token -> U64]
  BY DEF TokenInv
<1> QED
  BY <1>1 DEF Sound, SoundNext, SoundPair

\* add_liquidity raises reserves, cash and vaults alike
LEMMA AddLiquiditySound ==
  ASSUME NEW l, Sound(l), Supplies, NEW a \in [Token -> U64], AddLiquidity(a, l)
  PROVE  SoundNext /\ Supplies'
<1> DEFINE liquidity == LiquidityFor(l, a)
           used      == [t \in Token |-> CeilDiv(liquidity * l[t].reserve, total_supply)]
           next      == [t \in Token |-> Credit(l[t], used[t])]
           held      == [t \in Token |-> reserve_vault[t] + used[t]]
<1>1. total_supply \in Nat \ {0} /\ lp_supply \in Nat /\ MIN_LIQUIDITY \in Nat
  BY NumbersU64, MinLiquidityAssumption DEF Supplies
<1>2. /\ \A t \in Token : /\ l[t].reserve > 0
                          /\ l[t].reserve + used[t] <= MaxU64
                          /\ reserve_vault[t] + used[t] <= MaxU64
      /\ total_supply + liquidity <= MaxU64
      /\ ledger' = next /\ reserve_vault' = held
      /\ position' = position /\ collateral_vault' = collateral_vault
      /\ total_supply' = total_supply + liquidity
      /\ lp_supply' = lp_supply + liquidity
  BY DEF AddLiquidity, CommitPair
<1>3. liquidity \in Nat
  <2>1. \A t \in Token : (a[t] * total_supply) \div l[t].reserve \in Nat
    BY <1>1, <1>2, NumbersU64, MulNat, DivFloor, SoundParts
  <2> QED
    BY <2>1, Tokens, LesserRange DEF LiquidityFor
<1> HIDE DEF liquidity
<1>4. \A t \in Token : used[t] \in Nat
  BY <1>1, <1>3, MulNat, CeilDivNat, SoundParts
<1>5. \A t \in Token : TokenInv(next[t], Shares(position, t), held[t], collateral_vault[t])
  <2> HIDE DEF used
  <2> QED
    BY <1>2, <1>4, CreditInv, SoundParts
<1>6. SoundNext
  BY <1>2, <1>5, PoolStep
<1>7. Supplies'
  <2>1. total_supply = MIN_LIQUIDITY + lp_supply /\ MaxU64 \in Nat
    BY WidthAssumption DEF Supplies
  <2> HIDE DEF used, next, held
  <2>2. total_supply + liquidity \in 0 .. MaxU64 /\ lp_supply + liquidity \in 0 .. MaxU64
        /\ total_supply + liquidity = MIN_LIQUIDITY + (lp_supply + liquidity)
    BY <1>1, <1>2, <1>3, <2>1
  <2> QED
    BY <1>2, <2>2 DEF Supplies, U64
<1> QED
  BY <1>6, <1>7

\* the withdrawal fee does not exceed what it is taken from
LEMMA WithdrawAmountNat ==
  ASSUME NEW reserve \in Nat, NEW liquidity \in Nat, total_supply \in Nat \ {0}
  PROVE  WithdrawAmount(reserve, liquidity) \in Nat
<1> DEFINE gross == (liquidity * reserve) \div total_supply
           fee   == BpsCeil(gross, LIQUIDITY_WITHDRAWAL_FEE_BPS)
<1>1. gross \in Nat
  BY MulNat, DivFloor
<1> HIDE DEF gross
<1>2. gross * LIQUIDITY_WITHDRAWAL_FEE_BPS \in Nat
      /\ gross * LIQUIDITY_WITHDRAWAL_FEE_BPS <= gross * BPS_DENOMINATOR
  BY <1>1 DEF LIQUIDITY_WITHDRAWAL_FEE_BPS, BPS_DENOMINATOR
<1>3. fee \in Nat /\ fee <= gross
  BY <1>1, <1>2, BpsFacts, CeilDivNat, CeilDivAtMost DEF BpsCeil
<1> QED
  BY <1>1, <1>3 DEF WithdrawAmount, gross

\* remove_liquidity lowers reserves, cash and vaults alike
LEMMA RemoveLiquiditySound ==
  ASSUME NEW l, Sound(l), Supplies, NEW liquidity \in U64, RemoveLiquidity(liquidity, l)
  PROVE  SoundNext /\ Supplies'
<1> DEFINE out  == [t \in Token |-> WithdrawAmount(l[t].reserve, liquidity)]
           next == [t \in Token |-> Debit(l[t], out[t])]
           held == [t \in Token |-> reserve_vault[t] - out[t]]
<1>1. /\ total_supply \in Nat \ {0} /\ total_supply <= MaxU64 /\ MaxU64 \in Nat
      /\ lp_supply \in Nat /\ MIN_LIQUIDITY \in Nat /\ liquidity \in Nat
  BY NumbersU64, MinLiquidityAssumption DEF Supplies
<1>2. /\ liquidity <= lp_supply
      /\ \A t \in Token : out[t] <= l[t].cash_reserve /\ out[t] <= l[t].reserve
      /\ ledger' = next /\ reserve_vault' = held
      /\ position' = position /\ collateral_vault' = collateral_vault
      /\ total_supply' = total_supply - liquidity
      /\ lp_supply' = lp_supply - liquidity
  BY DEF RemoveLiquidity, CommitPair
<1>3. \A t \in Token : out[t] \in Nat
  BY <1>1, WithdrawAmountNat, SoundParts
<1>4. \A t \in Token : TokenInv(next[t], Shares(position, t), held[t], collateral_vault[t])
  <2> HIDE DEF out
  <2> QED
    BY <1>2, <1>3, DebitInv, SoundParts
<1>5. SoundNext
  BY <1>2, <1>4, PoolStep
<1>6. Supplies'
  BY <1>1, <1>2 DEF Supplies, U64
<1> QED
  BY <1>5, <1>6

\* flashloan leaves its fee in the reserves and the vaults
LEMMA FlashloanSound ==
  ASSUME NEW l, Sound(l), NEW a \in [Token -> U64], Flashloan(a, l)
  PROVE  SoundNext
<1> DEFINE fee  == [t \in Token |-> FlashloanFee(a[t])]
           next == [t \in Token |-> EarnFee(l[t], fee[t])]
           held == [t \in Token |-> reserve_vault[t] + fee[t]]
<1>1. /\ \A t \in Token : reserve_vault[t] + fee[t] <= MaxU64
      /\ ledger' = next /\ reserve_vault' = held
      /\ position' = position /\ collateral_vault' = collateral_vault
  BY DEF Flashloan, CommitPair
<1>2. \A t \in Token : fee[t] \in Nat
  BY NumbersU64, BpsCeilNat DEF FlashloanFee, FLASHLOAN_FEE_BPS
<1>3. \A t \in Token : TokenInv(next[t], Shares(position, t), held[t], collateral_vault[t])
  <2> HIDE DEF fee
  <2> QED
    BY <1>1, <1>2, EarnFeeInv, SoundParts
<1> QED
  BY <1>1, <1>3, PoolStep

\* the claim distributes all that is claimable, and no more
LEMMA DistributesAll ==
  ASSUME NEW claimable \in Nat
  PROVE  Distributed(claimable) = claimable
<1> DEFINE buybacks == BpsFloor(claimable, BuybacksBps)
           team     == BpsFloor(claimable, TeamBps)
           first    == claimable * BuybacksBps
           second   == claimable * TeamBps
           all      == BPS_DENOMINATOR
<1>1. /\ BuybacksBps \in Nat /\ TeamBps \in Nat /\ all \in Nat \ {0}
      /\ BuybacksBps + TeamBps <= all
  BY FeesAssumption, BpsFacts
<1>2. first \in Nat /\ second \in Nat
  BY <1>1, MulNat
<1>3. buybacks = first \div all /\ team = second \div all
  BY DEF BpsFloor
<1> HIDE DEF all, buybacks, team
<1>4. first + second <= claimable * all
  <2>1. (BuybacksBps + TeamBps) * claimable <= all * claimable
    BY <1>1, MulMonotone
  <2> QED
    BY <1>1, <1>2, <2>1
<1> HIDE DEF first, second
<1>5. /\ buybacks \in Nat /\ all * buybacks <= first
      /\ team \in Nat /\ all * team <= second
  BY <1>1, <1>2, <1>3, DivFloor
<1>6. buybacks + team <= claimable
  <2> DEFINE paid == buybacks + team
  <2>1. all * paid <= all * claimable
    BY <1>1, <1>2, <1>4, <1>5
  <2>2. paid \in Nat
    BY <1>5
  <2> HIDE DEF paid
  <2>3. ASSUME paid > claimable PROVE FALSE
    <3>1. (claimable + 1) * all <= paid * all
      BY <1>1, <2>2, <2>3, MulMonotone
    <3>2. claimable * all + all <= paid * all
      BY <1>1, <3>1
    <3> QED
      BY <1>1, <2>1, <2>2, <3>2
  <2> QED
    BY <2>2, <2>3 DEF paid
<1>7. SatSub(claimable, buybacks) = claimable - buybacks
      /\ SatSub(claimable - buybacks, team) = claimable - buybacks - team
  BY <1>5, <1>6 DEF SatSub
<1> QED
  BY <1>5, <1>6, <1>7 DEF Distributed, buybacks, team

\* claim_protocol_fees takes from a vault only what is beyond the cash
LEMMA ClaimSound ==
  ASSUME NEW l, Sound(l), ClaimProtocolFees(l)
  PROVE  SoundNext
<1> DEFINE held == [t \in Token |->
                      reserve_vault[t] - Distributed(Claimable(reserve_vault[t], l[t]))]
<1>1. /\ ledger' = l /\ reserve_vault' = held
      /\ position' = position /\ collateral_vault' = collateral_vault
  BY DEF ClaimProtocolFees, CommitPair
<1>2. \A t \in Token : held[t] \in U64 /\ l[t].cash_reserve <= held[t]
  <2> SUFFICES ASSUME NEW t \in Token
               PROVE  held[t] \in U64 /\ l[t].cash_reserve <= held[t]
    OBVIOUS
  <2> DEFINE claimable == Claimable(reserve_vault[t], l[t])
  <2>1. reserve_vault[t] \in Nat /\ reserve_vault[t] <= MaxU64 /\ MaxU64 \in Nat
        /\ l[t].cash_reserve \in Nat /\ l[t].cash_reserve <= reserve_vault[t]
    BY SoundParts, NumbersU64 DEF Sound, SoundPair
  <2>2. claimable = reserve_vault[t] - l[t].cash_reserve
    BY <2>1, SatSubRange DEF Claimable
  <2> HIDE DEF claimable
  <2>3. claimable \in Nat
    BY <2>1, <2>2
  <2>4. Distributed(claimable) = claimable
    BY <2>3, DistributesAll
  <2>5. held[t] = l[t].cash_reserve
    BY <2>1, <2>2, <2>4 DEF claimable
  <2> QED
    BY <2>1, <2>5 DEF U64
<1>3. \A t \in Token : TokenInv(l[t], Shares(position, t), held[t], collateral_vault[t])
  <2> HIDE DEF held
  <2> QED
    BY <1>2, SoundParts, VaultChangeInv
<1>4. l = [t \in Token |-> l[t]]
  BY DEF Sound, SoundPair
<1> QED
  BY <1>1, <1>3, <1>4, PoolStep

----------------------------------------------------------------------------
(* The lending instructions.  Each replaces one user's position by `row`. *)

\* what may be borrowed against collateral, and the factor locked with it
LEMMA PostCf ==
  ASSUME NEW l \in [Token -> Ledger], NEW c \in Token, NEW amount \in U64
  PROVE  /\ MaxDebtForCollateral(l, c, amount).limit \in U64
         /\ MaxDebtForCollateral(l, c, amount).cf \in 0 .. BPS_DENOMINATOR
<1>1. /\ l[c].reserve \in U64 /\ l[Other(c)].reserve \in U64
      /\ l[Other(c)].total_debt \in U64
      /\ l[c].symmetric \in U64 /\ l[c].directional \in U64
  BY Tokens DEF Ledger
<1>2. EmaPrice(l[c]) \in U64 /\ DirectionalEmaPrice(l[c]) \in U64
  BY <1>1, WidthAssumption DEF EmaPrice, DirectionalEmaPrice, U64
<1> QED
  BY <1>1, <1>2, MaxDebtRange DEF MaxDebtForCollateral

\* one user's holding of two tokens changes: the debt token's shares, the
\* collateral token's collateral
LEMMA LendingStep ==
  ASSUME NEW l, Sound(l), NEW u \in Users, NEW d \in Token, NEW c \in Token, c = Other(d),
         NEW row \in [Token -> Holding],
         NEW next, NEW held, NEW pledged,
         next = [t \in Token |-> next[t]], held = [t \in Token |-> held[t]],
         pledged = [t \in Token |-> pledged[t]],
         ledger' = next, reserve_vault' = held, collateral_vault' = pledged,
         position' = [position EXCEPT ![u] = row],
         row[c].debt_shares = position[u][c].debt_shares,
         TokenInv(next[d], [Shares(position, d) EXCEPT ![u] = row[d].debt_shares],
                  held[d], pledged[d]),
         TokenInv(next[c], Shares(position, c), held[c], pledged[c])
  PROVE  SoundNext
<1> DEFINE moved == [position EXCEPT ![u] = row]
<1>1. position \in [Users -> [Token -> Holding]]
  BY DEF Sound, SoundPair
<1>2. moved \in [Users -> [Token -> Holding]]
  BY <1>1
<1>3. Shares(moved, d) = [Shares(position, d) EXCEPT ![u] = row[d].debt_shares]
  BY <1>1 DEF Shares
<1>4. Shares(moved, c) = Shares(position, c)
  BY <1>1 DEF Shares
<1> HIDE DEF moved
<1>5. \A t \in Token : TokenInv(next[t], Shares(moved, t), held[t], pledged[t])
  <2>1. TokenInv(next[d], Shares(moved, d), held[d], pledged[d])
    BY <1>3
  <2>2. TokenInv(next[c], Shares(moved, c), held[c], pledged[c])
    BY <1>4
  <2>3. \A t \in Token : t = d \/ t = c
    BY Tokens
  <2> QED
    BY <2>1, <2>2, <2>3, Zenon
<1>6. next \in [Token -> Ledger] /\ held \in [Token -> U64] /\ pledged \in [Token -> U64]
  BY <1>5 DEF TokenInv
<1>7. SoundPair(next, moved, held, pledged)
  BY <1>2, <1>5, <1>6 DEF SoundPair
<1>8. position' = moved
  BY DEF moved
<1> QED
  BY <1>7, <1>8 DEF SoundNext

\* add_collateral: position, total and vault grow alike
LEMMA AddCollateralSound ==
  ASSUME NEW l, Sound(l), NEW u \in Users, NEW c \in Token, NEW amount \in U64,
         AddCollateral(u, c, amount, l)
  PROVE  SoundNext
<1> DEFINE d       == Other(c)
           total   == l[c].total_collateral + amount
           mine    == position[u][c].collateral + amount
           balance == collateral_vault[c] + amount
           row     == [position[u] EXCEPT ![c].collateral = mine]
           next    == [l EXCEPT ![c].total_collateral = total]
           pledged == [collateral_vault EXCEPT ![c] = balance]
<1>1. d \in Token /\ c = Other(d) /\ d # c
  BY Tokens
<1>2. /\ total <= MaxU64 /\ mine <= MaxU64 /\ balance <= MaxU64
      /\ ledger' = next /\ collateral_vault' = pledged
      /\ position' = [position EXCEPT ![u] = row]
      /\ reserve_vault' = reserve_vault
  BY DEF AddCollateral, CommitPair
<1>3. /\ l \in [Token -> Ledger]
      /\ reserve_vault \in [Token -> U64] /\ collateral_vault \in [Token -> U64]
      /\ position \in [Users -> [Token -> Holding]]
  BY DEF Sound, SoundPair
<1>4. amount \in Nat /\ position[u][c].collateral \in Nat
  BY <1>3, NumbersU64, SharesOf
<1>5. total \in U64 /\ mine \in U64 /\ balance \in U64 /\ total <= balance
  BY <1>2, <1>4, SoundParts, WidthAssumption DEF U64
<1> HIDE DEF d, total, mine, balance
<1>6. row \in [Token -> Holding] /\ \A t \in Token : row[t].debt_shares = position[u][t].debt_shares
  BY <1>3, <1>5 DEF Holding
<1>7. TokenInv([l[c] EXCEPT !.total_collateral = total], Shares(position, c),
               reserve_vault[c], balance)
  BY <1>5, PledgeInv, SoundParts
<1>8. /\ next = [t \in Token |-> next[t]] /\ pledged = [t \in Token |-> pledged[t]]
      /\ reserve_vault = [t \in Token |-> reserve_vault[t]]
      /\ next[c] = [l[c] EXCEPT !.total_collateral = total] /\ next[d] = l[d]
      /\ pledged[c] = balance /\ pledged[d] = collateral_vault[d]
  BY <1>1, <1>3
<1>9. [Shares(position, d) EXCEPT ![u] = row[d].debt_shares] = Shares(position, d)
  BY <1>1, <1>6 DEF Shares
<1>10. TokenInv(next[d], [Shares(position, d) EXCEPT ![u] = row[d].debt_shares],
                reserve_vault[d], pledged[d])
  BY <1>1, <1>8, <1>9, SoundParts
<1> HIDE DEF next, pledged
<1>11. TokenInv(next[c], Shares(position, c), reserve_vault[c], pledged[c])
  BY <1>7, <1>8
<1> HIDE DEF row
<1> QED
  BY <1>1, <1>2, <1>6, <1>8, <1>10, <1>11, LendingStep

\* remove_collateral: position, total and vault shrink alike
LEMMA RemoveCollateralSound ==
  ASSUME NEW l, Sound(l), NEW u \in Users, NEW c \in Token, NEW amount \in U64,
         RemoveCollateral(u, c, amount, l)
  PROVE  SoundNext
<1> DEFINE d        == Other(c)
           debt     == CalculateDebt(position[u][d].debt_shares, l[d])
           withdraw == IF amount = MaxU64 /\ debt = 0 THEN position[u][c].collateral ELSE amount
           post     == MaxDebtForCollateral(l, c, position[u][c].collateral - withdraw)
           total    == l[c].total_collateral - withdraw
           mine     == position[u][c].collateral - withdraw
           balance  == collateral_vault[c] - withdraw
           row      == [position[u] EXCEPT ![c].collateral = mine, ![c].liquidation_cf = post.cf]
           next     == [l EXCEPT ![c].total_collateral = total]
           pledged  == [collateral_vault EXCEPT ![c] = balance]
<1>1. d \in Token /\ c = Other(d) /\ d # c
  BY Tokens
<1>2. /\ withdraw <= position[u][c].collateral
      /\ withdraw <= collateral_vault[c] /\ withdraw <= l[c].total_collateral
      /\ ledger' = next /\ collateral_vault' = pledged
      /\ position' = [position EXCEPT ![u] = row]
      /\ reserve_vault' = reserve_vault
  BY DEF RemoveCollateral, RemoveCollateralOk, CommitPair
<1>3. /\ l \in [Token -> Ledger]
      /\ reserve_vault \in [Token -> U64] /\ collateral_vault \in [Token -> U64]
      /\ position \in [Users -> [Token -> Holding]]
  BY DEF Sound, SoundPair
<1>4. /\ amount \in Nat /\ position[u][c].collateral \in Nat
      /\ position[u][c].collateral <= MaxU64 /\ MaxU64 \in Nat
      /\ collateral_vault[c] <= MaxU64 /\ l[c].total_collateral <= MaxU64
  BY <1>3, NumbersU64, SharesOf, SoundParts, LedgerFields
<1>5. withdraw \in Nat
  BY <1>4
<1> HIDE DEF withdraw
<1>6. total \in U64 /\ mine \in U64 /\ balance \in U64 /\ total <= balance
  BY <1>2, <1>4, <1>5, SoundParts DEF U64
<1>7. post.cf \in 0 .. BPS_DENOMINATOR
  BY <1>3, <1>6, PostCf
<1> HIDE DEF d, total, mine, balance, post
<1>8. row \in [Token -> Holding] /\ \A t \in Token : row[t].debt_shares = position[u][t].debt_shares
  BY <1>3, <1>6, <1>7 DEF Holding
<1>9. TokenInv([l[c] EXCEPT !.total_collateral = total], Shares(position, c),
               reserve_vault[c], balance)
  BY <1>6, PledgeInv, SoundParts
<1>10. /\ next = [t \in Token |-> next[t]] /\ pledged = [t \in Token |-> pledged[t]]
       /\ reserve_vault = [t \in Token |-> reserve_vault[t]]
       /\ next[c] = [l[c] EXCEPT !.total_collateral = total] /\ next[d] = l[d]
       /\ pledged[c] = balance /\ pledged[d] = collateral_vault[d]
  BY <1>1, <1>3
<1>11. [Shares(position, d) EXCEPT ![u] = row[d].debt_shares] = Shares(position, d)
  BY <1>1, <1>8 DEF Shares
<1>12. TokenInv(next[d], [Shares(position, d) EXCEPT ![u] = row[d].debt_shares],
                reserve_vault[d], pledged[d])
  BY <1>1, <1>10, <1>11, SoundParts
<1> HIDE DEF next, pledged
<1>13. TokenInv(next[c], Shares(position, c), reserve_vault[c], pledged[c])
  BY <1>9, <1>10
<1> HIDE DEF row
<1> QED
  BY <1>1, <1>2, <1>8, <1>10, <1>12, <1>13, LendingStep

\* borrow: cash becomes debt, shares are created for the borrower alone
LEMMA BorrowSound ==
  ASSUME NEW l, Sound(l), NEW u \in Users, NEW d \in Token, NEW amount \in U64,
         Borrow(u, d, amount, l)
  PROVE  SoundNext
<1> DEFINE c      == Other(d)
           held   == position[u][d].debt_shares
           debt   == CalculateDebt(held, l[d])
           max    == MaxDebtForCollateral(l, c, position[u][c].collateral)
           borrow == IF amount = MaxU64 THEN max.limit - debt ELSE amount
           shares == BorrowShares(l[d], borrow)
           mine   == SharesAfterBorrow(l[d], held, shares)
           after  == IncreaseDebt(l[d], shares, borrow)
           left   == reserve_vault[d] - borrow
           row    == [position[u] EXCEPT ![d].debt_shares = mine, ![c].liquidation_cf = max.cf]
           next   == [l EXCEPT ![d] = after]
           vault  == [reserve_vault EXCEPT ![d] = left]
<1>1. c \in Token /\ c # d
  BY Tokens
<1>2. /\ CalculateDebtOk(held, l[d])
      /\ borrow > 0 /\ borrow <= l[d].cash_reserve
      /\ BorrowSharesOk(l[d], borrow)
      /\ ledger' = next /\ reserve_vault' = vault
      /\ position' = [position EXCEPT ![u] = row]
      /\ collateral_vault' = collateral_vault
  BY <1>1 DEF Borrow, CommitPair
<1>3. /\ l \in [Token -> Ledger]
      /\ reserve_vault \in [Token -> U64] /\ collateral_vault \in [Token -> U64]
      /\ position \in [Users -> [Token -> Holding]]
  BY DEF Sound, SoundPair
<1>4. max.limit \in U64 /\ max.cf \in 0 .. BPS_DENOMINATOR
  BY <1>1, <1>3, SharesOf, PostCf
<1>5. held \in Nat /\ held \in U128 /\ debt \in U64
  <2>1. held \in U128
    BY <1>3, SharesOf
  <2> HIDE DEF held
  <2>2. held \in Nat
    BY <2>1, WidthAssumption DEF U128
  <2> QED
    BY <1>2, <1>3, <2>1, <2>2, CalculateDebtRange
<1> HIDE DEF c, debt, max
<1>6. borrow \in Nat
  BY <1>2, <1>4, <1>5, NumbersU64
<1> HIDE DEF borrow
<1>7. mine \in U128
  BY <1>2, <1>3, <1>5, <1>6, BorrowSharesRange
<1>8. TokenInv(after, [Shares(position, d) EXCEPT ![u] = mine], left, collateral_vault[d])
  <2>1. Shares(position, d)[u] = held
    BY <1>3, SharesOf
  <2> HIDE DEF held
  <2> QED
    BY <1>2, <1>6, <2>1, BorrowInv, SoundParts
<1> HIDE DEF mine, after, left
<1>9. /\ row \in [Token -> Holding] /\ row[d].debt_shares = mine
      /\ row[c].debt_shares = position[u][c].debt_shares
  <2> DEFINE cf    == max.cf
             first == [position[u] EXCEPT ![d].debt_shares = mine]
  <2>1. /\ first \in [Token -> Holding] /\ first[d].debt_shares = mine
        /\ first[c] = position[u][c]
    <3> DEFINE old == position[u]
    <3>1. old \in [Token -> Holding]
      BY <1>3
    <3>2. first = [old EXCEPT ![d].debt_shares = mine] /\ first[c] = old[c]
      BY <1>1, <3>1
    <3> HIDE DEF old, mine
    <3>3. first \in [Token -> Holding] /\ first[d].debt_shares = mine
      BY <1>7, <3>1, <3>2 DEF Holding
    <3> QED
      BY <3>2, <3>3 DEF old
  <2>2. row = [first EXCEPT ![c].liquidation_cf = cf]
    BY <1>1, <1>3
  <2>3. cf \in 0 .. BPS_DENOMINATOR
    BY <1>4
  <2> HIDE DEF cf, first, row
  <2> QED
    BY <1>1, <2>1, <2>2, <2>3 DEF Holding
<1>10. /\ next = [t \in Token |-> next[t]] /\ vault = [t \in Token |-> vault[t]]
       /\ collateral_vault = [t \in Token |-> collateral_vault[t]]
       /\ next[d] = after /\ next[c] = l[c]
       /\ vault[d] = left /\ vault[c] = reserve_vault[c]
  BY <1>1, <1>3
<1>11. TokenInv(next[c], Shares(position, c), vault[c], collateral_vault[c])
  BY <1>1, <1>10, SoundParts
<1> HIDE DEF row, next, vault
<1> QED
  BY <1>1, <1>2, <1>8, <1>9, <1>10, <1>11, LendingStep DEF c

\* repay: debt becomes cash, the borrower's shares are taken back
LEMMA RepaySound ==
  ASSUME NEW l, Sound(l), NEW u \in Users, NEW d \in Token, NEW amount \in U64,
         Repay(u, d, amount, l)
  PROVE  SoundNext
<1> DEFINE c      == Other(d)
           held   == position[u][d].debt_shares
           debt   == CalculateDebt(held, l[d])
           repaid == IF amount = MaxU64 THEN debt ELSE amount
           shares == RepaidShares(l[d], held, repaid)
           mine   == SatSub(held, shares)
           after  == Repayment(l[d], shares, repaid)
           left   == reserve_vault[d] + repaid
           row    == [position[u] EXCEPT ![d].debt_shares = mine]
           next   == [l EXCEPT ![d] = after]
           vault  == [reserve_vault EXCEPT ![d] = left]
<1>1. c \in Token /\ c # d
  BY Tokens
<1>2. /\ CalculateDebtOk(held, l[d]) /\ debt > 0 /\ repaid <= debt
      /\ RepaidSharesOk(l[d], repaid) /\ left <= MaxU64
      /\ ledger' = next /\ reserve_vault' = vault
      /\ position' = [position EXCEPT ![u] = row]
      /\ collateral_vault' = collateral_vault
  BY DEF Repay, RepayOk, CommitPair
<1>3. /\ l \in [Token -> Ledger] /\ l[d] \in Ledger
      /\ reserve_vault \in [Token -> U64] /\ collateral_vault \in [Token -> U64]
      /\ position \in [Users -> [Token -> Holding]]
  BY DEF Sound, SoundPair
<1>4. held \in Nat /\ held <= MaxU128 /\ MaxU128 \in Nat /\ Shares(position, d)[u] = held
  <2>1. held \in U128 /\ Shares(position, d)[u] = held
    BY <1>3, SharesOf
  <2> HIDE DEF held
  <2> QED
    BY <2>1, WidthAssumption DEF U128
<1> HIDE DEF c, held
<1>5. debt \in U64
  BY <1>2, <1>3, <1>4, CalculateDebtRange
<1>6. repaid \in Nat
  BY <1>5, NumbersU64
<1> HIDE DEF repaid
<1>7. TokenInv(after, [Shares(position, d) EXCEPT ![u] = mine], left, collateral_vault[d])
  BY <1>2, <1>4, <1>6, RepayInv, SoundParts
<1>8. mine \in U128
  <2>1. l[d].total_debt > 0
    BY <1>2, <1>3, LedgerFields DEF RepaidSharesOk
  <2>2. (repaid * l[d].total_debt_shares) \div l[d].total_debt \in Nat
    BY <1>3, <1>6, <2>1, LedgerFields, MulNat, DivFloor
  <2>3. shares \in Nat
    BY <1>4, <2>2, LesserRange DEF RepaidShares
  <2> HIDE DEF shares
  <2>4. mine \in Nat /\ mine <= held
    BY <1>4, <2>3, SatSubRange
  <2> HIDE DEF mine
  <2> QED
    BY <1>4, <2>4 DEF U128
<1> HIDE DEF mine, after, left
<1>9. /\ row \in [Token -> Holding] /\ row[d].debt_shares = mine
      /\ row[c].debt_shares = position[u][c].debt_shares
  <2> DEFINE old == position[u]
  <2>1. old \in [Token -> Holding]
    BY <1>3
  <2>2. row = [old EXCEPT ![d].debt_shares = mine]
    BY <2>1
  <2>3. row[c] = position[u][c]
    BY <1>1, <2>1
  <2> HIDE DEF old, row
  <2> QED
    BY <1>8, <2>1, <2>2, <2>3 DEF Holding
<1>10. /\ next = [t \in Token |-> next[t]] /\ vault = [t \in Token |-> vault[t]]
       /\ collateral_vault = [t \in Token |-> collateral_vault[t]]
       /\ next[d] = after /\ next[c] = l[c]
       /\ vault[d] = left /\ vault[c] = reserve_vault[c]
  BY <1>1, <1>3
<1>11. TokenInv(next[c], Shares(position, c), vault[c], collateral_vault[c])
  BY <1>1, <1>10, SoundParts
<1> HIDE DEF row, next, vault
<1> QED
  BY <1>1, <1>2, <1>7, <1>9, <1>10, <1>11, LendingStep DEF c

\* liquidate: debt leaves one ledger, seized collateral joins the other
LEMMA LiquidateSound ==
  ASSUME NEW l, Sound(l), NEW u \in Users, NEW c \in Token, Liquidate(u, c, l)
  PROVE  SoundNext
<1> DEFINE d         == Other(c)
           held      == position[u][d].debt_shares
           pledged   == position[u][c].collateral
           v         == LiquidationReserves(l, c)
           debt      == CalculateDebt(held, l[d])
           insolvent == debt > CollateralValue(l, c, pledged)
           shares    == SharesToWriteOff(held, insolvent)
           written   == DebtToWriteOff(l[d], shares, debt)
           base      == CalculateAmountIn(v.x, v.y, written)
           seized    == SeizedCollateral(base, pledged)
           incentive == CallerIncentive(base, seized)
           gain      == seized - incentive
           post      == MaxDebtForCollateral(l, c, pledged - seized)
           mine      == SatSub(held, shares)
           kept      == pledged - seized
           cf        == post.cf
           total     == l[c].total_collateral - seized
           balance   == collateral_vault[c] - seized
           after     == WriteOff(l[d], shares, written)
           mid       == [l[c] EXCEPT !.total_collateral = total]
           reserves  == reserve_vault[c] + gain
           row       == [position[u] EXCEPT ![d].debt_shares = mine, ![c].collateral = kept,
                                            ![c].liquidation_cf = cf]
           richer  == Seize(l[c], seized, incentive)
           next      == [l EXCEPT ![d] = after, ![c] = richer]
           vault     == [reserve_vault EXCEPT ![c] = reserves]
           pledges   == [collateral_vault EXCEPT ![c] = balance]
<1>1. d \in Token /\ c # d /\ c = Other(d)
  BY Tokens
<1>2. /\ l \in [Token -> Ledger] /\ l[d] \in Ledger /\ l[c] \in Ledger
      /\ reserve_vault \in [Token -> U64] /\ collateral_vault \in [Token -> U64]
      /\ position \in [Users -> [Token -> Holding]]
  BY <1>1 DEF Sound, SoundPair
<1>3. /\ held > 0
      /\ CalculateDebtOk(held, l[d])
      /\ LiquidationReservesOk(l, c)
      /\ AmountInOk(v.x, v.y, written)
      /\ seized <= collateral_vault[c]
      /\ seized <= l[c].total_collateral
      /\ l[c].reserve + gain <= MaxU64
      /\ reserves <= MaxU64
      /\ reserve_vault' = vault /\ collateral_vault' = pledges
  BY DEF Liquidate, LiquidateOk, Undercollateralized
<1>4. ledger' = next /\ position' = [position EXCEPT ![u] = row]
  <2>1. ledger' = next
    BY <1>1, <1>2 DEF Liquidate, CommitPair
  <2>2. position' = [position EXCEPT ![u] = row]
    BY <1>1, <1>2 DEF Liquidate
  <2> QED
    BY <2>1, <2>2
<1>5. /\ held \in Nat /\ held <= MaxU128 /\ MaxU128 \in Nat /\ Shares(position, d)[u] = held
      /\ pledged \in Nat /\ pledged <= MaxU64 /\ MaxU64 \in Nat
  <2>1. held \in U128 /\ Shares(position, d)[u] = held /\ pledged \in U64
    BY <1>1, <1>2, SharesOf
  <2> HIDE DEF held, pledged
  <2> QED
    BY <2>1, WidthAssumption DEF U64, U128
<1>6. base \in Nat
  BY <1>3 DEF AmountInOk, U64
<1> HIDE DEF d, held, pledged, base, insolvent
<1>7. shares \in Nat /\ shares <= held
  <2>1. BpsCeil(held, CLOSE_FACTOR_BPS) \in Nat
    <3>1. CLOSE_FACTOR_BPS \in Nat
      BY DEF CLOSE_FACTOR_BPS
    <3> QED
      BY <1>5, <3>1, BpsCeilNat
  <2> QED
    BY <1>5, <2>1, LesserRange DEF SharesToWriteOff
<1> HIDE DEF shares
<1>8. /\ written \in Nat
      /\ TokenInv(after, [Shares(position, d) EXCEPT ![u] = mine], reserve_vault[d],
                  collateral_vault[d])
  BY <1>1, <1>3, <1>5, <1>7, WriteOffInv, SoundParts
<1>9. seized \in Nat /\ seized <= pledged
  <2>1. BpsCeil(base, BPS_DENOMINATOR + LIQUIDATION_PENALTY_BPS) \in Nat
    <3>1. BPS_DENOMINATOR + LIQUIDATION_PENALTY_BPS \in Nat
      BY BpsFacts DEF LIQUIDATION_PENALTY_BPS
    <3> QED
      BY <1>6, <3>1, BpsCeilNat
  <2> QED
    BY <1>5, <2>1, LesserRange DEF SeizedCollateral
<1> HIDE DEF seized
<1>10. incentive \in Nat /\ incentive <= seized
  <2>1. BpsFloor(base, LIQUIDATION_INCENTIVE_BPS) \in Nat
    BY <1>6, BpsFloorNat DEF LIQUIDATION_INCENTIVE_BPS
  <2> QED
    BY <1>9, <2>1, LesserRange DEF CallerIncentive
<1> HIDE DEF incentive
<1>11. gain \in Nat /\ kept \in U64 /\ mine \in U128
  <2>1. mine \in Nat /\ mine <= held
    BY <1>5, <1>7, SatSubRange
  <2> QED
    BY <1>5, <1>9, <1>10, <2>1 DEF U64, U128
<1>12. cf \in 0 .. BPS_DENOMINATOR
  BY <1>2, <1>11, PostCf
<1>13. total \in U64 /\ balance \in U64 /\ total <= balance
  <2>1. /\ l[c].total_collateral \in Nat /\ l[c].total_collateral <= MaxU64
        /\ collateral_vault[c] \in Nat /\ collateral_vault[c] <= MaxU64
        /\ l[c].total_collateral <= collateral_vault[c]
    BY <1>2, SoundParts, LedgerFields, NumbersU64
  <2>2. seized <= l[c].total_collateral /\ seized <= collateral_vault[c]
    BY <1>3
  <2>3. total \in 0 .. MaxU64 /\ balance \in 0 .. MaxU64 /\ total <= balance
    BY <1>5, <1>9, <2>1, <2>2
  <2> QED
    BY <2>3 DEF U64
<1> HIDE DEF gain, kept, mine, cf, total, balance, after
<1>14. TokenInv(mid, Shares(position, c), reserve_vault[c], balance) /\ mid.reserve = l[c].reserve
  BY <1>2, <1>13, PledgeInv, SoundParts DEF Ledger
<1> HIDE DEF mid
<1>15. TokenInv(richer, Shares(position, c), reserves, balance)
  <2>1. TokenInv(Credit(mid, gain), Shares(position, c), reserves, balance)
    BY <1>3, <1>11, <1>14, CreditInv
  <2> QED
    BY <2>1 DEF Seize, mid, total, gain
<1> HIDE DEF richer
<1> HIDE DEF reserves
<1>16. /\ row \in [Token -> Holding] /\ row[d].debt_shares = mine
       /\ row[c].debt_shares = position[u][c].debt_shares
  <2> DEFINE old == position[u]
             row1 == [old EXCEPT ![d].debt_shares = mine]
             row2 == [row1 EXCEPT ![c].collateral = kept]
  <2>1. old \in [Token -> Holding]
    BY <1>2
  <2>2. row = [row2 EXCEPT ![c].liquidation_cf = cf]
    BY <1>1, <2>1
  <2> HIDE DEF old, row
  <2>3. row1 \in [Token -> Holding] /\ row1[d].debt_shares = mine
        /\ row1[c] = old[c]
    BY <1>1, <1>11, <2>1 DEF Holding
  <2> HIDE DEF row1
  <2>4. row2 \in [Token -> Holding] /\ row2[d] = row1[d]
        /\ row2[c].debt_shares = row1[c].debt_shares
    BY <1>1, <1>11, <2>3 DEF Holding
  <2> HIDE DEF row2
  <2>5. row \in [Token -> Holding] /\ row[d] = row2[d]
        /\ row[c].debt_shares = row2[c].debt_shares
    BY <1>1, <1>12, <2>2, <2>4 DEF Holding
  <2> QED
    BY <2>3, <2>4, <2>5 DEF old
<1>17. /\ next = [t \in Token |-> next[t]] /\ vault = [t \in Token |-> vault[t]]
       /\ pledges = [t \in Token |-> pledges[t]]
       /\ next[d] = after /\ next[c] = richer
       /\ vault[d] = reserve_vault[d] /\ vault[c] = reserves
       /\ pledges[d] = collateral_vault[d] /\ pledges[c] = balance
  BY <1>1, <1>2
<1> HIDE DEF row, next, vault, pledges
<1>18. TokenInv(next[d], [Shares(position, d) EXCEPT ![u] = row[d].debt_shares],
                vault[d], pledges[d])
  BY <1>8, <1>16, <1>17
<1>19. TokenInv(next[c], Shares(position, c), vault[c], pledges[c])
  BY <1>15, <1>17
<1> QED
  BY <1>1, <1>3, <1>4, <1>16, <1>17, <1>18, <1>19, LendingStep

----------------------------------------------------------------------------
(* The inductive invariant. *)

\* nobody owes anything: the shares of all users add up to none
LEMMA NoShares == SumsTo([u \in Users |-> 0], 0)
BY FiniteUsers, SumOfZeros DEF SumsTo, SumOverUsers, SumOf

\* a bootstrapped pair satisfies the invariant
LEMMA InitInv == Init => PairInv
<1> SUFFICES ASSUME Init PROVE PairInv
  OBVIOUS
<1>1. PICK a \in Bootstrap :
        /\ ledger = [t \in Token |-> BootstrapLedger(a[t], a[Other(t)])]
        /\ Sqrt(a[0] * a[1]) - MIN_LIQUIDITY \in U64
        /\ Sqrt(a[0] * a[1]) \in U64
        /\ lp_supply = Sqrt(a[0] * a[1]) - MIN_LIQUIDITY
        /\ total_supply = MIN_LIQUIDITY + lp_supply
        /\ reserve_vault = a
  BY DEF Init
<1>2. a \in [Token -> U64]
  BY BootstrapAssumption
<1>3. 0 \in U64 /\ 0 \in U128 /\ 0 \in 0 .. BPS_DENOMINATOR
  BY WidthAssumption, BpsFacts DEF U64, U128
<1>4. position = [u \in Users |-> [t \in Token |-> NoHolding]]
      /\ collateral_vault = [t \in Token |-> 0]
  BY DEF Init
<1>5. \A t \in Token : TokenInv(ledger[t], Shares(position, t), reserve_vault[t],
                                collateral_vault[t])
  <2> SUFFICES ASSUME NEW t \in Token
               PROVE  TokenInv(ledger[t], Shares(position, t), reserve_vault[t],
                               collateral_vault[t])
    OBVIOUS
  <2> DEFINE k     == ledger[t]
             price == SpotPrice(a[t], a[Other(t)])
  <2>1. a[t] \in U64 /\ a[Other(t)] \in U64
    BY <1>2, Tokens
  <2>2. price \in U64
    BY <2>1, SpotPriceInU64
  <2>3. k = [reserve |-> a[t], cash_reserve |-> a[t],
             total_debt |-> 0, total_debt_shares |-> 0, total_collateral |-> 0,
             symmetric |-> price, directional |-> price, clipped |-> FALSE]
    BY <1>1 DEF BootstrapLedger
  <2> HIDE DEF k, price
  <2>4. k \in Ledger
    BY <1>3, <2>1, <2>2, <2>3 DEF Ledger
  <2>5. /\ k.reserve = a[t] /\ k.cash_reserve = a[t] /\ k.total_debt = 0
        /\ k.total_debt_shares = 0 /\ k.total_collateral = 0
    BY <2>3
  <2>6. a[t] \in Nat
    BY <2>1, NumbersU64
  <2>7. Balanced(k) /\ k.cash_reserve <= reserve_vault[t]
        /\ k.total_collateral <= collateral_vault[t]
    BY <1>1, <1>4, <2>5, <2>6 DEF Balanced
  <2>8. Shares(position, t) = [u \in Users |-> 0]
    BY <1>4 DEF Shares, NoHolding
  <2>9. Shares(position, t) \in [Users -> U128] /\ SumsTo(Shares(position, t), k.total_debt_shares)
    BY <1>3, <2>5, <2>8, NoShares
  <2>10. reserve_vault[t] \in U64 /\ collateral_vault[t] \in U64
    BY <1>1, <1>3, <1>4, <2>1
  <2> QED
    BY <2>4, <2>7, <2>9, <2>10 DEF TokenInv, k
<1>6. Sound(ledger)
  <2>1. ledger \in [Token -> Ledger]
    BY <1>1, <1>5 DEF TokenInv
  <2>2. position \in [Users -> [Token -> Holding]]
    BY <1>3, <1>4 DEF Holding, NoHolding
  <2>3. reserve_vault \in [Token -> U64] /\ collateral_vault \in [Token -> U64]
    BY <1>1, <1>2, <1>3, <1>4
  <2> QED
    BY <1>5, <2>1, <2>2, <2>3 DEF Sound, SoundPair
<1>7. Supplies
  <2>1. MIN_LIQUIDITY \in Nat
    BY MinLiquidityAssumption
  <2> DEFINE root == Sqrt(a[0] * a[1])
  <2>2. root \in U64 /\ root - MIN_LIQUIDITY \in U64
    BY <1>1
  <2>3. lp_supply = root - MIN_LIQUIDITY /\ total_supply = MIN_LIQUIDITY + lp_supply
    BY <1>1
  <2> HIDE DEF root
  <2>4. total_supply = root
    BY <2>1, <2>2, <2>3 DEF U64
  <2> QED
    BY <2>2, <2>3, <2>4 DEF Supplies
<1>8. Modes
  BY DEF Init, Modes
<1>9. Clock
  BY MaxSlotAssumption DEF Init, Clock
<1> QED
  BY <1>6, <1>7, <1>8, <1>9 DEF PairInv

\* an instruction commits the pair at the current slot
LEMMA SupplyStepInv ==
  ASSUME PairInv, SoundNext, Supplies', last_update' = slot, slot' = slot,
         reduce_only' = reduce_only, global_reduce_only' = global_reduce_only
  PROVE  PairInv'
<1>1. Sound(ledger)'
  BY DEF SoundNext, Sound
<1>2. Modes'
  BY DEF PairInv, Modes
<1>3. Clock'
  BY MaxSlotAssumption DEF PairInv, Clock
<1> QED
  BY <1>1, <1>2, <1>3 DEF PairInv

\* instructions that leave supplies, switches and the clock alone
LEMMA StepInv ==
  ASSUME PairInv, SoundNext, last_update' = slot, slot' = slot,
         total_supply' = total_supply, lp_supply' = lp_supply,
         reduce_only' = reduce_only, global_reduce_only' = global_reduce_only
  PROVE  PairInv'
<1>1. Supplies'
  BY DEF PairInv, Supplies
<1> QED
  BY <1>1, SupplyStepInv

\* what the pool's instructions do to the invariant
LEMMA PoolInstructionInv ==
  ASSUME PairInv, NEW l, Sound(l), PoolInstruction(l)
  PROVE  PairInv'
<1>1. CASE \E t \in Token : \E amount \in Inputs.swap[t] : Swap(t, amount, l)
  <2>1. PICK t \in Token : \E amount \in Inputs.swap[t] : Swap(t, amount, l)
    BY <1>1
  <2>2. PICK amount \in Inputs.swap[t] : Swap(t, amount, l)
    BY <2>1
  <2>3. amount \in U64
    BY InputsAssumption
  <2>4. SoundNext
    BY <2>2, <2>3, SwapSound
  <2>5. /\ last_update' = slot /\ slot' = slot
        /\ total_supply' = total_supply /\ lp_supply' = lp_supply
        /\ reduce_only' = reduce_only /\ global_reduce_only' = global_reduce_only
    BY <2>2 DEF Swap, CommitPair, modeVars, lpVars
  <2> QED
    BY <2>4, <2>5, StepInv
<1>2. CASE \E a \in Inputs.liquidity : AddLiquidity(a, l)
  <2>1. PICK a \in Inputs.liquidity : AddLiquidity(a, l)
    BY <1>2
  <2>2. a \in [Token -> U64]
    BY InputsAssumption
  <2>3. SoundNext /\ Supplies'
    BY <2>1, <2>2, AddLiquiditySound DEF PairInv
  <2>4. /\ last_update' = slot /\ slot' = slot
        /\ reduce_only' = reduce_only /\ global_reduce_only' = global_reduce_only
    BY <2>1 DEF AddLiquidity, CommitPair, modeVars
  <2> QED
    BY <2>3, <2>4, SupplyStepInv
<1>3. CASE \E liquidity \in Inputs.burn : RemoveLiquidity(liquidity, l)
  <2>1. PICK liquidity \in Inputs.burn : RemoveLiquidity(liquidity, l)
    BY <1>3
  <2>2. liquidity \in U64
    BY InputsAssumption
  <2>3. SoundNext /\ Supplies'
    BY <2>1, <2>2, RemoveLiquiditySound DEF PairInv
  <2>4. /\ last_update' = slot /\ slot' = slot
        /\ reduce_only' = reduce_only /\ global_reduce_only' = global_reduce_only
    BY <2>1 DEF RemoveLiquidity, CommitPair, modeVars
  <2> QED
    BY <2>3, <2>4, SupplyStepInv
<1>4. CASE \E a \in Inputs.flash : Flashloan(a, l)
  <2>1. PICK a \in Inputs.flash : Flashloan(a, l)
    BY <1>4
  <2>2. a \in [Token -> U64]
    BY InputsAssumption
  <2>3. SoundNext
    BY <2>1, <2>2, FlashloanSound
  <2>4. /\ last_update' = slot /\ slot' = slot
        /\ total_supply' = total_supply /\ lp_supply' = lp_supply
        /\ reduce_only' = reduce_only /\ global_reduce_only' = global_reduce_only
    BY <2>1 DEF Flashloan, CommitPair, modeVars, lpVars
  <2> QED
    BY <2>3, <2>4, StepInv
<1>5. CASE ClaimProtocolFees(l)
  <2>1. SoundNext
    BY <1>5, ClaimSound
  <2>2. /\ last_update' = slot /\ slot' = slot
        /\ total_supply' = total_supply /\ lp_supply' = lp_supply
        /\ reduce_only' = reduce_only /\ global_reduce_only' = global_reduce_only
    BY <1>5 DEF ClaimProtocolFees, CommitPair, modeVars, lpVars
  <2> QED
    BY <2>1, <2>2, StepInv
<1> QED
  BY <1>1, <1>2, <1>3, <1>4, <1>5 DEF PoolInstruction

\* what the lending instructions do to it
LEMMA LendingInstructionInv ==
  ASSUME PairInv, NEW l, Sound(l), NEW u \in Users, LendingInstruction(u, l)
  PROVE  PairInv'
<1> DEFINE Rest == /\ last_update' = slot /\ slot' = slot
                   /\ total_supply' = total_supply /\ lp_supply' = lp_supply
                   /\ reduce_only' = reduce_only /\ global_reduce_only' = global_reduce_only
<1>1. SoundNext /\ Rest => PairInv'
  BY StepInv
<1>2. CASE \E c \in Token : \E amount \in Inputs.collateral[c] : AddCollateral(u, c, amount, l)
  <2>1. PICK c \in Token : \E amount \in Inputs.collateral[c] : AddCollateral(u, c, amount, l)
    BY <1>2
  <2>2. PICK amount \in Inputs.collateral[c] : AddCollateral(u, c, amount, l)
    BY <2>1
  <2>3. amount \in U64
    BY InputsAssumption
  <2>4. SoundNext
    BY <2>2, <2>3, AddCollateralSound
  <2>5. Rest
    BY <2>2 DEF AddCollateral, CommitPair, modeVars, lpVars
  <2> QED
    BY <1>1, <2>4, <2>5
<1>3. CASE \E c \in Token : \E amount \in Inputs.withdraw[c] : RemoveCollateral(u, c, amount, l)
  <2>1. PICK c \in Token : \E amount \in Inputs.withdraw[c] : RemoveCollateral(u, c, amount, l)
    BY <1>3
  <2>2. PICK amount \in Inputs.withdraw[c] : RemoveCollateral(u, c, amount, l)
    BY <2>1
  <2>3. amount \in U64
    BY InputsAssumption
  <2>4. SoundNext
    BY <2>2, <2>3, RemoveCollateralSound
  <2>5. Rest
    BY <2>2 DEF RemoveCollateral, CommitPair, modeVars, lpVars
  <2> QED
    BY <1>1, <2>4, <2>5
<1>4. CASE \E d \in Token : \E amount \in Inputs.debt[d] : Borrow(u, d, amount, l)
  <2>1. PICK d \in Token : \E amount \in Inputs.debt[d] : Borrow(u, d, amount, l)
    BY <1>4
  <2>2. PICK amount \in Inputs.debt[d] : Borrow(u, d, amount, l)
    BY <2>1
  <2>3. amount \in U64
    BY InputsAssumption
  <2>4. SoundNext
    BY <2>2, <2>3, BorrowSound
  <2>5. Rest
    BY <2>2 DEF Borrow, CommitPair, modeVars, lpVars
  <2> QED
    BY <1>1, <2>4, <2>5
<1>5. CASE \E d \in Token : \E amount \in Inputs.debt[d] : Repay(u, d, amount, l)
  <2>1. PICK d \in Token : \E amount \in Inputs.debt[d] : Repay(u, d, amount, l)
    BY <1>5
  <2>2. PICK amount \in Inputs.debt[d] : Repay(u, d, amount, l)
    BY <2>1
  <2>3. amount \in U64
    BY InputsAssumption
  <2>4. SoundNext
    BY <2>2, <2>3, RepaySound
  <2>5. Rest
    BY <2>2 DEF Repay, CommitPair, modeVars, lpVars
  <2> QED
    BY <1>1, <2>4, <2>5
<1>6. CASE \E c \in Token : Liquidate(u, c, l)
  <2>1. PICK c \in Token : Liquidate(u, c, l)
    BY <1>6
  <2>2. SoundNext
    BY <2>1, LiquidateSound
  <2>3. Rest
    BY <2>1 DEF Liquidate, CommitPair, modeVars, lpVars
  <2> QED
    BY <1>1, <2>2, <2>3
<1> QED
  BY <1>2, <1>3, <1>4, <1>5, <1>6 DEF LendingInstruction

\* what the switches, the clock and donations do to it
LEMMA EnvironmentInv ==
  ASSUME PairInv, Environment
  PROVE  PairInv'
<1>1. CASE Tick
  <2>1. /\ slot < MaxSlot /\ slot' = slot + 1
        /\ ledger' = ledger /\ position' = position
        /\ reserve_vault' = reserve_vault /\ collateral_vault' = collateral_vault
        /\ total_supply' = total_supply /\ lp_supply' = lp_supply /\ last_update' = last_update
        /\ reduce_only' = reduce_only /\ global_reduce_only' = global_reduce_only
    BY <1>1 DEF Tick, pairVars, modeVars, lpVars, vaultVars
  <2>2. Sound(ledger)' /\ Supplies' /\ Modes'
    BY <2>1 DEF PairInv, Sound, Supplies, Modes
  <2>3. Clock'
    BY <2>1, MaxSlotAssumption DEF PairInv, Clock
  <2> QED
    BY <2>2, <2>3 DEF PairInv
<1>2. CASE \E t \in Token : \E amount \in Inputs.donation[t] : Donate(t, amount)
  <2>1. PICK t \in Token : \E amount \in Inputs.donation[t] : Donate(t, amount)
    BY <1>2
  <2>2. PICK amount \in Inputs.donation[t] : Donate(t, amount)
    BY <2>1
  <2> DEFINE more == reserve_vault[t] + amount
             held == [reserve_vault EXCEPT ![t] = more]
  <2>3. /\ more <= MaxU64
        /\ ledger' = ledger /\ position' = position
        /\ reserve_vault' = held /\ collateral_vault' = collateral_vault
        /\ total_supply' = total_supply /\ lp_supply' = lp_supply
        /\ slot' = slot /\ last_update' = last_update
        /\ reduce_only' = reduce_only /\ global_reduce_only' = global_reduce_only
    BY <2>2 DEF Donate, pairVars, modeVars, lpVars
  <2>4. amount \in Nat
    BY InputsAssumption, NumbersU64
  <2>5. Sound(ledger)
    BY DEF PairInv
  <2>6. more \in U64 /\ ledger[t].cash_reserve <= more
    BY <2>3, <2>4, <2>5, SoundParts, WidthAssumption DEF U64
  <2> HIDE DEF more
  <2>7. held[t] = more /\ \A s \in Token : s # t => held[s] = reserve_vault[s]
    BY DEF Sound, SoundPair, PairInv
  <2>8. held = [s \in Token |-> held[s]] /\ ledger = [s \in Token |-> ledger[s]]
    BY <2>5 DEF Sound, SoundPair
  <2> HIDE DEF held
  <2>9. \A s \in Token : TokenInv(ledger[s], Shares(position, s), held[s], collateral_vault[s])
    BY <2>5, <2>6, <2>7, SoundParts, VaultChangeInv
  <2>10. SoundNext
    BY <2>3, <2>5, <2>8, <2>9, PoolStep
  <2>11. Sound(ledger)'
    BY <2>10 DEF SoundNext, Sound
  <2>12. Supplies' /\ Modes' /\ Clock'
    BY <2>3 DEF PairInv, Supplies, Modes, Clock
  <2> QED
    BY <2>11, <2>12 DEF PairInv
<1>3. CASE \E b \in Inputs.switch : SetPairReduceOnly(b) \/ SetGlobalReduceOnly(b)
  <2>1. PICK b \in Inputs.switch : SetPairReduceOnly(b) \/ SetGlobalReduceOnly(b)
    BY <1>3
  <2>2. b \in BOOLEAN
    BY InputsAssumption
  <2>3. /\ ledger' = ledger /\ position' = position
        /\ reserve_vault' = reserve_vault /\ collateral_vault' = collateral_vault
        /\ total_supply' = total_supply /\ lp_supply' = lp_supply
        /\ slot' = slot /\ last_update' = last_update
    BY <2>1 DEF SetPairReduceOnly, SetGlobalReduceOnly, pairVars, lpVars, vaultVars
  <2>4. Modes'
    BY <2>1, <2>2 DEF SetPairReduceOnly, SetGlobalReduceOnly, PairInv, Modes
  <2>5. Sound(ledger)' /\ Supplies' /\ Clock'
    BY <2>3 DEF PairInv, Sound, Supplies, Clock
  <2> QED
    BY <2>4, <2>5 DEF PairInv
<1> QED
  BY <1>1, <1>2, <1>3 DEF Environment

\* every step keeps the invariant
LEMMA NextInv == PairInv /\ [Next]_vars => PairInv'
<1> SUFFICES ASSUME PairInv, [Next]_vars PROVE PairInv'
  OBVIOUS
<1>1. \A l \in UpdatedPairs : Sound(l)
  BY UpdateSound DEF PairInv
<1>2. CASE \E l \in UpdatedPairs : PoolInstruction(l)
  BY <1>1, <1>2, PoolInstructionInv
<1>3. CASE \E l \in UpdatedPairs, u \in Users : LendingInstruction(u, l)
  BY <1>1, <1>3, LendingInstructionInv
<1>4. CASE Environment
  BY <1>4, EnvironmentInv
<1>5. CASE UNCHANGED vars
  BY <1>5 DEF vars, pairVars, modeVars, lpVars, vaultVars, PairInv, Sound, Supplies, Modes, Clock
<1> QED
  BY <1>2, <1>3, <1>4, <1>5 DEF Next

\* The pair is sound in every reachable state: the users' shares of each
\* token add up to the pair's, the vaults back the accounts, the ledger
\* identity holds, and the supply is the locked minimum plus the LP tokens.
THEOREM PairAlwaysSound == Spec => []PairInv
BY InitInv, NextInv, PTL DEF Spec

----------------------------------------------------------------------------
(* The results. *)

\* Every field stays within its integer type, whatever the order of the
\* instructions: no checked operation of a handler hides a wrong range.
THEOREM TypeCorrect == Spec => []TypeOK
<1>1. PairInv => TypeOK
  BY DEF PairInv, Sound, SoundPair, Supplies, Modes, Clock, TypeOK
<1> QED
  BY <1>1, PairAlwaysSound, PTL

\* The reserve vault of a token holds r_cash and the collateral vault holds
\* all the collateral of the positions, after every swap, withdrawal,
\* liquidation, flash loan and claim of protocol fees.
THEOREM VaultsAlwaysBack == Spec => []VaultsBackAccounts
<1>1. PairInv => VaultsBackAccounts
  BY DEF PairInv, Sound, SoundPair, TokenInv, VaultsBackAccounts
<1> QED
  BY <1>1, PairAlwaysSound, PTL

\* r_virtual = r_cash + r_debt for both tokens, until an addition clips at
\* u64::MAX: interest, borrowing, repayment and write-off, with the sync that
\* drops debt without shares, keep the identity.
THEOREM IdentityHolds == Spec => []LedgerIdentity
<1>1. PairInv => LedgerIdentity
  BY DEF PairInv, Sound, SoundPair, TokenInv, Balanced, LedgerIdentity
<1> QED
  BY <1>1, PairAlwaysSound, PTL

----------------------------------------------------------------------------
(* Collateral.  PairInv compares total_collateral with the vault only; that *)
(* it is the sum of the positions' collateral is an invariant of its own.   *)

Pledges(pos, t) == [u \in Users |-> pos[u][t].collateral]

\* the positions' collateral adds up to what l says of each token
PledgesSum(l, pos) == \A t \in Token : SumsTo(Pledges(pos, t), l[t].total_collateral)

PledgesInv == PledgesSum(ledger, position)

\* the collateral of the positions is a function to the u64
LEMMA PledgesTyped ==
  ASSUME NEW pos \in [Users -> [Token -> Holding]], NEW t \in Token
  PROVE  Pledges(pos, t) \in [Users -> Nat] /\ \A u \in Users : Pledges(pos, t)[u] = pos[u][t].collateral
BY SharesOf, NumbersU64 DEF Pledges

\* update leaves the totals alone
LEMMA UpdateKeepsPledges ==
  ASSUME Sound(ledger), Clock, NEW l \in UpdatedPairs
  PROVE  /\ \A t \in Token : l[t].total_collateral = ledger[t].total_collateral
         /\ PledgesInv => PledgesSum(l, position)
<1>1. PICK ig \in Accruals : UpdateOk(ig) /\ l = Update(ig)
  BY DEF UpdatedPairs
<1>2. \A t \in Token : l[t].total_collateral = ledger[t].total_collateral
  <2> SUFFICES ASSUME NEW t \in Token
               PROVE  l[t].total_collateral = ledger[t].total_collateral
    OBVIOUS
  <2>1. l[t] = UpdateToken(ledger[t], ledger[Other(t)].reserve, ElapsedMs, ig[t])
    BY <1>1, Tokens DEF Update, Updated, Sound, SoundPair, Token
  <2>2. ledger[t] \in Ledger /\ ledger[Other(t)].reserve \in U64
    BY Tokens DEF Sound, SoundPair, Ledger
  <2>3. UpdateTokenOk(ledger[t], ElapsedMs, ig[t])
    BY <1>1 DEF UpdateOk
  <2>4. ElapsedMs \in Nat /\ ig[t] \in Nat
    BY <1>1, ElapsedNat, IntegralsAssumption DEF Accruals
  <2> QED
    BY <2>1, <2>2, <2>3, <2>4, UpdateTokenKeeps
<1> QED
  BY <1>2 DEF PledgesInv, PledgesSum

\* an instruction that changes neither side
LEMMA PledgesKept ==
  ASSUME NEW l, PledgesSum(l, position),
         \A t \in Token : ledger'[t].total_collateral = l[t].total_collateral,
         \A t \in Token : \A u \in Users : position'[u][t].collateral = position[u][t].collateral
  PROVE  PledgesInv'
<1>1. \A t \in Token : Pledges(position', t) = Pledges(position, t)
  BY DEF Pledges
<1> QED
  BY <1>1 DEF PledgesInv, PledgesSum

\* an instruction that changes u's collateral and the total by the same amount
LEMMA PledgesMoved ==
  ASSUME NEW l, PledgesSum(l, position), Sound(l), NEW u \in Users, NEW c \in Token,
         NEW mine \in Nat,
         position'[u][c].collateral = mine,
         \A v \in Users, t \in Token :
            v # u \/ t # c => position'[v][t].collateral = position[v][t].collateral,
         ledger'[c].total_collateral = l[c].total_collateral - position[u][c].collateral + mine,
         \A t \in Token : t # c => ledger'[t].total_collateral = l[t].total_collateral
  PROVE  PledgesInv'
<1> SUFFICES ASSUME NEW t \in Token
             PROVE  SumsTo(Pledges(position', t), ledger'[t].total_collateral)
  BY DEF PledgesInv, PledgesSum
<1>1. SumsTo(Pledges(position, t), l[t].total_collateral)
  BY DEF PledgesSum
<1>2. CASE t # c
  <2>1. Pledges(position', t) = Pledges(position, t)
    BY <1>2 DEF Pledges
  <2> QED
    BY <1>1, <1>2, <2>1
<1>3. CASE t = c
  <2>1. /\ Pledges(position, c) \in [Users -> Nat]
        /\ Pledges(position, c)[u] = position[u][c].collateral
    BY PledgesTyped DEF Sound, SoundPair
  <2>2. Pledges(position', c) = [Pledges(position, c) EXCEPT ![u] = mine]
    BY DEF Pledges
  <2>3. SumOf([Pledges(position, c) EXCEPT ![u] = mine])
          = SumOf(Pledges(position, c)) - Pledges(position, c)[u] + mine
    BY <2>1, FiniteUsers, SumReplaced
  <2> QED
    BY <1>1, <1>3, <2>1, <2>2, <2>3 DEF SumsTo, SumOverUsers, SumOf
<1> QED
  BY <1>2, <1>3

\* what cash does to a ledger leaves its collateral alone
LEMMA CashKeepsCollateral ==
  ASSUME NEW k \in Ledger, NEW a
  PROVE  /\ Credit(k, a).total_collateral = k.total_collateral
         /\ Debit(k, a).total_collateral = k.total_collateral
         /\ EarnFee(k, a).total_collateral = k.total_collateral
BY Zenon DEF Credit, Debit, EarnFee, Ledger

\* the pool's instructions do not touch collateral
LEMMA PoolPledges ==
  ASSUME NEW l, Sound(l), PledgesSum(l, position), PoolInstruction(l)
  PROVE  PledgesInv'
<1>1. l \in [Token -> Ledger]
  BY DEF Sound, SoundPair
<1>2. CASE \E t \in Token : \E amount \in Inputs.swap[t] : Swap(t, amount, l)
  <2>1. PICK t \in Token : \E amount \in Inputs.swap[t] : Swap(t, amount, l)
    BY <1>2
  <2>2. PICK amount \in Inputs.swap[t] : Swap(t, amount, l)
    BY <2>1
  <2>3. PICK a, b : ledger' = [l EXCEPT ![t] = Credit(@, a), ![Other(t)] = Debit(@, b)]
    BY <2>2 DEF Swap, CommitPair
  <2>4. \A s \in Token : ledger'[s].total_collateral = l[s].total_collateral
    BY <1>1, <2>3, Tokens, CashKeepsCollateral
  <2>5. position' = position
    BY <2>2 DEF Swap
  <2> QED
    BY <2>4, <2>5, PledgesKept
<1>3. CASE \E a \in Inputs.liquidity : AddLiquidity(a, l)
  <2>1. PICK used : ledger' = [t \in Token |-> Credit(l[t], used[t])]
    BY <1>3 DEF AddLiquidity, CommitPair
  <2>2. position' = position
    BY <1>3 DEF AddLiquidity
  <2>3. \A s \in Token : ledger'[s].total_collateral = l[s].total_collateral
    BY <1>1, <2>1, CashKeepsCollateral
  <2> QED
    BY <2>2, <2>3, PledgesKept
<1>4. CASE \E liquidity \in Inputs.burn : RemoveLiquidity(liquidity, l)
  <2>1. PICK out : ledger' = [t \in Token |-> Debit(l[t], out[t])]
    BY <1>4 DEF RemoveLiquidity, CommitPair
  <2>2. position' = position
    BY <1>4 DEF RemoveLiquidity
  <2>3. \A s \in Token : ledger'[s].total_collateral = l[s].total_collateral
    BY <1>1, <2>1, CashKeepsCollateral
  <2> QED
    BY <2>2, <2>3, PledgesKept
<1>5. CASE \E a \in Inputs.flash : Flashloan(a, l)
  <2>1. PICK fee : ledger' = [t \in Token |-> EarnFee(l[t], fee[t])]
    BY <1>5 DEF Flashloan, CommitPair
  <2>2. position' = position
    BY <1>5 DEF Flashloan
  <2>3. \A s \in Token : ledger'[s].total_collateral = l[s].total_collateral
    BY <1>1, <2>1, CashKeepsCollateral
  <2> QED
    BY <2>2, <2>3, PledgesKept
<1>6. CASE ClaimProtocolFees(l)
  BY <1>6, PledgesKept DEF ClaimProtocolFees, CommitPair
<1> QED
  BY <1>2, <1>3, <1>4, <1>5, <1>6 DEF PoolInstruction

\* a deposit raises the position's collateral and the total alike
LEMMA AddCollateralPledges ==
  ASSUME NEW l, Sound(l), PledgesSum(l, position), NEW u \in Users, NEW c \in Token,
         NEW amount \in U64, AddCollateral(u, c, amount, l)
  PROVE  PledgesInv'
<1> DEFINE mine == position[u][c].collateral + amount
<1>1. /\ l \in [Token -> Ledger] /\ position \in [Users -> [Token -> Holding]]
      /\ position[u] \in [Token -> Holding] /\ position[u][c] \in Holding
  BY DEF Sound, SoundPair
<1>2. position[u][c].collateral \in Nat /\ amount \in Nat /\ l[c].total_collateral \in Nat
  BY <1>1, SharesOf, NumbersU64, SoundParts
<1>3. mine \in Nat
  BY <1>2
<1>4. /\ ledger' = [l EXCEPT ![c].total_collateral = @ + amount]
      /\ position' = [position EXCEPT ![u][c].collateral = mine]
  BY DEF AddCollateral, CommitPair
<1> HIDE DEF mine
<1>5. /\ position'[u][c].collateral = mine
      /\ \A v \in Users, t \in Token :
            v # u \/ t # c => position'[v][t].collateral = position[v][t].collateral
  BY <1>1, <1>4 DEF Holding
<1>6. /\ ledger'[c].total_collateral = l[c].total_collateral + amount
      /\ \A t \in Token : t # c => ledger'[t].total_collateral = l[t].total_collateral
  BY <1>1, <1>4 DEF Ledger
<1>7. ledger'[c].total_collateral = l[c].total_collateral - position[u][c].collateral + mine
  BY <1>2, <1>6 DEF mine
<1> QED
  BY <1>3, <1>5, <1>6, <1>7, PledgesMoved

\* a withdrawal lowers both
LEMMA RemoveCollateralPledges ==
  ASSUME NEW l, Sound(l), PledgesSum(l, position), NEW u \in Users, NEW c \in Token,
         NEW amount \in U64, RemoveCollateral(u, c, amount, l)
  PROVE  PledgesInv'
<1> DEFINE held     == position[u][c].collateral
           debt     == CalculateDebt(position[u][Other(c)].debt_shares, l[Other(c)])
           withdraw == IF amount = MaxU64 /\ debt = 0 THEN held ELSE amount
           cf       == MaxDebtForCollateral(l, c, held - withdraw).cf
           mine     == held - withdraw
<1>1. /\ l \in [Token -> Ledger] /\ position \in [Users -> [Token -> Holding]]
      /\ position[u] \in [Token -> Holding] /\ position[u][c] \in Holding
  BY DEF Sound, SoundPair
<1>2. held \in Nat /\ amount \in Nat /\ l[c].total_collateral \in Nat
  BY <1>1, SharesOf, NumbersU64, SoundParts
<1>3. /\ withdraw <= held
      /\ ledger' = [l EXCEPT ![c].total_collateral = @ - withdraw]
      /\ position' = [position EXCEPT ![u][c].collateral = mine, ![u][c].liquidation_cf = cf]
  BY DEF RemoveCollateral, RemoveCollateralOk, CommitPair
<1>4. withdraw \in Nat
  BY <1>2
<1> HIDE DEF withdraw, cf
<1>5. mine \in Nat
  BY <1>2, <1>3, <1>4
<1> HIDE DEF mine
<1>6. /\ position'[u][c].collateral = mine
      /\ \A v \in Users, t \in Token :
            v # u \/ t # c => position'[v][t].collateral = position[v][t].collateral
  BY <1>1, <1>3 DEF Holding
<1>7. /\ ledger'[c].total_collateral = l[c].total_collateral - withdraw
      /\ \A t \in Token : t # c => ledger'[t].total_collateral = l[t].total_collateral
  BY <1>1, <1>3 DEF Ledger
<1>8. ledger'[c].total_collateral = l[c].total_collateral - position[u][c].collateral + mine
  BY <1>2, <1>4, <1>7 DEF mine
<1> QED
  BY <1>5, <1>6, <1>7, <1>8, PledgesMoved

\* debt comes and goes without collateral
LEMMA DebtPledges ==
  ASSUME NEW l, Sound(l), PledgesSum(l, position), NEW u \in Users, NEW d \in Token,
         NEW amount \in U64, Borrow(u, d, amount, l) \/ Repay(u, d, amount, l)
  PROVE  PledgesInv'
<1>1. /\ l \in [Token -> Ledger] /\ position \in [Users -> [Token -> Holding]]
      /\ position[u] \in [Token -> Holding]
  BY DEF Sound, SoundPair
<1>2. \A t \in Token : ledger'[t].total_collateral = l[t].total_collateral
  <2>1. CASE Borrow(u, d, amount, l)
    <3>1. PICK shares, borrow : ledger' = [l EXCEPT ![d] = IncreaseDebt(@, shares, borrow)]
      BY <2>1 DEF Borrow, CommitPair
    <3>2. IncreaseDebt(l[d], shares, borrow).total_collateral = l[d].total_collateral
      BY <1>1, Zenon DEF IncreaseDebt, Ledger
    <3> QED
      BY <1>1, <3>1, <3>2
  <2>2. CASE Repay(u, d, amount, l)
    <3>1. PICK shares, repaid : ledger' = [l EXCEPT ![d] = Repayment(@, shares, repaid)]
      BY <2>2 DEF Repay, CommitPair
    <3>2. Repayment(l[d], shares, repaid).total_collateral = l[d].total_collateral
      BY <1>1, Zenon DEF Repayment, SyncEmpty, Ledger
    <3> QED
      BY <1>1, <3>1, <3>2
  <2> QED
    BY <2>1, <2>2
<1>3. \A t \in Token : \A v \in Users : position'[v][t].collateral = position[v][t].collateral
  <2>1. CASE Borrow(u, d, amount, l)
    <3>1. PICK mine, cf : position' = [position EXCEPT ![u][d].debt_shares = mine,
                                                    ![u][Other(d)].liquidation_cf = cf]
      BY <2>1 DEF Borrow
    <3> QED
      BY <1>1, <3>1, Tokens DEF Holding
  <2>2. CASE Repay(u, d, amount, l)
    <3>1. PICK mine : position' = [position EXCEPT ![u][d].debt_shares = mine]
      BY <2>2 DEF Repay
    <3> QED
      BY <1>1, <3>1 DEF Holding
  <2> QED
    BY <2>1, <2>2
<1> QED
  BY <1>2, <1>3, PledgesKept

\* the seized collateral is a part of the position's
LEMMA SeizedRange ==
  ASSUME NEW base \in U64, NEW pledged \in Nat
  PROVE  /\ SeizedCollateral(base, pledged) \in Nat
         /\ SeizedCollateral(base, pledged) <= pledged
<1>1. base \in Nat /\ BPS_DENOMINATOR + LIQUIDATION_PENALTY_BPS \in Nat
  BY NumbersU64, BpsFacts DEF LIQUIDATION_PENALTY_BPS
<1>2. BpsCeil(base, BPS_DENOMINATOR + LIQUIDATION_PENALTY_BPS) \in Nat
  BY <1>1, BpsCeilNat
<1> QED
  BY <1>2, LesserRange DEF SeizedCollateral

\* a liquidation lowers both by what it seizes
LEMMA LiquidatePledges ==
  ASSUME NEW l, Sound(l), PledgesSum(l, position), NEW u \in Users, NEW c \in Token,
         Liquidate(u, c, l)
  PROVE  PledgesInv'
<1> DEFINE d       == Other(c)
           pledged == position[u][c].collateral
<1>1. /\ l \in [Token -> Ledger] /\ position \in [Users -> [Token -> Holding]]
      /\ position[u] \in [Token -> Holding] /\ position[u][c] \in Holding
      /\ d \in Token /\ c # d
  BY Tokens DEF Sound, SoundPair
<1>2. PICK base, shares, left, written, incentive, cf :
        /\ base \in U64
        /\ ledger' = [l EXCEPT ![d] = WriteOff(@, shares, written),
                               ![c] = Seize(@, SeizedCollateral(base, pledged), incentive)]
        /\ position' = [position EXCEPT ![u][d].debt_shares = left,
                                        ![u][c].collateral = @ - SeizedCollateral(base, pledged),
                                        ![u][c].liquidation_cf = cf]
  BY DEF Liquidate, LiquidateOk, AmountInOk, CommitPair
<1> DEFINE seized == SeizedCollateral(base, pledged)
           mine   == pledged - seized
<1>3. pledged \in Nat /\ l[c].total_collateral \in Nat
  BY <1>1, SharesOf, NumbersU64, SoundParts
<1>4. seized \in Nat /\ seized <= pledged
  <2>1. base \in U64
    BY <1>2
  <2> QED
    BY <1>3, <2>1, SeizedRange
<1>5. /\ ledger' = [l EXCEPT ![d] = WriteOff(@, shares, written),
                             ![c] = Seize(@, seized, incentive)]
      /\ position' = [position EXCEPT ![u][d].debt_shares = left,
                                      ![u][c].collateral = mine,
                                      ![u][c].liquidation_cf = cf]
  <2>1. position[u][c].collateral - SeizedCollateral(base, pledged) = mine
    OBVIOUS
  <2> QED
    BY <1>1, <1>2, <2>1
<1> HIDE DEF seized
<1>6. mine \in Nat
  BY <1>3, <1>4
<1> HIDE DEF mine
<1>7. /\ position'[u][c].collateral = mine
      /\ \A v \in Users, t \in Token :
            v # u \/ t # c => position'[v][t].collateral = position[v][t].collateral
  BY <1>1, <1>5, Tokens DEF Holding
<1>8. /\ ledger'[c].total_collateral = l[c].total_collateral - seized
      /\ \A t \in Token : t # c => ledger'[t].total_collateral = l[t].total_collateral
  <2>1. l[c] \in Ledger /\ l[d] \in Ledger
    BY <1>1
  <2>2. WriteOff(l[d], shares, written).total_collateral = l[d].total_collateral
    BY <2>1, Zenon DEF WriteOff, SyncEmpty, Ledger
  <2>3. Seize(l[c], seized, incentive).total_collateral = l[c].total_collateral - seized
    BY <2>1, Zenon DEF Seize, Credit, Ledger
  <2>4. ledger'[d] = WriteOff(l[d], shares, written) /\ ledger'[c] = Seize(l[c], seized, incentive)
    BY <1>1, <1>5
  <2> QED
    BY <1>1, <2>2, <2>3, <2>4, Tokens
<1>9. ledger'[c].total_collateral = l[c].total_collateral - position[u][c].collateral + mine
  BY <1>3, <1>4, <1>8 DEF mine
<1> QED
  BY <1>6, <1>7, <1>8, <1>9, PledgesMoved

\* every step keeps the sums
LEMMA PledgesStep == PairInv /\ PledgesInv /\ [Next]_vars => PledgesInv'
<1> SUFFICES ASSUME PairInv, PledgesInv, [Next]_vars PROVE PledgesInv'
  OBVIOUS
<1>1. \A l \in UpdatedPairs : Sound(l) /\ PledgesSum(l, position)
  BY UpdateSound, UpdateKeepsPledges DEF PairInv
<1>2. CASE \E l \in UpdatedPairs : PoolInstruction(l)
  BY <1>1, <1>2, PoolPledges
<1>3. CASE \E l \in UpdatedPairs, u \in Users : LendingInstruction(u, l)
  <2>1. PICK l \in UpdatedPairs, u \in Users : LendingInstruction(u, l)
    BY <1>3
  <2>2. Sound(l) /\ PledgesSum(l, position)
    BY <1>1
  <2>3. \A c \in Token : /\ \A amount \in Inputs.collateral[c] : amount \in U64
                         /\ \A amount \in Inputs.withdraw[c] : amount \in U64
                         /\ \A amount \in Inputs.debt[c] : amount \in U64
    BY InputsAssumption
  <2> QED
    BY <2>1, <2>2, <2>3, AddCollateralPledges, RemoveCollateralPledges, DebtPledges,
       LiquidatePledges
    DEF LendingInstruction
<1>4. CASE Environment \/ UNCHANGED vars
  <2>1. ledger' = ledger /\ position' = position
    BY <1>4 DEF Environment, Tick, Donate, SetPairReduceOnly, SetGlobalReduceOnly,
                vars, pairVars
  <2> QED
    BY <2>1 DEF PledgesInv, PledgesSum, Pledges
<1> QED
  BY <1>2, <1>3, <1>4 DEF Next

\* positions start without collateral
LEMMA InitPledges == Init => PledgesInv
<1> SUFFICES ASSUME Init, NEW t \in Token
             PROVE  SumsTo(Pledges(position, t), ledger[t].total_collateral)
  BY DEF PledgesInv, PledgesSum
<1>1. ledger[t].total_collateral = 0
  BY DEF Init, BootstrapLedger
<1>2. Pledges(position, t) = [u \in Users |-> 0]
  BY DEF Init, Pledges, NoHolding
<1> QED
  BY <1>1, <1>2, NoShares

LEMMA PledgesAlwaysSum == Spec => []PledgesInv
BY InitPledges, PledgesStep, PairAlwaysSound, PTL DEF Spec

\* The pair's totals are the sums of the positions and the supply is the
\* locked minimum plus the LP tokens, for any number of users: no instruction
\* updates one side only, and the rounding of shares never separates them.
THEOREM TotalsAreSums == Spec => []PositionsSumToTotals
<1>1. PairInv /\ PledgesInv => PositionsSumToTotals
  BY DEF PairInv, Sound, SoundPair, TokenInv, SumsTo, Shares, PledgesInv, PledgesSum, Pledges,
         Supplies, PositionsSumToTotals
<1> QED
  BY <1>1, PairAlwaysSound, PledgesAlwaysSum, PTL

----------------------------------------------------------------------------
(* Exits. *)

\* a debt that is rounded up to nothing is computed without an error
LEMMA NoDebtIsComputed ==
  ASSUME NEW k \in Ledger, NEW shares \in U128, CalculateDebt(shares, k) = 0
  PROVE  CalculateDebtOk(shares, k)
<1> DEFINE all   == k.total_debt_shares
           debts == k.total_debt
<1>1. /\ all \in Nat /\ debts \in Nat /\ all <= MaxU128 /\ MaxU128 \in Nat /\ MaxU64 \in Nat
  BY LedgerFields
<1>2. shares \in Nat
  BY <1>1 DEF U128
<1>3. SUFFICES ASSUME all > 0
               PROVE  /\ MulFits(shares, debts)
                      /\ shares * debts + all - 1 <= MaxU128
                      /\ CalculateDebt(shares, k) \in U64
  BY DEF CalculateDebtOk
<1> DEFINE product == shares * debts
<1>4. product \in Nat
  BY <1>1, <1>2, MulNat
<1>5. CeilDiv(product, all) = 0
  BY <1>1, <1>3 DEF CalculateDebt
<1>6. product = 0
  <2> HIDE DEF product, all, debts
  <2> QED
    BY <1>1, <1>3, <1>4, <1>5 DEF CeilDiv
<1>7. MulFits(shares, debts)
  <2>1. CASE debts = 0
    BY <2>1 DEF MulFits
  <2>2. CASE debts > 0
    <3>1. shares = 0
      <4> HIDE DEF debts
      <4> QED
        BY <1>1, <1>2, <1>6, <2>2 DEF product
    <3>2. MaxU128 \div debts \in Nat
      BY <1>1, <2>2, DivFloor
    <3> QED
      BY <3>1, <3>2 DEF MulFits
  <2> QED
    BY <1>1, <2>1, <2>2
<1>8. product + all - 1 <= MaxU128
  BY <1>1, <1>6
<1> QED
  BY <1>1, <1>7, <1>8 DEF U64

\* In every state, and whatever the update charges, whoever owes nothing of
\* the other token can withdraw the whole collateral: nothing in
\* remove_collateral that depends on the pool, on others or on the mode
\* refuses it.  It takes the sums: the total and the vault hold as much as
\* the position says.
THEOREM DebtFreeExits == Spec => []DebtFreeCanExit
<1>1. ASSUME PairInv, PledgesInv, NEW u \in Users, NEW c \in Token, NEW l \in UpdatedPairs,
             position[u][c].collateral > 0,
             CalculateDebt(position[u][Other(c)].debt_shares, l[Other(c)]) = 0
      PROVE  RemoveCollateralOk(u, c, MaxU64, l)
  <2> DEFINE d    == Other(c)
             held == position[u][c].collateral
  <2>1. Sound(l) /\ PledgesSum(l, position)
    BY <1>1, UpdateSound, UpdateKeepsPledges DEF PairInv
  <2>2. l[d] \in Ledger /\ position \in [Users -> [Token -> Holding]]
    BY <2>1, Tokens DEF Sound, SoundPair
  <2>3. held \in Nat /\ held <= l[c].total_collateral
    <3>1. /\ Pledges(position, c) \in [Users -> Nat]
          /\ Pledges(position, c)[u] = held
      BY <2>2, PledgesTyped
    <3>2. SumsTo(Pledges(position, c), l[c].total_collateral)
      BY <2>1 DEF PledgesSum
    <3> QED
      BY <3>1, <3>2, PartOfSum
  <2>4. held <= collateral_vault[c]
    BY <2>1, <2>3, SoundParts
  <2>5. CalculateDebtOk(position[u][d].debt_shares, l[d])
    BY <1>1, <2>2, Tokens, SharesOf, NoDebtIsComputed
  <2>6. MaxDebtForCollateral(l, c, held - held) = NoDebtAllowed
    BY <2>3 DEF MaxDebtForCollateral, MaxDebt
  <2>7. NoDebtAllowed.ok /\ WithdrawalCovered(0, NoDebtAllowed.limit) /\ MaxU64 > 0
    BY WidthAssumption DEF NoDebtAllowed, WithdrawalCovered
  <2> HIDE DEF held
  <2>8. held - held = 0 /\ held > 0 /\ held <= held
    BY <1>1, <2>3 DEF held
  <2> QED
    BY <1>1, <2>3, <2>4, <2>5, <2>6, <2>7, <2>8 DEF RemoveCollateralOk, held
<1>2. PairInv /\ PledgesInv => DebtFreeCanExit
  BY <1>1 DEF DebtFreeCanExit
<1> QED
  BY <1>2, PairAlwaysSound, PledgesAlwaysSum, PTL

=============================================================================
