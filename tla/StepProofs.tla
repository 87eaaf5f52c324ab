------------------------------ MODULE StepProofs ------------------------------
(***************************************************************************)
(* What an instruction may never do, whatever precedes it, and what a      *)
(* transaction of several may not: theorems about the steps of the pair,   *)
(* its views and its transactions.                                         *)
(*                                                                         *)
(* A step of the pair is the update, whose ledgers are l, and an           *)
(* instruction on l.  Each property is therefore proved twice over: of the *)
(* update, from the ledger to l, and of every instruction, from l to the   *)
(* next ledger.  All use the invariants of PairProofs in both states.      *)
(*                                                                         *)
(*   what the LP tokens are worth    by the reserves per token, and by the *)
(*                                   program's own test for a swap         *)
(*   what others owe                 debt per share: a loan's shares are   *)
(*                                   rounded up, a repayment's down, and a *)
(*                                   write-off misses less than one unit   *)
(*   what the insolvent lose         the curve is monotone, and what it    *)
(*                                   asks for an amount buys that amount   *)
(*   the lower price                 moves both virtual reserves against   *)
(*                                   the collateral, by the square root    *)
(*   what trading leaves collateral  the same price and no smaller a curve *)
(*   worth                                                                 *)
(*   the views                       the same curve, taken twice           *)
(*   the liquidation price           the curve never pays more than its    *)
(*                                   price, as y/(x+1) is below it         *)
(*   what owners leave covered       the two prices once more, and no      *)
(*                                   debt without shares that owe it       *)
(*   what a loan was said to do      its debt is the loan and less than    *)
(*                                   one share more, and a price at the    *)
(*                                   limit grows with the debt             *)
(*   that debt can be repaid         all of it is a product that fits u128 *)
(*   that the unhealthy can be       nothing is left to price, or a part   *)
(*   liquidated                      of what can be priced                 *)
(*   the circuit breaker             an invariant says what the            *)
(*                                   instructions run so far tell about    *)
(*                                   the list they come from               *)
(*   transactions                    what a failure puts back was sound    *)
(***************************************************************************)
EXTENDS Views, Transactions, PairProofs

----------------------------------------------------------------------------
(* What the LP tokens are worth. *)

\* the reserves per LP token do not fall from the ledgers l on
LpValueKept(l) ==
  ProductOfReserves(ledger') * total_supply * total_supply
    >= ProductOfReserves(l) * total_supply' * total_supply'

\* no reserve that loses more than its part of the supply lowers the value
LEMMA LpValueWhen ==
  ASSUME NEW r0 \in Nat, NEW r1 \in Nat, NEW n0 \in Nat, NEW n1 \in Nat,
         NEW before \in Nat, NEW after \in Nat,
         n0 * before >= r0 * after, n1 * before >= r1 * after
  PROVE  (n0 * n1) * before * before >= (r0 * r1) * after * after
<1> DEFINE a0 == n0 * before
           a1 == n1 * before
           b0 == r0 * after
           b1 == r1 * after
<1>1. a0 \in Nat /\ a1 \in Nat /\ b0 \in Nat /\ b1 \in Nat
  BY MulNat
<1>2. a0 >= b0 /\ a1 >= b1
  OBVIOUS
<1>3. a0 * a1 = (n0 * n1) * before * before /\ b0 * b1 = (r0 * r1) * after * after
  BY SMT
<1> HIDE DEF a0, a1, b0, b1
<1>4. b0 * b1 <= a0 * b1
  BY <1>1, <1>2, MulMonotone
<1>5. b1 * a0 <= a1 * a0
  BY <1>1, <1>2, MulMonotone
<1>6. a0 * b1 = b1 * a0 /\ a0 * a1 = a1 * a0
  BY <1>1
<1>7. /\ b0 * b1 \in Nat /\ a0 * b1 \in Nat /\ a0 * a1 \in Nat
  BY <1>1, MulNat
<1>8. a0 * a1 >= b0 * b1
  BY <1>4, <1>5, <1>6, <1>7
<1> QED
  BY <1>3, <1>8

\* an instruction that keeps every reserve per token
LEMMA LpValueByReserve ==
  ASSUME NEW l, Sound(l), SoundNext, total_supply \in Nat, total_supply' \in Nat,
         \A t \in Token : ledger'[t].reserve * total_supply >= l[t].reserve * total_supply'
  PROVE  LpValueKept(l)
<1>1. \A t \in Token : l[t].reserve \in Nat /\ ledger'[t].reserve \in Nat
  <2>1. \A t \in Token : l[t] \in Ledger /\ ledger'[t] \in Ledger
    BY DEF Sound, SoundNext, SoundPair
  <2> QED
    BY <2>1, LedgerFields
<1> DEFINE r0 == l[0].reserve
           r1 == l[1].reserve
           n0 == ledger'[0].reserve
           n1 == ledger'[1].reserve
<1>2. r0 \in Nat /\ r1 \in Nat /\ n0 \in Nat /\ n1 \in Nat
  BY <1>1, Tokens
<1>3. n0 * total_supply >= r0 * total_supply' /\ n1 * total_supply >= r1 * total_supply'
  BY Tokens
<1>4. ProductOfReserves(ledger') = n0 * n1 /\ ProductOfReserves(l) = r0 * r1
  BY DEF ProductOfReserves
<1> HIDE DEF r0, r1, n0, n1
<1>5. (n0 * n1) * total_supply * total_supply >= (r0 * r1) * total_supply' * total_supply'
  BY <1>2, <1>3, LpValueWhen
<1> QED
  BY <1>4, <1>5 DEF LpValueKept

\* an instruction that mints and burns nothing and lowers no reserve
LEMMA LpValueByNothingLost ==
  ASSUME NEW l, Sound(l), SoundNext, total_supply \in Nat, total_supply' = total_supply,
         \A t \in Token : ledger'[t].reserve >= l[t].reserve
  PROVE  LpValueKept(l)
<1>1. \A t \in Token : ledger'[t].reserve * total_supply >= l[t].reserve * total_supply'
  <2> SUFFICES ASSUME NEW t \in Token
               PROVE  ledger'[t].reserve * total_supply >= l[t].reserve * total_supply
    OBVIOUS
  <2>1. l[t].reserve \in Nat /\ ledger'[t].reserve \in Nat
    BY LedgerFields DEF Sound, SoundNext, SoundPair
  <2> QED
    BY <2>1, MulMonotone
<1> QED
  BY <1>1, LpValueByReserve

\* the update lowers no reserve
LEMMA UpdateKeepsLpValue ==
  ASSUME Sound(ledger), Clock, NEW l \in UpdatedPairs
  PROVE  \A t \in Token : l[t].reserve >= ledger[t].reserve
<1>1. PICK ig \in Accruals : UpdateOk(ig) /\ l = Update(ig)
  BY DEF UpdatedPairs
<1> SUFFICES ASSUME NEW t \in Token
             PROVE  l[t].reserve >= ledger[t].reserve
  OBVIOUS
<1>2. l[t] = UpdateToken(ledger[t], ledger[Other(t)].reserve, ElapsedMs, ig[t])
  BY <1>1, Tokens DEF Update, Updated, Sound, SoundPair, Token
<1>3. ledger[t] \in Ledger /\ ledger[Other(t)].reserve \in U64
  BY Tokens DEF Sound, SoundPair, Ledger
<1>4. UpdateTokenOk(ledger[t], ElapsedMs, ig[t])
  BY <1>1 DEF UpdateOk
<1>5. ElapsedMs \in Nat /\ ig[t] \in Nat
  BY <1>1, ElapsedNat, IntegralsAssumption DEF Accruals
<1> QED
  BY <1>2, <1>3, <1>4, <1>5, UpdateTokenKeeps

\* a swap passes the program's own test of the product
LEMMA SwapKeepsLpValue ==
  ASSUME NEW l, Sound(l), SoundNext, total_supply \in Nat,
         NEW t \in Token, NEW amount \in U64, Swap(t, amount, l)
  PROVE  LpValueKept(l)
<1>1. total_supply' = total_supply
  BY DEF Swap, lpVars
<1>2. ProductOfReserves(ledger') >= ProductOfReserves(l)
  BY DEF Swap, CommitPair, ProductOfReserves
<1>3. ProductOfReserves(ledger') \in Nat /\ ProductOfReserves(l) \in Nat
  <2>1. \A s \in Token : l[s].reserve \in Nat /\ ledger'[s].reserve \in Nat
    BY LedgerFields DEF Sound, SoundNext, SoundPair
  <2> QED
    BY <2>1, Tokens, MulNat DEF ProductOfReserves
<1> DEFINE k == ProductOfReserves(l)
           n == ProductOfReserves(ledger')
<1> HIDE DEF k, n
<1>4. k * total_supply <= n * total_supply /\ k * total_supply \in Nat /\ n * total_supply \in Nat
  BY <1>2, <1>3, MulMonotone, MulNat DEF k, n
<1>5. (k * total_supply) * total_supply <= (n * total_supply) * total_supply
  BY <1>4, MulMonotone
<1> QED
  BY <1>1, <1>3, <1>5 DEF LpValueKept, k, n

\* a deposit is rounded up, so it is at least the part of the supply minted
LEMMA AddKeepsLpValue ==
  ASSUME NEW l, Sound(l), SoundNext, total_supply \in Nat \ {0},
         NEW a \in [Token -> U64], AddLiquidity(a, l)
  PROVE  LpValueKept(l)
<1> DEFINE liquidity == LiquidityFor(l, a)
<1>1. /\ \A t \in Token : l[t].reserve > 0
      /\ ledger' = [t \in Token |-> Credit(l[t], CeilDiv(liquidity * l[t].reserve, total_supply))]
      /\ total_supply' = total_supply + liquidity
  BY DEF AddLiquidity, CommitPair
<1>2. liquidity \in Nat
  <2>1. \A t \in Token : (a[t] * total_supply) \div l[t].reserve \in Nat
    BY <1>1, NumbersU64, MulNat, DivFloor, SoundParts
  <2> QED
    BY <2>1, Tokens, LesserRange DEF LiquidityFor
<1> HIDE DEF liquidity
<1>3. ASSUME NEW t \in Token
      PROVE  ledger'[t].reserve * total_supply >= l[t].reserve * total_supply'
  <2> DEFINE r    == l[t].reserve
             part == liquidity * r
             used == CeilDiv(part, total_supply)
  <2>1. r \in Nat /\ part \in Nat
    BY <1>2, SoundParts, MulNat
  <2>2. used \in Nat /\ used * total_supply >= part
    <3> HIDE DEF part
    <3> QED
      BY <2>1, CeilDivAtLeast, CeilDivNat
  <2>3. ledger'[t].reserve = r + used
    <3> HIDE DEF used
    <3>1. ledger'[t] = Credit(l[t], used) /\ l[t] \in Ledger
      BY <1>1, SoundParts DEF used
    <3> QED
      BY <2>2, <3>1 DEF Credit, Ledger
  <2>4. (r + used) * total_supply >= r * (total_supply + liquidity)
    <3>1. (r + used) * total_supply = r * total_supply + used * total_supply
      <4> HIDE DEF used, r
      <4> QED
        BY <2>1, <2>2
    <3>2. r * (total_supply + liquidity) = r * total_supply + part
      <4> HIDE DEF r
      <4> QED
        BY <1>2, <2>1
    <3>3. r * total_supply \in Nat /\ used * total_supply \in Nat
      BY <2>1, <2>2, MulNat
    <3> QED
      BY <2>1, <2>2, <3>1, <3>2, <3>3
  <2> QED
    BY <1>1, <2>3, <2>4
<1>4. total_supply' \in Nat
  BY <1>1, <1>2
<1> QED
  BY <1>3, <1>4, LpValueByReserve

\* a withdrawal is rounded down, so it is at most the part of the supply burnt
LEMMA RemoveKeepsLpValue ==
  ASSUME NEW l, Sound(l), SoundNext, total_supply \in Nat \ {0},
         NEW liquidity \in U64, RemoveLiquidity(liquidity, l)
  PROVE  LpValueKept(l)
<1>1. /\ ledger' = [t \in Token |-> Debit(l[t], WithdrawAmount(l[t].reserve, liquidity))]
      /\ total_supply' = total_supply - liquidity
      /\ liquidity <= total_supply
  BY DEF RemoveLiquidity, CommitPair
<1>2. liquidity \in Nat
  BY NumbersU64
<1>3. ASSUME NEW t \in Token
      PROVE  ledger'[t].reserve * total_supply >= l[t].reserve * total_supply'
  <2> DEFINE r     == l[t].reserve
             part  == liquidity * r
             gross == part \div total_supply
             out   == WithdrawAmount(r, liquidity)
  <2>1. r \in Nat /\ part \in Nat
    BY <1>2, SoundParts, MulNat
  <2>2. gross \in Nat /\ total_supply * gross <= part
    <3> HIDE DEF part
    <3> QED
      BY <2>1, DivFloor
  <2>3. out \in Nat /\ out <= gross
    <3>1. out \in Nat
      BY <1>2, <2>1, WithdrawAmountNat
    <3>2. BpsCeil(gross, LIQUIDITY_WITHDRAWAL_FEE_BPS) \in Nat
      BY <2>2, BpsCeilNat DEF LIQUIDITY_WITHDRAWAL_FEE_BPS
    <3>3. out = gross - BpsCeil(gross, LIQUIDITY_WITHDRAWAL_FEE_BPS)
      BY DEF WithdrawAmount
    <3> QED
      BY <2>2, <3>1, <3>2, <3>3
  <2>4. ledger'[t].reserve = r - out
    <3> HIDE DEF out
    <3>1. ledger'[t] = Debit(l[t], out) /\ l[t] \in Ledger
      BY <1>1, SoundParts DEF out
    <3> QED
      BY <2>3, <3>1 DEF Debit, Ledger
  <2> HIDE DEF out, gross
  <2>5. out * total_supply <= gross * total_supply
    BY <2>2, <2>3, MulMonotone
  <2>6. (r - out) * total_supply >= r * (total_supply - liquidity)
    <3>1. (r - out) * total_supply = r * total_supply - out * total_supply
      <4> HIDE DEF r
      <4> QED
        BY <2>1, <2>3
    <3>2. r * (total_supply - liquidity) = r * total_supply - part
      <4> HIDE DEF r
      <4> QED
        BY <1>2, <2>1
    <3>3. r * total_supply \in Nat /\ out * total_supply \in Nat /\ gross * total_supply \in Nat
      BY <2>1, <2>2, <2>3, MulNat
    <3>4. gross * total_supply = total_supply * gross
      BY <2>2
    <3> QED
      BY <2>1, <2>2, <2>5, <3>1, <3>2, <3>3, <3>4
  <2> QED
    BY <1>1, <2>4, <2>6
<1>4. total_supply' \in Nat
  BY <1>1, <1>2
<1> QED
  BY <1>3, <1>4, LpValueByReserve

\* flash loans and claims leave every reserve what it was, or more
LEMMA PoolKeepsLpValue ==
  ASSUME PairInv, NEW l, Sound(l), SoundNext, PoolInstruction(l)
  PROVE  LpValueKept(l)
<1>1. total_supply \in Nat \ {0}
  BY NumbersU64, MinLiquidityAssumption DEF PairInv, Supplies
<1>2. CASE \E t \in Token : \E amount \in Inputs.swap[t] : Swap(t, amount, l)
  <2>1. \A t \in Token : \A amount \in Inputs.swap[t] : amount \in U64
    BY InputsAssumption
  <2> QED
    BY <1>1, <1>2, <2>1, SwapKeepsLpValue
<1>3. CASE \E a \in Inputs.liquidity : AddLiquidity(a, l)
  <2>1. \A a \in Inputs.liquidity : a \in [Token -> U64]
    BY InputsAssumption
  <2> QED
    BY <1>1, <1>3, <2>1, AddKeepsLpValue
<1>4. CASE \E liquidity \in Inputs.burn : RemoveLiquidity(liquidity, l)
  <2>1. \A liquidity \in Inputs.burn : liquidity \in U64
    BY InputsAssumption
  <2> QED
    BY <1>1, <1>4, <2>1, RemoveKeepsLpValue
<1>5. CASE \E a \in Inputs.flash : Flashloan(a, l)
  <2>1. PICK a \in Inputs.flash : Flashloan(a, l)
    BY <1>5
  <2>2. a \in [Token -> U64]
    BY InputsAssumption
  <2>3. /\ ledger' = [t \in Token |-> EarnFee(l[t], FlashloanFee(a[t]))]
        /\ total_supply' = total_supply
    BY <2>1 DEF Flashloan, CommitPair, lpVars
  <2>4. ASSUME NEW t \in Token PROVE ledger'[t].reserve >= l[t].reserve
    <3> DEFINE fee == FlashloanFee(a[t])
    <3>1. fee \in Nat
      BY <2>2, NumbersU64, BpsCeilNat DEF FlashloanFee, FLASHLOAN_FEE_BPS
    <3>2. l[t] \in Ledger /\ l[t].reserve \in Nat /\ l[t].reserve <= MaxU64 /\ MaxU64 \in Nat
      BY SoundParts, LedgerFields
    <3> HIDE DEF fee
    <3>3. ledger'[t] = EarnFee(l[t], fee)
      BY <2>3 DEF fee
    <3>4. EarnFee(l[t], fee).reserve = SatAdd(l[t].reserve, fee)
      BY <3>2, Zenon DEF EarnFee, Ledger
    <3> QED
      BY <3>1, <3>2, <3>3, <3>4 DEF SatAdd, Lesser
  <2> QED
    BY <1>1, <2>3, <2>4, LpValueByNothingLost
<1>6. CASE ClaimProtocolFees(l)
  <2>1. ledger' = l /\ total_supply' = total_supply
    BY <1>6 DEF ClaimProtocolFees, CommitPair, lpVars
  <2>2. \A t \in Token : l[t].reserve >= l[t].reserve
    BY SoundParts
  <2> QED
    BY <1>1, <2>1, <2>2, LpValueByNothingLost
<1> QED
  BY <1>2, <1>3, <1>4, <1>5, <1>6 DEF PoolInstruction

\* lending moves collateral, debt and cash, but no virtual reserve
LEMMA LendingKeepsLpValue ==
  ASSUME PairInv, NEW l, Sound(l), SoundNext, NEW u \in Users, LendingInstruction(u, l),
         ~ \E c \in Token : Liquidate(u, c, l)
  PROVE  LpValueKept(l)
<1>1. total_supply \in Nat
  BY NumbersU64 DEF PairInv, Supplies
<1>2. l \in [Token -> Ledger]
  BY DEF Sound, SoundPair
<1>3. /\ total_supply' = total_supply
      /\ \A t \in Token : ledger'[t].reserve = l[t].reserve
  <2>1. CASE \E c \in Token : \E amount \in Inputs.collateral[c] : AddCollateral(u, c, amount, l)
    <3>1. PICK c, total : c \in Token /\ ledger' = [l EXCEPT ![c].total_collateral = total]
      BY <2>1 DEF AddCollateral, CommitPair
    <3>2. total_supply' = total_supply
      BY <2>1 DEF AddCollateral, lpVars
    <3>3. [l[c] EXCEPT !.total_collateral = total].reserve = l[c].reserve
      BY <1>2, <3>1, Zenon DEF Ledger
    <3>4. /\ ledger'[c] = [l[c] EXCEPT !.total_collateral = total]
          /\ \A t \in Token : t # c => ledger'[t] = l[t]
      BY <1>2, <3>1, Zenon
    <3> QED
      BY <3>2, <3>3, <3>4
  <2>2. CASE \E c \in Token : \E amount \in Inputs.withdraw[c] : RemoveCollateral(u, c, amount, l)
    <3>1. PICK c, total : c \in Token /\ ledger' = [l EXCEPT ![c].total_collateral = total]
      BY <2>2 DEF RemoveCollateral, CommitPair
    <3>2. total_supply' = total_supply
      BY <2>2 DEF RemoveCollateral, lpVars
    <3>3. [l[c] EXCEPT !.total_collateral = total].reserve = l[c].reserve
      BY <1>2, <3>1, Zenon DEF Ledger
    <3>4. /\ ledger'[c] = [l[c] EXCEPT !.total_collateral = total]
          /\ \A t \in Token : t # c => ledger'[t] = l[t]
      BY <1>2, <3>1, Zenon
    <3> QED
      BY <3>2, <3>3, <3>4
  <2>3. CASE \E d \in Token : \E amount \in Inputs.debt[d] : Borrow(u, d, amount, l)
    <3>1. PICK d \in Token : \E amount \in Inputs.debt[d] : Borrow(u, d, amount, l)
      BY <2>3
    <3>2. PICK shares, borrow : ledger' = [l EXCEPT ![d] = IncreaseDebt(@, shares, borrow)]
      BY <3>1 DEF Borrow, CommitPair
    <3>3. IncreaseDebt(l[d], shares, borrow).reserve = l[d].reserve
      BY <1>2, Zenon DEF IncreaseDebt, Ledger
    <3>4. total_supply' = total_supply
      BY <2>3 DEF Borrow, lpVars
    <3> QED
      BY <1>2, <3>2, <3>3, <3>4
  <2>4. CASE \E d \in Token : \E amount \in Inputs.debt[d] : Repay(u, d, amount, l)
    <3>1. PICK d \in Token : \E amount \in Inputs.debt[d] : Repay(u, d, amount, l)
      BY <2>4
    <3>2. PICK shares, repaid : ledger' = [l EXCEPT ![d] = Repayment(@, shares, repaid)]
      BY <3>1 DEF Repay, CommitPair
    <3>3. Repayment(l[d], shares, repaid).reserve = l[d].reserve
      BY <1>2, Zenon DEF Repayment, SyncEmpty, Ledger
    <3>4. total_supply' = total_supply
      BY <2>4 DEF Repay, lpVars
    <3> QED
      BY <1>2, <3>2, <3>3, <3>4
  <2> QED
    BY <2>1, <2>2, <2>3, <2>4 DEF LendingInstruction
<1>4. \A t \in Token : l[t].reserve \in Nat
  BY SoundParts
<1> QED
  BY <1>1, <1>3, <1>4, LpValueByNothingLost

\* the update and the instruction together
LEMMA LpValueStep ==
  ASSUME PairInv, PairInv', NEW l \in UpdatedPairs, LpValueKept(l)
  PROVE  LpValueKept(ledger)
<1> DEFINE r0 == ledger[0].reserve
           r1 == ledger[1].reserve
           n0 == l[0].reserve
           n1 == l[1].reserve
           k  == ProductOfReserves(ledger)
           n  == ProductOfReserves(l)
           after  == total_supply'
           future == ProductOfReserves(ledger') * total_supply * total_supply
<1>1. r0 \in Nat /\ r1 \in Nat /\ n0 \in Nat /\ n1 \in Nat /\ r0 <= n0 /\ r1 <= n1
  <2>1. Sound(ledger) /\ Sound(l)
    BY UpdateSound DEF PairInv
  <2> QED
    BY <2>1, Tokens, SoundParts, UpdateKeepsLpValue DEF PairInv
<1>2. after \in Nat
  BY NumbersU64 DEF PairInv, Supplies
<1>3. k = r0 * r1 /\ n = n0 * n1
  BY DEF ProductOfReserves
<1> HIDE DEF r0, r1, n0, n1, k, n
<1>4. k \in Nat /\ n \in Nat /\ k <= n
  <2>1. r0 * r1 <= n0 * r1 /\ r1 * n0 <= n1 * n0
    BY <1>1, MulMonotone
  <2>2. n0 * r1 = r1 * n0 /\ n1 * n0 = n0 * n1
    BY <1>1
  <2>3. r0 * r1 \in Nat /\ r1 * n0 \in Nat /\ n0 * n1 \in Nat
    BY <1>1, MulNat
  <2> QED
    BY <1>3, <2>1, <2>2, <2>3
<1>5. future >= n * after * after
  BY DEF LpValueKept, n
<1>6. future \in Nat
  <2>1. \A t \in Token : ledger'[t].reserve \in Nat
    BY LedgerFields DEF PairInv, Sound, SoundPair
  <2>2. ProductOfReserves(ledger') \in Nat
    BY <2>1, Tokens, MulNat DEF ProductOfReserves
  <2>3. total_supply \in Nat
    BY NumbersU64 DEF PairInv, Supplies
  <2> QED
    BY <2>2, <2>3, MulNat
<1> HIDE DEF future, after
<1>7. k * after \in Nat /\ n * after \in Nat /\ k * after <= n * after
  BY <1>2, <1>4, MulMonotone, MulNat
<1>8. (k * after) * after <= (n * after) * after
  BY <1>2, <1>7, MulMonotone
<1>9. k * after * after \in Nat /\ n * after * after \in Nat
  BY <1>2, <1>7, MulNat
<1>10. future >= k * after * after
  BY <1>5, <1>6, <1>8, <1>9
<1> QED
  BY <1>10 DEF LpValueKept, k, future, after

\* every step keeps it, or is a liquidation
LEMMA LpValueStepOrLiquidation ==
  ASSUME PairInv, PairInv', Next
  PROVE  LpValueKept(ledger) \/ AnyLiquidation
<1>1. \A l \in UpdatedPairs : Sound(l)
  BY UpdateSound DEF PairInv
<1>2. SoundNext
  BY DEF PairInv, Sound, SoundNext
<1>3. CASE \E l \in UpdatedPairs : PoolInstruction(l)
  BY <1>1, <1>2, <1>3, PoolKeepsLpValue, LpValueStep
<1>4. CASE \E l \in UpdatedPairs, u \in Users : LendingInstruction(u, l)
  <2>1. PICK l \in UpdatedPairs, u \in Users : LendingInstruction(u, l)
    BY <1>4
  <2>2. CASE \E c \in Token : Liquidate(u, c, l)
    BY <2>2 DEF AnyLiquidation, LiquidationOf
  <2>3. CASE ~ \E c \in Token : Liquidate(u, c, l)
    BY <1>1, <1>2, <2>1, <2>3, LendingKeepsLpValue, LpValueStep
  <2> QED
    BY <2>2, <2>3
<1>5. CASE Environment
  <2>1. ledger' = ledger /\ total_supply' = total_supply
    BY <1>5 DEF Environment, Tick, Donate, SetPairReduceOnly, SetGlobalReduceOnly,
                pairVars, lpVars
  <2>2. total_supply \in Nat /\ ProductOfReserves(ledger) \in Nat
    <3>1. \A t \in Token : ledger[t].reserve \in Nat
      BY SoundParts DEF PairInv
    <3> QED
      BY <3>1, Tokens, MulNat, NumbersU64 DEF PairInv, Supplies, ProductOfReserves
  <2>3. ProductOfReserves(ledger) * total_supply * total_supply \in Nat
    BY <2>2, MulNat
  <2> QED
    BY <2>1, <2>3 DEF LpValueKept
<1> QED
  BY <1>3, <1>4, <1>5 DEF Next

\* LP tokens never lose value but to a liquidation: k per squared LP token is
\* no lower after any other step, for every order of the instructions and
\* every amount.  add_liquidity takes what the minted tokens are worth rounded
\* up, remove_liquidity pays what the burnt ones are worth rounded down, swap
\* tests the product, and nothing else lowers a virtual reserve.
THEOREM LpValueKeeps == Spec => LpValueNeverDrops
<1>1. PairInv /\ PairInv' /\ [Next]_vars
        => [ \/ ProductOfReserves(ledger') * total_supply * total_supply
                 >= ProductOfReserves(ledger) * total_supply' * total_supply'
             \/ AnyLiquidation ]_vars
  BY LpValueStepOrLiquidation DEF LpValueKept
<1> QED
  BY <1>1, PairAlwaysSound, PTL DEF Spec, LpValueNeverDrops

----------------------------------------------------------------------------
(* What others owe.  debt D is divided into shares S; what h shares owe is  *)
(* rounded up.                                                              *)

\* debt per share that does not grow
LEMMA PartsMonotone ==
  ASSUME NEW h \in Nat, NEW D \in Nat, NEW S \in Nat \ {0},
         NEW D2 \in Nat, NEW S2 \in Nat \ {0}, D2 * S <= D * S2
  PROVE  CeilDiv(h * D2, S2) <= CeilDiv(h * D, S)
<1> DEFINE q == CeilDiv(h * D, S)
<1>1. h * D \in Nat /\ h * D2 \in Nat
  BY MulNat
<1>2. q \in Nat /\ q * S >= h * D
  BY <1>1, CeilDivNat, CeilDivAtLeast
<1> HIDE DEF q
<1>3. h * D2 * S <= h * D * S2
  <2>1. (D2 * S) * h <= (D * S2) * h
    BY MulNat, MulMonotone
  <2> QED
    BY <2>1
<1>4. (h * D) * S2 <= (q * S) * S2
  BY <1>1, <1>2, MulNat, MulMonotone
<1>5. (h * D2) * S <= (q * S2) * S
  <2>1. (q * S) * S2 = (q * S2) * S /\ (h * D2) * S \in Nat /\ (h * D) * S2 \in Nat
        /\ (q * S2) * S \in Nat
    BY <1>1, <1>2, MulNat
  <2> QED
    BY <1>3, <1>4, <2>1
<1>6. h * D2 <= q * S2
  <2> DEFINE a == h * D2
             b == q * S2
  <2>1. a \in Nat /\ b \in Nat /\ a * S <= b * S
    BY <1>1, <1>2, <1>5, MulNat
  <2> HIDE DEF a, b
  <2>2. a <= b
    BY <2>1
  <2> QED
    BY <2>2 DEF a, b
<1> QED
  BY <1>1, <1>2, <1>6, CeilDivAtMost DEF q

\* debt per share that grows by less than one unit in all
LEMMA PartsPlusOne ==
  ASSUME NEW h \in Nat, NEW D \in Nat, NEW S \in Nat \ {0},
         NEW D2 \in Nat \ {0}, NEW S2 \in Nat \ {0},
         (D2 - 1) * S <= D * S2, h <= S2
  PROVE  CeilDiv(h * D2, S2) <= CeilDiv(h * D, S) + 1
<1> DEFINE q == CeilDiv(h * (D2 - 1), S2)
           p == CeilDiv(h * D, S)
<1>1. D2 - 1 \in Nat
  OBVIOUS
<1>2. h * (D2 - 1) \in Nat /\ h * D2 \in Nat /\ h * D \in Nat
  BY <1>1, MulNat
<1>3. q <= p
  BY <1>1, PartsMonotone
<1>4. q \in Nat /\ p \in Nat /\ q * S2 >= h * (D2 - 1)
  BY <1>2, CeilDivNat, CeilDivAtLeast
<1> HIDE DEF q, p
<1>5. h * D2 <= (q + 1) * S2
  <2>1. h * D2 = h * (D2 - 1) + h /\ (q + 1) * S2 = q * S2 + S2
    BY <1>1, <1>4
  <2>2. q * S2 \in Nat
    BY <1>4, MulNat
  <2> QED
    BY <1>2, <1>4, <2>1, <2>2
<1>6. CeilDiv(h * D2, S2) <= q + 1
  BY <1>2, <1>4, <1>5, CeilDivAtMost
<1>7. CeilDiv(h * D2, S2) \in Nat
  BY <1>2, CeilDivNat
<1> QED
  BY <1>3, <1>4, <1>6, <1>7 DEF p

\* nothing is owed for no shares
LEMMA NoSharesNoDebt ==
  ASSUME NEW k \in Ledger
  PROVE  CalculateDebt(0, k) = 0
<1>1. k.total_debt_shares \in Nat /\ k.total_debt \in Nat
  BY LedgerFields
<1> DEFINE S == k.total_debt_shares
<1>2. S # 0 => CeilDiv(0 * k.total_debt, S) = 0
  <2>1. 0 * k.total_debt = 0
    BY <1>1
  <2> HIDE DEF S
  <2>2. S \in Nat \ {0} => CeilDiv(0, S) = 0
    BY SMT DEF CeilDiv
  <2> QED
    BY <1>1, <2>1, <2>2 DEF S
<1> QED
  BY <1>2 DEF CalculateDebt

\* a new loan raises nobody else's debt: its shares are rounded up
LEMMA BorrowKeepsDebt ==
  ASSUME NEW k \in Ledger, NEW amount \in Nat, BorrowSharesOk(k, amount),
         NEW h \in Nat, h <= k.total_debt_shares,
         IncreaseDebt(k, BorrowShares(k, amount), amount) \in Ledger,
         ~IncreaseDebt(k, BorrowShares(k, amount), amount).clipped
  PROVE  CalculateDebt(h, IncreaseDebt(k, BorrowShares(k, amount), amount)) <= CalculateDebt(h, k)
<1> DEFINE D    == k.total_debt
           S    == k.total_debt_shares
           s    == BorrowShares(k, amount)
           next == IncreaseDebt(k, s, amount)
           D2   == next.total_debt
           S2   == next.total_debt_shares
<1>1. D \in Nat /\ S \in Nat /\ MaxU128 \in Nat /\ MaxU64 \in Nat
  BY LedgerFields
<1>2. s \in Nat
  <2>1. 0 \in U128
    BY <1>1 DEF U128
  <2> QED
    BY <2>1, BorrowSharesRange
<1>3. /\ D2 = SatAdd(D, amount)
      /\ S2 = SharesAfterBorrow(k, S, s)
      /\ next.clipped = (k.clipped \/ S + s > MaxU128)
  <2> HIDE DEF s
  <2> QED
    BY Zenon DEF IncreaseDebt, Ledger
<1>4. CASE S = 0
  <2>1. h = 0
    BY <1>1, <1>4
  <2>2. CalculateDebt(0, next) = 0
    BY NoSharesNoDebt
  <2>3. CalculateDebt(0, k) = 0
    BY NoSharesNoDebt
  <2> QED
    BY <2>1, <2>2, <2>3
<1>5. CASE S # 0
  <2>1. S2 = S + s
    <3>1. ~(S + s > MaxU128)
      BY <1>3, Zenon
    <3> HIDE DEF s
    <3> QED
      BY <1>1, <1>2, <1>3, <1>5, <3>1, LesserRange DEF SharesAfterBorrow, SatAddShares, Lesser
  <2>2. D \in Nat \ {0} /\ s = CeilDiv(amount * S, D)
    BY <1>1, <1>5 DEF BorrowSharesOk, BorrowShares
  <2>3. amount * S \in Nat
    BY <1>1, MulNat
  <2>4. s * D >= amount * S
    <3> HIDE DEF s, D, S
    <3> QED
      BY <2>2, <2>3, CeilDivAtLeast
  <2>5. D2 \in Nat /\ D2 <= D + amount
    <3> QED
      BY <1>1, <1>3 DEF SatAdd, Lesser
  <2> HIDE DEF D, S, s, D2, S2, next
  <2>6. D2 * S <= D * S2
    <3>1. D2 * S <= (D + amount) * S
      BY <1>1, <2>5, MulMonotone
    <3>2. (D + amount) * S = D * S + amount * S /\ D * (S + s) = D * S + s * D
      BY <1>1, <1>2
    <3>3. D * S \in Nat /\ s * D \in Nat /\ D2 * S \in Nat
      BY <1>1, <1>2, <2>5, MulNat
    <3> QED
      BY <2>1, <2>3, <2>4, <3>1, <3>2, <3>3
  <2>7. S \in Nat \ {0} /\ S2 \in Nat \ {0}
    BY <1>1, <1>2, <1>5, <2>1
  <2>8. CeilDiv(h * D2, S2) <= CeilDiv(h * D, S)
    BY <1>1, <2>5, <2>6, <2>7, PartsMonotone
  <2> QED
    BY <2>7, <2>8 DEF CalculateDebt, D, S, D2, S2, next, s
<1> QED
  BY <1>4, <1>5

\* a repayment raises nobody else's debt: the shares it takes are rounded down
LEMMA RepayKeepsDebt ==
  ASSUME NEW k \in Ledger, NEW amount \in Nat, RepaidSharesOk(k, amount),
         NEW held \in Nat, held <= k.total_debt_shares, NEW h \in Nat
  PROVE  CalculateDebt(h, Repayment(k, RepaidShares(k, held, amount), amount))
           <= CalculateDebt(h, k)
<1> DEFINE D    == k.total_debt
           S    == k.total_debt_shares
           part == (amount * S) \div D
           s    == RepaidShares(k, held, amount)
           next == Repayment(k, s, amount)
           D2   == SatSub(D, amount)
           S2   == SatSub(S, s)
<1>1. D \in Nat \ {0} /\ S \in Nat
  BY LedgerFields DEF RepaidSharesOk
<1>2. part \in Nat /\ D * part <= amount * S
  <2>1. amount * S \in Nat
    BY <1>1, MulNat
  <2> HIDE DEF D, S
  <2> QED
    BY <1>1, <2>1, DivFloor
<1>3. s \in Nat /\ s <= part /\ s <= held
  <2> HIDE DEF part
  <2>1. s = Lesser(part, held)
    BY DEF RepaidShares, part
  <2> QED
    BY <1>2, <2>1, LesserRange
<1> HIDE DEF part, s
<1>4. D2 \in Nat /\ S2 \in Nat /\ S2 = S - s
  <2>1. held <= S
    OBVIOUS
  <2> HIDE DEF D, S
  <2> QED
    BY <1>1, <1>3, <2>1 DEF SatSub
<1>5. CalculateDebt(h, k) \in Nat
  <2>1. h * D \in Nat
    BY <1>1, MulNat
  <2> QED
    BY <1>1, <2>1, CeilDivNat DEF CalculateDebt
<1>6. /\ next.total_debt_shares = S2
      /\ S2 # 0 => next.total_debt = D2
  <2> DEFINE mid == [k EXCEPT !.total_debt_shares = SatSub(@, s), !.total_debt = SatSub(@, amount),
                              !.cash_reserve = SatAdd(@, amount)]
  <2>1. mid.total_debt_shares = S2 /\ mid.total_debt = D2
    BY Zenon DEF Ledger
  <2>2. next = IF mid.total_debt_shares = 0 THEN [mid EXCEPT !.total_debt = 0] ELSE mid
    BY Zenon DEF Repayment, SyncEmpty
  <2>3. [mid EXCEPT !.total_debt = 0].total_debt_shares = mid.total_debt_shares
    BY Zenon DEF Ledger
  <2> HIDE DEF mid, next
  <2> QED
    BY <2>1, <2>2, <2>3
<1>7. CASE S2 = 0
  <2>1. next.total_debt_shares = 0
    BY <1>6, <1>7
  <2>2. CalculateDebt(h, next) = 0
    BY <2>1, Zenon DEF CalculateDebt
  <2> HIDE DEF next
  <2> QED
    BY <1>5, <2>2 DEF next, s
<1>8. CASE S2 # 0
  <2>1. S2 \in Nat \ {0} /\ S \in Nat \ {0}
    BY <1>1, <1>3, <1>4, <1>8
  <2>2. D2 * S <= D * S2
    <3>1. CASE D < amount
      <4>1. D2 = 0
        BY <3>1 DEF SatSub
      <4>2. D * S2 \in Nat /\ 0 * S = 0
        BY <1>1, <1>4, MulNat
      <4> QED
        BY <4>1, <4>2
    <3>2. CASE ~(D < amount)
      <4>1. D2 = D - amount
        BY <3>2 DEF SatSub
      <4> HIDE DEF D, S, D2, S2
      <4>2. D2 * S = D * S - amount * S /\ D * S2 = D * S - D * s
        BY <1>1, <1>3, <1>4, <4>1
      <4>3. s * D <= part * D
        BY <1>1, <1>2, <1>3, MulMonotone
      <4>4. s * D = D * s /\ part * D = D * part
        BY <1>1, <1>2, <1>3
      <4>5. D * S \in Nat /\ amount * S \in Nat /\ D * s \in Nat /\ D * part \in Nat
        BY <1>1, <1>2, <1>3, MulNat
      <4> QED
        BY <1>2, <4>2, <4>3, <4>4, <4>5
    <3> QED
      BY <3>1, <3>2
  <2>3. CeilDiv(h * D2, S2) <= CeilDiv(h * D, S)
    <3> HIDE DEF D, S, D2, S2
    <3> QED
      BY <1>1, <1>4, <2>1, <2>2, PartsMonotone
  <2>4. CalculateDebt(h, next) = CeilDiv(h * D2, S2) /\ CalculateDebt(h, k) = CeilDiv(h * D, S)
    <3> HIDE DEF next, D2, S2
    <3> QED
      BY <1>6, <1>8, <2>1 DEF CalculateDebt
  <2>5. CalculateDebt(h, next) <= CalculateDebt(h, k)
    BY <2>3, <2>4
  <2> HIDE DEF next
  <2> QED
    BY <2>5 DEF next, s
<1> QED
  BY <1>7, <1>8

\* a write-off of all that n shares owe, rounded down, leaves the rest of the
\* unit it is rounded by to others at most
LEMMA WriteOffKeepsDebt ==
  ASSUME NEW k \in Ledger, NEW held \in Nat, NEW n \in Nat, n <= held,
         NEW h \in Nat, h + held <= k.total_debt_shares
  PROVE  LET written == DebtToWriteOff(k, n, CalculateDebt(held, k))
         IN  CalculateDebt(h, WriteOff(k, n, written)) <= CalculateDebt(h, k) + 1
<1> DEFINE D       == k.total_debt
           S       == k.total_debt_shares
           debt    == CalculateDebt(held, k)
           part    == (n * D) \div S
           written == DebtToWriteOff(k, n, debt)
           next    == WriteOff(k, n, written)
           D2      == SatSub(D, written)
           S2      == SatSub(S, n)
<1>1. D \in Nat /\ S \in Nat
  BY LedgerFields
<1>2. S2 \in Nat /\ S2 = S - n
  <2>1. n <= S
    BY <1>1
  <2> HIDE DEF S
  <2> QED
    BY <1>1, <2>1 DEF SatSub
<1>3. CalculateDebt(h, k) \in Nat
  <2>1. h * D \in Nat
    BY <1>1, MulNat
  <2> QED
    BY <1>1, <2>1, CeilDivNat DEF CalculateDebt
<1>4. /\ next.total_debt_shares = S2
      /\ S2 # 0 => next.total_debt = D2
  <2> HIDE DEF written
  <2> DEFINE mid == [k EXCEPT !.total_debt_shares = SatSub(@, n), !.total_debt = SatSub(@, written),
                              !.reserve = IF @ < written THEN 1 ELSE @ - written]
  <2>1. mid.total_debt_shares = S2 /\ mid.total_debt = D2
    BY Zenon DEF Ledger
  <2>2. next = IF mid.total_debt_shares = 0 THEN [mid EXCEPT !.total_debt = 0] ELSE mid
    BY Zenon DEF WriteOff, SyncEmpty
  <2>3. [mid EXCEPT !.total_debt = 0].total_debt_shares = mid.total_debt_shares
    BY Zenon DEF Ledger
  <2> HIDE DEF mid, next
  <2> QED
    BY <2>1, <2>2, <2>3
<1>5. CASE S2 = 0
  <2>1. next.total_debt_shares = 0
    BY <1>4, <1>5
  <2>2. CalculateDebt(h, next) = 0
    BY <2>1, Zenon DEF CalculateDebt
  <2> HIDE DEF next
  <2> QED
    BY <1>3, <2>2 DEF next, written, debt
<1>6. CASE S2 # 0
  <2>1. S2 \in Nat \ {0} /\ S \in Nat \ {0} /\ h <= S2
    BY <1>1, <1>2, <1>6
  <2>2. n * D \in Nat /\ held * D \in Nat
    BY <1>1, MulNat
  <2>3. part \in Nat /\ n * D < S * part + S /\ S * part <= n * D
    <3> HIDE DEF D, S
    <3> QED
      BY <1>1, <2>1, <2>2, DivFloor
  <2>4. debt \in Nat /\ debt * S >= held * D
    <3>1. debt = CeilDiv(held * D, S)
      BY <2>1 DEF CalculateDebt
    <3> HIDE DEF D, S, debt
    <3> QED
      BY <1>1, <2>1, <2>2, <3>1, CeilDivNat, CeilDivAtLeast
  <2>5. part <= debt
    <3>1. n * D <= held * D
      BY <1>1, MulMonotone
    <3> HIDE DEF D, S, part, debt
    <3>2. part * S <= debt * S
      <4>1. part * S = S * part /\ part * S \in Nat /\ debt * S \in Nat
        BY <1>1, <2>3, <2>4, MulNat
      <4> QED
        BY <2>2, <2>3, <2>4, <3>1, <4>1
    <3> QED
      BY <2>1, <2>3, <2>4, <3>2
  <2>6. written = part
    <3>1. written = Lesser(debt, part)
      BY <2>1 DEF DebtToWriteOff
    <3> HIDE DEF written, part, debt
    <3> QED
      BY <2>3, <2>4, <2>5, <3>1 DEF Lesser
  <2> HIDE DEF written, part, debt
  <2>7. D2 \in Nat /\ (D2 # 0 => D2 = D - part)
    BY <1>1, <2>3, <2>6, SMT DEF SatSub
  <2>8. CeilDiv(h * D2, S2) <= CeilDiv(h * D, S) + 1
    <3>1. CASE D2 = 0
      <4> HIDE DEF D, S, S2, D2
      <4>1. D2 * S <= D * S2
        <5>1. 0 * S = 0 /\ D * S2 \in Nat
          BY <1>1, <1>2, MulNat
        <5> QED
          BY <3>1, <5>1
      <4>2. CeilDiv(h * D2, S2) <= CeilDiv(h * D, S)
        BY <1>1, <2>1, <2>7, <4>1, PartsMonotone
      <4>3. CeilDiv(h * D2, S2) \in Nat /\ CeilDiv(h * D, S) \in Nat
        BY <1>1, <2>1, <2>7, MulNat, CeilDivNat
      <4> QED
        BY <4>2, <4>3
    <3>2. CASE D2 # 0
      <4>1. D2 \in Nat \ {0} /\ D2 = D - part
        BY <2>7, <3>2
      <4> HIDE DEF D, S, S2, D2
      <4>2. (D2 - 1) * S <= D * S2
        <5>1. (D2 - 1) * S = D * S - (S * part + S) /\ D * S2 = D * S - n * D
          BY <1>1, <1>2, <2>3, <4>1
        <5>2. D * S \in Nat /\ S * part \in Nat
          BY <1>1, <2>3, MulNat
        <5> QED
          BY <1>1, <2>2, <2>3, <5>1, <5>2
      <4> QED
        BY <1>1, <2>1, <4>1, <4>2, PartsPlusOne
    <3> QED
      BY <3>1, <3>2
  <2>9. CalculateDebt(h, next) = CeilDiv(h * D2, S2) /\ CalculateDebt(h, k) = CeilDiv(h * D, S)
    <3> HIDE DEF next, D2, S2
    <3> QED
      BY <1>4, <1>6, <2>1 DEF CalculateDebt
  <2> QED
    BY <2>8, <2>9 DEF written, debt
<1> QED
  BY <1>5, <1>6

----------------------------------------------------------------------------
(* What a user owes of a token after the step, compared with the ledgers l  *)
(* the instruction worked on.                                               *)

OwesNoMore(l, u, d) ==
  LET before == CalculateDebt(position[u][d].debt_shares, l[d])
      after  == CalculateDebt(position'[u][d].debt_shares, ledger'[d])
  IN  \/ after <= before
      \/ after = before + 1 /\ AnyLiquidation
      \/ ledger'[d].clipped

OthersOweNoMore(l) ==
  \A u \in Users, d \in Token :
    position'[u][d].debt_shares = position[u][d].debt_shares => OwesNoMore(l, u, d)

SameDebt(k, n) == n.total_debt = k.total_debt /\ n.total_debt_shares = k.total_debt_shares

\* lending instructions are called with u64 amounts
LEMMA InputsInU64 ==
  \A t \in Token : /\ Inputs.collateral[t] \subseteq U64 /\ Inputs.withdraw[t] \subseteq U64
                   /\ Inputs.debt[t] \subseteq U64
BY InputsAssumption

\* what shares owe is a natural number
LEMMA DebtNat ==
  ASSUME NEW k \in Ledger, NEW h \in Nat
  PROVE  CalculateDebt(h, k) \in Nat
<1> DEFINE S == k.total_debt_shares
           D == k.total_debt
<1>1. D \in Nat /\ S \in Nat
  BY LedgerFields
<1>2. h * D \in Nat
  BY <1>1, MulNat
<1> HIDE DEF D, S
<1>3. S # 0 => CeilDiv(h * D, S) \in Nat
  BY <1>1, <1>2, CeilDivNat
<1> QED
  BY <1>3, Zenon DEF CalculateDebt, D, S

\* a ledger whose debt and shares are the same owes the same
LEMMA SameDebtOwes ==
  ASSUME NEW k, NEW n, SameDebt(k, n), NEW h
  PROVE  CalculateDebt(h, n) = CalculateDebt(h, k)
BY Zenon DEF SameDebt, CalculateDebt

\* a user's shares are naturals
LEMMA SharesNat ==
  ASSUME NEW l, Sound(l), NEW u \in Users, NEW d \in Token
  PROVE  position[u][d].debt_shares \in Nat
<1>1. position[u][d].debt_shares \in U128
  BY SharesOf DEF Sound, SoundPair
<1> QED
  BY <1>1, WidthAssumption DEF U128

\* and, until an addition clips, within the pair's, one by one and in pairs
LEMMA SharesWithinTotal ==
  ASSUME NEW l, Sound(l), NEW u \in Users, NEW d \in Token, ~l[d].clipped
  PROVE  /\ position[u][d].debt_shares <= l[d].total_debt_shares
         /\ \A v \in Users \ {u} :
              position[v][d].debt_shares + position[u][d].debt_shares <= l[d].total_debt_shares
<1> DEFINE f == Shares(position, d)
<1>1. SumsTo(f, l[d].total_debt_shares) /\ f \in [Users -> U128]
  BY DEF Sound, SoundPair, TokenInv
<1>2. f \in [Users -> Nat]
  BY <1>1, SharesAreNat
<1>3. \A v \in Users : f[v] = position[v][d].debt_shares
  BY SharesOf DEF Sound, SoundPair
<1> HIDE DEF f
<1>4. /\ f[u] <= l[d].total_debt_shares
      /\ \A v \in Users \ {u} : f[u] + f[v] <= l[d].total_debt_shares
  BY <1>1, <1>2, PartOfSum
<1>5. \A v \in Users \ {u} : f[u] + f[v] = f[v] + f[u]
  BY <1>2
<1> QED
  BY <1>3, <1>4, <1>5

\* an instruction that leaves debt and shares alone
LEMMA SameDebtNoMore ==
  ASSUME NEW l, Sound(l), NEW d \in Token, SameDebt(l[d], ledger'[d]), NEW u \in Users,
         position'[u][d].debt_shares = position[u][d].debt_shares
  PROVE  OwesNoMore(l, u, d)
<1> DEFINE h == position[u][d].debt_shares
<1>1. CalculateDebt(h, l[d]) \in Nat
  BY SharesNat, DebtNat DEF Sound, SoundPair
<1>2. CalculateDebt(h, ledger'[d]) = CalculateDebt(h, l[d])
  BY SameDebtOwes
<1> HIDE DEF h
<1>3. CalculateDebt(h, ledger'[d]) <= CalculateDebt(h, l[d])
  BY <1>1, <1>2
<1> QED
  BY <1>3 DEF OwesNoMore, h

LEMMA SameDebtsNoMore ==
  ASSUME NEW l, Sound(l), \A d \in Token : SameDebt(l[d], ledger'[d])
  PROVE  OthersOweNoMore(l)
BY SameDebtNoMore DEF OthersOweNoMore

\* cash and reserves move without debt
LEMMA CashKeepsDebt ==
  ASSUME NEW k \in Ledger, NEW a
  PROVE  SameDebt(k, Credit(k, a)) /\ SameDebt(k, Debit(k, a)) /\ SameDebt(k, EarnFee(k, a))
BY Zenon DEF SameDebt, Credit, Debit, EarnFee, Ledger

\* the pool's instructions leave all debt alone
LEMMA PoolKeepsDebt ==
  ASSUME NEW l, Sound(l), PoolInstruction(l)
  PROVE  \A d \in Token : SameDebt(l[d], ledger'[d])
<1>1. l \in [Token -> Ledger]
  BY DEF Sound, SoundPair
<1>2. \A k : SameDebt(k, k)
  BY DEF SameDebt
<1>3. CASE \E t \in Token : \E amount \in Inputs.swap[t] : Swap(t, amount, l)
  <2>1. PICK t \in Token : \E amount \in Inputs.swap[t] : Swap(t, amount, l)
    BY <1>3
  <2>2. PICK a, b : ledger' = [l EXCEPT ![t] = Credit(@, a), ![Other(t)] = Debit(@, b)]
    BY <2>1 DEF Swap, CommitPair
  <2> QED
    BY <1>1, <2>2, Tokens, CashKeepsDebt
<1>4. CASE \E a \in Inputs.liquidity : AddLiquidity(a, l)
  <2>1. PICK used : ledger' = [t \in Token |-> Credit(l[t], used[t])]
    BY <1>4 DEF AddLiquidity, CommitPair
  <2> QED
    BY <1>1, <2>1, CashKeepsDebt
<1>5. CASE \E liquidity \in Inputs.burn : RemoveLiquidity(liquidity, l)
  <2>1. PICK out : ledger' = [t \in Token |-> Debit(l[t], out[t])]
    BY <1>5 DEF RemoveLiquidity, CommitPair
  <2> QED
    BY <1>1, <2>1, CashKeepsDebt
<1>6. CASE \E a \in Inputs.flash : Flashloan(a, l)
  <2>1. PICK fee : ledger' = [t \in Token |-> EarnFee(l[t], fee[t])]
    BY <1>6 DEF Flashloan, CommitPair
  <2> QED
    BY <1>1, <2>1, CashKeepsDebt
<1>7. CASE ClaimProtocolFees(l)
  BY <1>2, <1>7 DEF ClaimProtocolFees, CommitPair
<1> QED
  BY <1>3, <1>4, <1>5, <1>6, <1>7 DEF PoolInstruction

\* nor do deposits and withdrawals of collateral
LEMMA CollateralKeepsDebt ==
  ASSUME NEW l, Sound(l), NEW u \in Users, NEW c \in Token, NEW amount,
         AddCollateral(u, c, amount, l) \/ RemoveCollateral(u, c, amount, l)
  PROVE  \A d \in Token : SameDebt(l[d], ledger'[d])
<1>1. l \in [Token -> Ledger]
  BY DEF Sound, SoundPair
<1>2. PICK total : ledger' = [l EXCEPT ![c].total_collateral = total]
  BY DEF AddCollateral, RemoveCollateral, CommitPair
<1>3. SameDebt(l[c], [l[c] EXCEPT !.total_collateral = total])
  BY <1>1, Zenon DEF SameDebt, Ledger
<1>4. \A k : SameDebt(k, k)
  BY DEF SameDebt
<1>5. /\ ledger'[c] = [l[c] EXCEPT !.total_collateral = total]
      /\ \A t \in Token : t # c => ledger'[t] = l[t]
  BY <1>1, <1>2, Zenon
<1> SUFFICES ASSUME NEW d \in Token PROVE SameDebt(l[d], ledger'[d])
  OBVIOUS
<1>6. CASE d = c
  BY <1>3, <1>5, <1>6, Zenon
<1>7. CASE d # c
  BY <1>4, <1>5, <1>7, Zenon
<1> QED
  BY <1>6, <1>7

\* a loan's rounding is the borrower's
LEMMA BorrowOwesNoMore ==
  ASSUME NEW l, Sound(l), SoundNext, NEW u \in Users, NEW d \in Token, NEW amount \in U64,
         Borrow(u, d, amount, l)
  PROVE  OthersOweNoMore(l)
<1>1. l \in [Token -> Ledger] /\ ledger' \in [Token -> Ledger]
  BY DEF Sound, SoundNext, SoundPair
<1>2. PICK borrow : /\ borrow > 0
                    /\ borrow <= l[d].cash_reserve
                    /\ BorrowSharesOk(l[d], borrow)
                    /\ ledger' = [l EXCEPT ![d] = IncreaseDebt(@, BorrowShares(l[d], borrow), borrow)]
                    /\ borrow = IF amount = MaxU64
                                THEN MaxDebtForCollateral(l, Other(d), position[u][Other(d)].collateral).limit
                                       - CalculateDebt(position[u][d].debt_shares, l[d])
                                ELSE amount
  BY DEF Borrow, CommitPair
<1>3. borrow \in Nat
  <2>1. CalculateDebt(position[u][d].debt_shares, l[d]) \in Nat
    BY <1>1, SharesNat, DebtNat
  <2>2. MaxDebtForCollateral(l, Other(d), position[u][Other(d)].collateral).limit \in Nat
    BY <1>1, Tokens, SharesOf, PostCf, NumbersU64 DEF Sound, SoundPair
  <2>3. amount \in Nat
    BY NumbersU64
  <2> QED
    BY <1>2, <2>1, <2>2, <2>3
<1> DEFINE next == IncreaseDebt(l[d], BorrowShares(l[d], borrow), borrow)
<1>4. /\ ledger'[d] = next
      /\ \A t \in Token : t # d => ledger'[t] = l[t]
  BY <1>1, <1>2
<1>5. next \in Ledger
  BY <1>1, <1>4
<1>6. l[d].clipped => next.clipped
  BY <1>1, Zenon DEF IncreaseDebt, Ledger
<1> SUFFICES ASSUME NEW v \in Users, NEW t \in Token,
                    position'[v][t].debt_shares = position[v][t].debt_shares
             PROVE  OwesNoMore(l, v, t)
  BY DEF OthersOweNoMore
<1>7. CASE t # d
  <2>1. SameDebt(l[t], ledger'[t])
    BY <1>4, <1>7 DEF SameDebt
  <2> QED
    BY <2>1, SameDebtNoMore
<1>8. CASE t = d /\ next.clipped
  BY <1>4, <1>8 DEF OwesNoMore
<1>9. CASE t = d /\ ~next.clipped
  <2> DEFINE h == position[v][d].debt_shares
  <2>1. ~l[d].clipped
    BY <1>6, <1>9
  <2>2. h \in Nat /\ h <= l[d].total_debt_shares
    BY <2>1, SharesNat, SharesWithinTotal
  <2> HIDE DEF h
  <2>3. CalculateDebt(h, next) <= CalculateDebt(h, l[d])
    BY <1>1, <1>2, <1>3, <1>5, <1>9, <2>2, BorrowKeepsDebt
  <2> HIDE DEF next
  <2> QED
    BY <1>4, <1>9, <2>3 DEF OwesNoMore, h
<1> QED
  BY <1>7, <1>8, <1>9

\* the rounding of a repayment is the repayer's
LEMMA RepayOwesNoMore ==
  ASSUME NEW l, Sound(l), NEW u \in Users, NEW d \in Token, NEW amount \in U64,
         Repay(u, d, amount, l)
  PROVE  OthersOweNoMore(l)
<1> DEFINE held   == position[u][d].debt_shares
           repaid == IF amount = MaxU64 THEN CalculateDebt(held, l[d]) ELSE amount
           next   == Repayment(l[d], RepaidShares(l[d], held, repaid), repaid)
<1>1. l \in [Token -> Ledger]
  BY DEF Sound, SoundPair
<1>2. held \in Nat /\ repaid \in Nat
  <2>1. held \in Nat
    BY SharesNat
  <2>2. CalculateDebt(held, l[d]) \in Nat /\ amount \in Nat
    BY <1>1, <2>1, DebtNat, NumbersU64
  <2> HIDE DEF held
  <2> QED
    BY <2>1, <2>2
<1>3. RepaidSharesOk(l[d], repaid)
  BY DEF Repay, RepayOk
<1>4. /\ ledger'[d] = next
      /\ \A t \in Token : t # d => ledger'[t] = l[t]
  BY <1>1 DEF Repay, CommitPair
<1>5. next.clipped = l[d].clipped
  BY <1>1, Zenon DEF Repayment, SyncEmpty, Ledger
<1> SUFFICES ASSUME NEW v \in Users, NEW t \in Token,
                    position'[v][t].debt_shares = position[v][t].debt_shares
             PROVE  OwesNoMore(l, v, t)
  BY DEF OthersOweNoMore
<1>6. CASE t # d
  <2>1. SameDebt(l[t], ledger'[t])
    BY <1>4, <1>6 DEF SameDebt
  <2> QED
    BY <2>1, SameDebtNoMore
<1>7. CASE t = d /\ next.clipped
  BY <1>4, <1>7 DEF OwesNoMore
<1>8. CASE t = d /\ ~next.clipped
  <2> DEFINE h == position[v][d].debt_shares
  <2>1. ~l[d].clipped
    BY <1>5, <1>8
  <2>2. h \in Nat /\ held <= l[d].total_debt_shares
    BY <2>1, SharesNat, SharesWithinTotal
  <2> HIDE DEF h, held, repaid
  <2>3. CalculateDebt(h, next) <= CalculateDebt(h, l[d])
    BY <1>1, <1>2, <1>3, <2>2, RepayKeepsDebt
  <2> HIDE DEF next
  <2> QED
    BY <1>4, <1>8, <2>3 DEF OwesNoMore, h
<1> QED
  BY <1>6, <1>7, <1>8

\* a liquidation takes some of the shares
LEMMA SomeSharesGo ==
  ASSUME NEW held \in Nat \ {0}, NEW insolvent
  PROVE  SharesToWriteOff(held, insolvent) \in 1 .. held
<1> DEFINE n == BpsCeil(held, CLOSE_FACTOR_BPS)
<1>1. n \in Nat /\ n >= 1
  <2>1. held * CLOSE_FACTOR_BPS \in Nat \ {0} /\ BPS_DENOMINATOR \in Nat \ {0}
    BY DEF CLOSE_FACTOR_BPS, BPS_DENOMINATOR
  <2> DEFINE a == held * CLOSE_FACTOR_BPS
             b == BPS_DENOMINATOR
             q == CeilDiv(a, b)
  <2>2. q \in Nat /\ q * b >= a
    BY <2>1, CeilDivNat, CeilDivAtLeast
  <2>3. a \in Nat \ {0} /\ b \in Nat
    BY <2>1
  <2> HIDE DEF a, b, q
  <2>4. q >= 1
    BY <2>2, <2>3
  <2> QED
    BY <2>2, <2>4 DEF BpsCeil, a, b, q
<1> HIDE DEF n
<1>2. Lesser(held, n) \in 1 .. held
  BY <1>1 DEF Lesser
<1>3. SharesToWriteOff(held, insolvent) = IF insolvent THEN held ELSE Lesser(held, n)
  BY DEF SharesToWriteOff, n
<1> QED
  BY <1>2, <1>3

\* a write-off may leave one unit to each of the others
LEMMA LiquidateOwesNoMore ==
  ASSUME NEW l \in UpdatedPairs, Sound(l), NEW u \in Users, NEW c \in Token, Liquidate(u, c, l)
  PROVE  OthersOweNoMore(l)
<1> DEFINE d       == Other(c)
           held    == position[u][d].debt_shares
           debt    == CalculateDebt(held, l[d])
           n       == SharesToWriteOff(held, debt > CollateralValue(l, c, position[u][c].collateral))
           written == DebtToWriteOff(l[d], n, debt)
           next    == WriteOff(l[d], n, written)
<1>1. /\ l \in [Token -> Ledger] /\ d \in Token /\ c # d
      /\ position \in [Users -> [Token -> Holding]] /\ position[u] \in [Token -> Holding]
  BY Tokens DEF Sound, SoundPair
<1>2. PICK seized, incentive, kept, cf :
        /\ ledger' = [l EXCEPT ![d] = next, ![c] = Seize(@, seized, incentive)]
        /\ position' = [position EXCEPT ![u][d].debt_shares = SatSub(held, n),
                                        ![u][c].collateral = kept,
                                        ![u][c].liquidation_cf = cf]
  BY <1>1 DEF Liquidate, CommitPair
<1>3. held \in Nat \ {0}
  <2>1. held \in Nat
    BY <1>1, SharesNat
  <2>2. held > 0
    BY DEF Liquidate, LiquidateOk, Undercollateralized
  <2> QED
    BY <2>1, <2>2
<1>4. position'[u][d].debt_shares = SatSub(held, n)
  <2> HIDE DEF d, held, n
  <2> QED
    BY <1>1, <1>2 DEF Holding
<1>5. n \in 1 .. held
  <2> HIDE DEF held, debt, d
  <2> QED
    BY <1>3, SomeSharesGo
<1>6. ledger'[d] = next /\ SameDebt(l[c], ledger'[c])
  <2>1. ledger'[d] = next /\ ledger'[c] = Seize(l[c], seized, incentive)
    <3> HIDE DEF next, d
    <3> QED
      BY <1>1, <1>2
  <2>2. SameDebt(l[c], Seize(l[c], seized, incentive))
    BY <1>1, Zenon DEF SameDebt, Seize, Credit, Ledger
  <2> HIDE DEF next, d
  <2> QED
    BY <2>1, <2>2
<1>7. next.clipped = l[d].clipped
  BY <1>1, Zenon DEF WriteOff, SyncEmpty, Ledger
<1>8. AnyLiquidation
  BY DEF AnyLiquidation, LiquidationOf
<1>9. next \in Ledger
  <2>1. DebtToWriteOff(l[d], n, debt) \in Nat
    <3>1. debt \in Nat /\ n \in Nat
      <4> HIDE DEF held, n, d
      <4> QED
        BY <1>1, <1>3, <1>5, DebtNat
    <3>2. l[d].total_debt \in Nat /\ l[d].total_debt_shares \in Nat
      BY <1>1, LedgerFields
    <3> HIDE DEF n, debt, d
    <3>3. n * l[d].total_debt \in Nat
      BY <3>1, <3>2, MulNat
    <3> DEFINE S == l[d].total_debt_shares
               a == n * l[d].total_debt
    <3> HIDE DEF S, a
    <3>4. S # 0 => Lesser(debt, a \div S) \in Nat
      BY <3>1, <3>2, <3>3, DivFloor, LesserRange DEF S, a
    <3> QED
      BY <3>4 DEF DebtToWriteOff, S, a
  <2>2. n \in Nat
    <3> HIDE DEF n, held
    <3> QED
      BY <1>5
  <2> HIDE DEF n, debt, d
  <2> QED
    BY <1>1, <2>1, <2>2, WriteOffKeeps
<1> SUFFICES ASSUME NEW v \in Users, NEW t \in Token,
                    position'[v][t].debt_shares = position[v][t].debt_shares
             PROVE  OwesNoMore(l, v, t)
  BY DEF OthersOweNoMore
<1> HIDE DEF d
<1>10. CASE t = c
  BY <1>6, <1>10, SameDebtNoMore
<1>11. CASE t = d /\ next.clipped
  BY <1>6, <1>11 DEF OwesNoMore
<1>12. CASE t = d /\ ~next.clipped
  <2> DEFINE h      == position[v][d].debt_shares
             before == CalculateDebt(h, l[d])
             after  == CalculateDebt(h, next)
  <2>1. ~l[d].clipped
    BY <1>7, <1>12
  <2>2. v # u
    <3> SUFFICES ASSUME v = u PROVE FALSE
      OBVIOUS
    <3>1. SatSub(held, n) = held
      BY <1>4, <1>12
    <3> HIDE DEF held, n
    <3> QED
      BY <1>3, <1>5, <3>1 DEF SatSub
  <2>3. h \in Nat /\ h + held <= l[d].total_debt_shares
    BY <1>1, <2>1, <2>2, SharesNat, SharesWithinTotal
  <2>4. before \in Nat /\ after \in Nat
    <3> HIDE DEF h, next
    <3> QED
      BY <1>1, <1>9, <2>3, DebtNat
  <2>5. after <= before + 1
    <3> HIDE DEF h, held, n
    <3>1. n \in Nat /\ n <= held /\ held \in Nat
      BY <1>3, <1>5
    <3> QED
      BY <1>1, <2>3, <3>1, WriteOffKeepsDebt
  <2> HIDE DEF before, after
  <2>6. after <= before \/ after = before + 1
    BY <2>4, <2>5
  <2> HIDE DEF next
  <2> QED
    BY <1>6, <1>8, <1>12, <2>6 DEF OwesNoMore, before, after, h
<1> QED
  BY <1>1, <1>10, <1>11, <1>12, Tokens DEF d

\* within a slot update changes the debt of no ledger
LEMMA UpdateWithinSlot ==
  ASSUME Sound(ledger), last_update = slot, Clock, NEW l \in UpdatedPairs, NEW d \in Token
  PROVE  SameDebt(ledger[d], l[d])
<1>1. PICK ig \in Accruals : l = Update(ig)
  BY DEF UpdatedPairs
<1>2. ElapsedMs = 0
  <2>1. slot \in Nat /\ TARGET_MS_PER_SLOT \in Nat
    BY ScaleAssumption, MaxSlotAssumption DEF Clock
  <2> QED
    BY <2>1 DEF ElapsedMs, SlotsToMs
<1>3. ledger \in [Token -> Ledger]
  BY DEF Sound, SoundPair
<1>4. l[d] = Updated(d, ig)
  BY <1>1, <1>3, Tokens DEF Update, Token
<1>5. Updated(d, ig) = UpdatePrices(ledger[d], SpotPrice(ledger[d].reserve, ledger[Other(d)].reserve), 0)
  BY <1>2 DEF Updated, UpdateToken
<1>6. SpotPrice(ledger[d].reserve, ledger[Other(d)].reserve) \in U64
  <2>1. ledger[d].reserve \in U64 /\ ledger[Other(d)].reserve \in U64
    BY <1>3, Tokens DEF Ledger
  <2> QED
    BY <2>1, SpotPriceInU64
<1> QED
  BY <1>3, <1>4, <1>5, <1>6, UpdatePricesKeeps DEF SameDebt

\* a step of a slot leaves the debt of whoever it does not change the shares of
LEMMA DebtStep ==
  ASSUME PairInv, PairInv', Next, last_update = slot,
         NEW u \in Users, NEW d \in Token,
         position'[u][d].debt_shares = position[u][d].debt_shares
  PROVE  \/ Debt(u, d)' <= Debt(u, d)
         \/ Debt(u, d)' = Debt(u, d) + 1 /\ AnyLiquidation
         \/ ledger'[d].clipped
<1>1. /\ Sound(ledger) /\ SoundNext /\ Clock
      /\ \A l \in UpdatedPairs : Sound(l) /\ SameDebt(ledger[d], l[d])
  BY UpdateSound, UpdateWithinSlot DEF PairInv, Sound, SoundNext
<1>2. ASSUME NEW l \in UpdatedPairs, OwesNoMore(l, u, d)
      PROVE  \/ Debt(u, d)' <= Debt(u, d)
             \/ Debt(u, d)' = Debt(u, d) + 1 /\ AnyLiquidation
             \/ ledger'[d].clipped
  <2>1. CalculateDebt(position[u][d].debt_shares, l[d])
          = CalculateDebt(position[u][d].debt_shares, ledger[d])
    BY <1>1, SameDebtOwes
  <2> QED
    BY <1>2, <2>1 DEF OwesNoMore, Debt
<1>3. CASE \E l \in UpdatedPairs : PoolInstruction(l)
  BY <1>1, <1>2, <1>3, PoolKeepsDebt, SameDebtsNoMore DEF OthersOweNoMore
<1>4. CASE \E l \in UpdatedPairs, v \in Users : LendingInstruction(v, l)
  <2>1. PICK l \in UpdatedPairs, v \in Users : LendingInstruction(v, l)
    BY <1>4
  <2>2. OthersOweNoMore(l)
    <3>1. CASE \E c \in Token : \E a \in Inputs.collateral[c] : AddCollateral(v, c, a, l)
      BY <1>1, <3>1, CollateralKeepsDebt, SameDebtsNoMore
    <3>2. CASE \E c \in Token : \E a \in Inputs.withdraw[c] : RemoveCollateral(v, c, a, l)
      BY <1>1, <3>2, CollateralKeepsDebt, SameDebtsNoMore
    <3>3. CASE \E t \in Token : \E a \in Inputs.debt[t] : Borrow(v, t, a, l)
      BY <1>1, <3>3, InputsInU64, BorrowOwesNoMore
    <3>4. CASE \E t \in Token : \E a \in Inputs.debt[t] : Repay(v, t, a, l)
      BY <1>1, <3>4, InputsInU64, RepayOwesNoMore
    <3>5. CASE \E c \in Token : Liquidate(v, c, l)
      BY <1>1, <3>5, LiquidateOwesNoMore
    <3> QED
      BY <2>1, <3>1, <3>2, <3>3, <3>4, <3>5 DEF LendingInstruction
  <2> QED
    BY <1>2, <2>2 DEF OthersOweNoMore
<1>5. CASE Environment
  <2>1. ledger' = ledger
    BY <1>5 DEF Environment, Tick, Donate, SetPairReduceOnly, SetGlobalReduceOnly, pairVars
  <2>2. OwesNoMore(ledger, u, d)
    BY <1>1, <2>1, SameDebtNoMore DEF SameDebt
  <2> QED
    BY <2>2 DEF OwesNoMore, Debt
<1> QED
  BY <1>3, <1>4, <1>5 DEF Next

\* Within a slot nobody's debt grows by what others do, by more than the one
\* unit a write-off rounds away: for every number of users, amounts and order
\* of instructions.  BorrowShares rounds up, RepaidShares down, and update
\* charges no interest twice in a slot.
THEOREM DebtUnaffected == Spec => OthersDebtUnaffected
<1>1. PairInv /\ PairInv' /\ [Next]_vars =>
        [last_update = slot =>
           \A u \in Users, d \in Token :
             position'[u][d].debt_shares = position[u][d].debt_shares =>
               \/ Debt(u, d)' <= Debt(u, d)
               \/ Debt(u, d)' = Debt(u, d) + 1 /\ AnyLiquidation
               \/ ledger'[d].clipped]_vars
  BY DebtStep DEF vars
<1> QED
  BY <1>1, PairAlwaysSound, PTL DEF Spec, OthersDebtUnaffected

----------------------------------------------------------------------------
(* Insolvency: what is written off costs the borrower what it is worth.     *)

\* more collateral is worth no less on the curve
LEMMA AmountOutMonotone ==
  ASSUME NEW x \in Nat, NEW y \in Nat, NEW a \in Nat, NEW b \in Nat, a <= b, x + a > 0
  PROVE  CalculateAmountOut(x, y, a) <= CalculateAmountOut(x, y, b)
<1> DEFINE q == (a * y) \div (x + a)
<1>1. a * y \in Nat /\ b * y \in Nat /\ x + a \in Nat \ {0} /\ x + b \in Nat \ {0}
  BY MulNat
<1>2. q \in Nat /\ (x + a) * q <= a * y
  BY <1>1, DivFloor
<1> HIDE DEF q
<1>3. q <= y
  <2> SUFFICES ASSUME q > y PROVE FALSE
    BY <1>2
  <2>1. (y + 1) * (x + a) <= q * (x + a)
    BY <1>1, <1>2, MulMonotone
  <2>2. a * y <= (x + a) * y
    BY <1>1, MulMonotone
  <2>3. (x + a) * q = q * (x + a) /\ (y + 1) * (x + a) = (x + a) * y + (x + a)
    BY <1>1, <1>2
  <2>4. (x + a) * y \in Nat /\ q * (x + a) \in Nat
    BY <1>1, <1>2, MulNat
  <2> QED
    BY <1>1, <1>2, <2>1, <2>2, <2>3, <2>4
<1>4. q * (x + b) <= b * y
  <2>1. q * (b - a) <= y * (b - a)
    BY <1>2, <1>3, MulMonotone
  <2>2. q * (x + b) = (x + a) * q + q * (b - a) /\ y * (b - a) = b * y - a * y
    BY <1>2
  <2>3. q * (b - a) \in Nat /\ y * (b - a) \in Nat /\ (x + a) * q \in Nat
    BY <1>1, <1>2, MulNat
  <2> QED
    BY <1>1, <1>2, <2>1, <2>2, <2>3
<1>5. (b * y) \div (x + b) >= q
  BY <1>1, <1>2, <1>4, DivAtLeast
<1> QED
  BY <1>5 DEF CalculateAmountOut, q

\* what calculate_amount_in asks for w buys w
LEMMA AmountInBuys ==
  ASSUME NEW x \in Nat, NEW y \in Nat, NEW w \in Nat, w < y,
         x + CalculateAmountIn(x, y, w) > 0
  PROVE  /\ CalculateAmountIn(x, y, w) \in Nat
         /\ CalculateAmountOut(x, y, CalculateAmountIn(x, y, w)) >= w
<1> DEFINE a == CeilDiv(w * x, y - w)
<1>1. w * x \in Nat /\ y - w \in Nat \ {0}
  BY MulNat
<1>2. a \in Nat /\ a * (y - w) >= w * x
  BY <1>1, CeilDivNat, CeilDivAtLeast
<1>3. x + a > 0
  BY DEF CalculateAmountIn
<1> HIDE DEF a
<1>4. w * (x + a) <= a * y
  <2>1. a * (y - w) = a * y - a * w /\ w * (x + a) = w * x + a * w
    BY <1>2
  <2>2. a * y \in Nat /\ a * w \in Nat
    BY <1>2, MulNat
  <2> QED
    BY <1>1, <1>2, <2>1, <2>2
<1>5. (a * y) \div (x + a) >= w
  <2>1. a * y \in Nat /\ x + a \in Nat \ {0}
    BY <1>2, <1>3, MulNat
  <2> QED
    BY <1>4, <2>1, DivAtLeast
<1> QED
  BY <1>2, <1>5 DEF CalculateAmountIn, CalculateAmountOut, a

\* all of a position's shares are written off for at least its debt less one
LEMMA WholeDebtWritten ==
  ASSUME NEW k \in Ledger, NEW held \in Nat, CalculateDebt(held, k) > 0
  PROVE  LET written == DebtToWriteOff(k, held, CalculateDebt(held, k))
         IN  written \in Nat /\ written + 1 >= CalculateDebt(held, k)
<1> DEFINE D    == k.total_debt
           S    == k.total_debt_shares
           a    == held * D
           debt == CeilDiv(a, S)
           part == a \div S
<1>1. D \in Nat /\ S \in Nat
  BY LedgerFields
<1>2. S # 0
  <2>1. S = 0 => CalculateDebt(held, k) = 0
    BY Zenon DEF CalculateDebt
  <2> QED
    BY <2>1
<1>3. a \in Nat
  BY <1>1, MulNat
<1>4. CalculateDebt(held, k) = debt
  BY <1>2 DEF CalculateDebt
<1>5. DebtToWriteOff(k, held, CalculateDebt(held, k)) = Lesser(debt, part)
  BY <1>2, <1>4 DEF DebtToWriteOff
<1> HIDE DEF a, S
<1>6. /\ debt \in Nat /\ debt * S < a + S
      /\ part \in Nat /\ a < S * part + S
  BY <1>1, <1>2, <1>3, CeilDivNat, CeilDivAtLeast, DivFloor
<1> HIDE DEF debt, part
<1>7. debt <= part + 1
  <2> SUFFICES ASSUME debt >= part + 2 PROVE FALSE
    BY <1>6
  <2>1. (part + 2) * S <= debt * S
    BY <1>1, <1>6, MulMonotone
  <2>2. (part + 2) * S = S * part + S + S
    BY <1>1, <1>6
  <2>3. S * part \in Nat /\ debt * S \in Nat
    BY <1>1, <1>6, MulNat
  <2> QED
    BY <1>1, <1>3, <1>6, <2>1, <2>2, <2>3
<1>8. Lesser(debt, part) \in Nat /\ Lesser(debt, part) + 1 >= debt
  BY <1>6, <1>7 DEF Lesser
<1> QED
  BY <1>4, <1>5, <1>8

\* the penalty adds to what is seized
LEMMA SeizesAtLeast ==
  ASSUME NEW base \in Nat, NEW pledged \in Nat
  PROVE  /\ SeizedCollateral(base, pledged) \in Nat
         /\ SeizedCollateral(base, pledged) = pledged \/ SeizedCollateral(base, pledged) >= base
<1> DEFINE b == BPS_DENOMINATOR + LIQUIDATION_PENALTY_BPS
           q == CeilDiv(base * b, BPS_DENOMINATOR)
<1>1. base * b \in Nat /\ base * b >= base * BPS_DENOMINATOR /\ BPS_DENOMINATOR \in Nat \ {0}
  BY DEF BPS_DENOMINATOR, LIQUIDATION_PENALTY_BPS
<1> HIDE DEF b
<1>2. q \in Nat /\ q * BPS_DENOMINATOR >= base * b
  BY <1>1, CeilDivNat, CeilDivAtLeast
<1> HIDE DEF q
<1>3. q >= base
  <2>1. q * BPS_DENOMINATOR >= base * BPS_DENOMINATOR
    <3>1. q * BPS_DENOMINATOR \in Nat /\ base * BPS_DENOMINATOR \in Nat
      BY <1>1, <1>2, MulNat
    <3> QED
      BY <1>1, <1>2, <3>1
  <2> QED
    BY <1>2, <2>1 DEF BPS_DENOMINATOR
<1>4. SeizedCollateral(base, pledged) = Lesser(q, pledged)
  BY DEF SeizedCollateral, BpsCeil, b, q
<1> QED
  BY <1>2, <1>3, <1>4 DEF Lesser

\* the prices and reserves liquidate values collateral with
LEMMA LiquidationCurve ==
  ASSUME NEW l \in [Token -> Ledger], NEW c \in Token, LiquidationReservesOk(l, c)
  PROVE  LiquidationReserves(l, c).x \in Nat /\ LiquidationReserves(l, c).y \in Nat
<1>1. 0 \in U64
  BY WidthAssumption DEF U64
<1>2. /\ l[c].reserve \in U64 /\ l[c].symmetric \in U64
      /\ l[Other(c)].reserve \in U64
  BY Tokens DEF Ledger
<1>3. EmaPrice(l[c]) \in U64
  BY <1>1, <1>2 DEF EmaPrice
<1>4. LiquidationReserves(l, c) \in [x : U64, y : U64]
  BY <1>2, <1>3, VirtualReservesInU64 DEF LiquidationReserves, LiquidationReservesOk
<1> QED
  BY <1>4, NumbersU64

\* what is seized from an insolvent borrower is worth all the collateral
LEMMA InsolventSeizure ==
  ASSUME NEW x \in Nat, NEW y \in Nat, NEW pledged \in Nat, NEW debt \in Nat,
         NEW written \in Nat, written + 1 >= debt, AmountOutOk(x, pledged),
         debt > CalculateAmountOut(x, y, pledged), AmountInOk(x, y, written)
  PROVE  LET seized == SeizedCollateral(CalculateAmountIn(x, y, written), pledged)
         IN  /\ seized \in Nat
             /\ CalculateAmountOut(x, y, seized) >= CalculateAmountOut(x, y, pledged)
<1> DEFINE base   == CalculateAmountIn(x, y, written)
           seized == SeizedCollateral(base, pledged)
           value  == CalculateAmountOut(x, y, pledged)
<1>1. base \in Nat /\ written < y
  BY NumbersU64 DEF AmountInOk
<1> HIDE DEF base
<1>2. seized \in Nat /\ (seized = pledged \/ seized >= base)
  BY <1>1, SeizesAtLeast
<1>3. value \in Nat
  BY AmountOutNat
<1>4. written >= value
  <2> HIDE DEF value
  <2> QED
    BY <1>3 DEF value
<1> HIDE DEF seized
<1>5. CASE seized = pledged
  <2> HIDE DEF value
  <2> QED
    BY <1>2, <1>3, <1>5 DEF seized, base, value
<1>6. CASE seized >= base
  <2>1. x + base > 0
    <3> SUFFICES ASSUME x = 0, base = 0 PROVE FALSE
      BY <1>1
    <3>1. pledged > 0
      BY DEF AmountOutOk
    <3>2. value = y
      <4>1. value = (pledged * y) \div pledged
        BY DEF CalculateAmountOut
      <4>2. y * pledged <= pledged * y /\ pledged * y < y * pledged + pledged /\ pledged * y \in Nat
        BY <3>1, MulNat
      <4>3. (pledged * y) \div pledged >= y /\ (pledged * y) \div pledged <= y
        BY <3>1, <4>2, DivAtLeast, DivAtMost
      <4> HIDE DEF value
      <4> QED
        BY <1>3, <4>1, <4>3
    <3> HIDE DEF value
    <3> QED
      BY <1>1, <1>3, <1>4, <3>2
  <2>2. CalculateAmountOut(x, y, base) >= written
    BY <1>1, <2>1, AmountInBuys DEF base
  <2>3. CalculateAmountOut(x, y, base) <= CalculateAmountOut(x, y, seized)
    BY <1>1, <1>2, <1>6, <2>1, AmountOutMonotone
  <2>4. CalculateAmountOut(x, y, base) \in Nat /\ CalculateAmountOut(x, y, seized) \in Nat
    <3>1. AmountOutOk(x, base) /\ AmountOutOk(x, seized)
      BY <1>1, <1>2, <1>6, <2>1 DEF AmountOutOk
    <3> QED
      BY <1>1, <1>2, <3>1, AmountOutNat
  <2>5. CalculateAmountOut(x, y, seized) >= value
    <3> HIDE DEF value
    <3> QED
      BY <1>3, <1>4, <2>2, <2>3, <2>4
  <2> QED
    BY <1>2, <2>5 DEF seized, base
<1> QED
  BY <1>2, <1>5, <1>6

\* Whoever owes more than the collateral is worth is liquidated of all that
\* worth, at every price and for all reserves, debts and roundings: the debt
\* written off is rounded down by one unit at most, what is seized for it
\* rounded up.
THEOREM InsolventLosesAll == Spec => InsolventLosesAllValue
<1>1. ASSUME PairInv, NEW u \in Users, NEW c \in Token, NEW l \in UpdatedPairs,
             CalculateDebt(position[u][Other(c)].debt_shares, l[Other(c)])
               > CollateralValue(l, c, position[u][c].collateral),
             Liquidate(u, c, l)
      PROVE  CollateralValue(l, c, position[u][c].collateral - position'[u][c].collateral)
               >= CollateralValue(l, c, position[u][c].collateral)
  <2> DEFINE d       == Other(c)
             held    == position[u][d].debt_shares
             pledged == position[u][c].collateral
             debt    == CalculateDebt(held, l[d])
             x       == LiquidationReserves(l, c).x
             y       == LiquidationReserves(l, c).y
             value   == CalculateAmountOut(x, y, pledged)
             written == DebtToWriteOff(l[d], held, debt)
             seized  == SeizedCollateral(CalculateAmountIn(x, y, written), pledged)
  <2>1. Sound(l) /\ d \in Token /\ c # d
    BY <1>1, UpdateSound, Tokens DEF PairInv
  <2>2. /\ l \in [Token -> Ledger] /\ position \in [Users -> [Token -> Holding]]
        /\ position[u] \in [Token -> Holding]
    BY <2>1 DEF Sound, SoundPair
  <2>3. held \in Nat /\ pledged \in Nat
    BY <2>1, <2>2, SharesNat, SharesOf, NumbersU64
  <2>4. SharesToWriteOff(held, debt > CollateralValue(l, c, pledged)) = held
    BY <1>1 DEF SharesToWriteOff
  <2>5. /\ LiquidationReservesOk(l, c) /\ AmountOutOk(x, pledged)
        /\ AmountInOk(x, y, written)
        /\ position' = [position EXCEPT ![u][d].debt_shares = SatSub(@, held),
                                        ![u][c].collateral = @ - seized,
                                        ![u][c].liquidation_cf = MaxDebtForCollateral(l, c, pledged - seized).cf]
    BY <1>1, <2>4 DEF Liquidate, LiquidateOk
  <2>6. x \in Nat /\ y \in Nat
    BY <2>2, <2>5, LiquidationCurve
  <2>7. debt > value
    BY <1>1 DEF CollateralValue
  <2> HIDE DEF d, held, pledged
  <2>8. debt \in Nat
    BY <2>1, <2>2, <2>3, DebtNat
  <2>9. value \in Nat
    <3> HIDE DEF x, y
    <3> QED
      BY <2>3, <2>5, <2>6, AmountOutNat
  <2>10. written \in Nat /\ written + 1 >= debt
    <3>1. debt > 0
      <4> HIDE DEF debt, value
      <4> QED
        BY <2>7, <2>8, <2>9
    <3> QED
      BY <2>1, <2>2, <2>3, <3>1, WholeDebtWritten
  <2> HIDE DEF debt, written, x, y
  <2>11. seized \in Nat /\ CalculateAmountOut(x, y, seized) >= value
    BY <2>3, <2>5, <2>6, <2>7, <2>8, <2>10, InsolventSeizure
  <2> HIDE DEF seized
  <2>12. position'[u][c].collateral = pledged - seized
    BY <2>1, <2>2, <2>5 DEF Holding, pledged
  <2>13. pledged - position'[u][c].collateral = seized
    BY <2>3, <2>11, <2>12
  <2> QED
    BY <2>11, <2>13 DEF CollateralValue, x, y, pledged
<1>2. PairInv /\ [Next]_vars =>
        [\A u \in Users, c \in Token, l \in UpdatedPairs :
           /\ CalculateDebt(position[u][Other(c)].debt_shares, l[Other(c)])
                > CollateralValue(l, c, position[u][c].collateral)
           /\ Liquidate(u, c, l)
           => CollateralValue(l, c, position[u][c].collateral - position'[u][c].collateral)
                >= CollateralValue(l, c, position[u][c].collateral)]_vars
  BY <1>1
<1> QED
  BY <1>2, PairAlwaysSound, PTL DEF Spec, InsolventLosesAllValue

----------------------------------------------------------------------------
(* The lower price.  borrow, remove_collateral and the warnings value       *)
(* collateral at the lower of two EMA prices, liquidate at the symmetric    *)
(* one: the lower price moves both virtual reserves against the collateral. *)

\* the collateral's virtual reserve falls as the price rises
LEMMA MulDivByPrice ==
  ASSUME NEW a \in Nat, NEW b \in Nat, NEW p \in Nat \ {0}, NEW q \in Nat \ {0}, p <= q
  PROVE  /\ MulDiv(a, b, NAD, p) \in Nat /\ MulDiv(a, b, NAD, q) \in Nat
         /\ MulDiv(a, b, NAD, q) <= MulDiv(a, b, NAD, p)
<1>1. NAD \in Nat /\ a * NAD \in Nat /\ a * b \in Nat /\ a * b * NAD \in Nat
  BY ScaleAssumption, MulNat
<1>2. CASE MulFits(a * b, NAD)
  <2> DEFINE n == a * b * NAD
  <2>1. n \in Nat
    BY <1>1
  <2>2. MulDiv(a, b, NAD, p) = n \div p /\ MulDiv(a, b, NAD, q) = n \div q
    BY <1>2 DEF MulDiv
  <2> HIDE DEF n
  <2> QED
    BY <2>1, <2>2, DivAntitone, DivFloor
<1>3. CASE ~MulFits(a * b, NAD)
  <2> DEFINE n == (a * NAD) \div p
             m == (a * NAD) \div q
  <2>1. n \in Nat /\ m \in Nat /\ m <= n
    BY <1>1, DivAntitone, DivFloor
  <2>2. MulDiv(a, b, NAD, p) = n * b /\ MulDiv(a, b, NAD, q) = m * b
    BY <1>3 DEF MulDiv
  <2> HIDE DEF n, m
  <2> QED
    BY <2>1, <2>2, MulNat, MulMonotone
<1> QED
  BY <1>2, <1>3

\* the debt's rises with it, unless the step is truncated away
LEMMA MulDivOfPrice ==
  ASSUME NEW a \in Nat, NEW b \in Nat, NEW p \in Nat \ {0}, NEW q \in Nat \ {0}, p <= q,
         a >= NAD \/ (MulFits(a * b, p) => MulFits(a * b, q))
  PROVE  /\ MulDiv(a, b, p, NAD) \in Nat /\ MulDiv(a, b, q, NAD) \in Nat
         /\ MulDiv(a, b, p, NAD) <= MulDiv(a, b, q, NAD)
<1>1. /\ NAD \in Nat \ {0} /\ a * p \in Nat /\ a * q \in Nat /\ a * b \in Nat
      /\ a * b * p \in Nat /\ a * b * q \in Nat
  BY ScaleAssumption, MulNat
<1>2. a * p <= a * q
  <2>1. p * a <= q * a
    BY MulMonotone
  <2> QED
    BY <2>1
<1> DEFINE n == (a * p) \div NAD
           m == (a * q) \div NAD
<1>3. n \in Nat /\ m \in Nat /\ n <= m
  BY <1>1, <1>2, DivMonotone, DivFloor
<1>4. (a * b * p) \div NAD \in Nat /\ (a * b * q) \div NAD \in Nat
  BY <1>1, DivFloor
<1>5. /\ MulFits(a * b, p) => MulDiv(a, b, p, NAD) = (a * b * p) \div NAD
      /\ ~MulFits(a * b, p) => MulDiv(a, b, p, NAD) = n * b
      /\ MulFits(a * b, q) => MulDiv(a, b, q, NAD) = (a * b * q) \div NAD
      /\ ~MulFits(a * b, q) => MulDiv(a, b, q, NAD) = m * b
  BY DEF MulDiv
<1>6. n * b \in Nat /\ m * b \in Nat /\ n * b <= m * b
  <2> HIDE DEF n, m
  <2> QED
    BY <1>3, MulNat, MulMonotone
<1>7. CASE MulFits(a * b, q)
  <2>1. MulFits(a * b, p)
    BY <1>1, <1>7, MulFitsLess
  <2>2. a * b * p <= a * b * q
    <3> DEFINE k == a * b
    <3>1. k \in Nat
      BY <1>1
    <3> HIDE DEF k
    <3>2. p * k <= q * k
      BY <3>1, MulMonotone
    <3>3. k * p <= k * q
      BY <3>1, <3>2
    <3> QED
      BY <3>3 DEF k
  <2>3. (a * b * p) \div NAD <= (a * b * q) \div NAD
    BY <1>1, <2>2, DivMonotone
  <2> QED
    BY <1>4, <1>5, <1>7, <2>1, <2>3
<1>8. CASE ~MulFits(a * b, q) /\ ~MulFits(a * b, p)
  BY <1>5, <1>6, <1>8
<1>9. CASE ~MulFits(a * b, q) /\ MulFits(a * b, p)
  <2>1. a >= NAD /\ p # q
    BY <1>9
  <2>2. a * p + NAD <= a * q
    <3>1. p + 1 <= q
      BY <2>1
    <3>2. (p + 1) * a <= q * a
      BY <3>1, MulMonotone
    <3> QED
      BY <1>1, <2>1, <3>2
  <2>3. n + 1 <= m
    <3>1. NAD * n <= a * p
      BY <1>1, DivFloor
    <3>2. (n + 1) * NAD <= a * q
      <4> HIDE DEF n
      <4> QED
        BY <1>1, <1>3, <2>2, <3>1
    <3>3. m >= n + 1
      <4> HIDE DEF n
      <4> QED
        BY <1>1, <1>3, <3>2, DivAtLeast
    <3> QED
      BY <1>3, <3>3
  <2>4. (a * b * p) \div NAD <= (n + 1) * b
    <3>1. a * p < NAD * n + NAD
      BY <1>1, DivFloor
    <3> HIDE DEF n
    <3>2. a * p <= NAD * (n + 1)
      BY <1>1, <1>3, <3>1
    <3>3. (a * p) * b <= (NAD * (n + 1)) * b
      BY <1>1, <1>3, <3>2, MulMonotone
    <3>4. a * b * p = (a * p) * b /\ (NAD * (n + 1)) * b = ((n + 1) * b) * NAD
      BY <1>1, <1>3
    <3>5. (n + 1) * b \in Nat
      BY <1>3, MulNat
    <3>6. a * b * p < ((n + 1) * b) * NAD + NAD
      <4> DEFINE w == (n + 1) * b
      <4>1. w \in Nat /\ a * b * p <= w * NAD /\ w * NAD \in Nat
        BY <1>1, <3>3, <3>4, <3>5, MulNat
      <4> HIDE DEF w
      <4>2. a * b * p < w * NAD + NAD
        BY <1>1, <4>1
      <4> QED
        BY <4>2 DEF w
    <3> QED
      BY <1>1, <3>5, <3>6, DivAtMost
  <2>5. (n + 1) * b <= m * b
    <3> HIDE DEF n, m
    <3> QED
      BY <1>3, <2>3, MulMonotone
  <2>6. (n + 1) * b \in Nat
    <3> HIDE DEF n
    <3> QED
      BY <1>3, MulNat
  <2> QED
    BY <1>4, <1>5, <1>6, <1>9, <2>4, <2>5, <2>6
<1> QED
  BY <1>4, <1>5, <1>6, <1>7, <1>8, <1>9

\* the lower of the two prices moves the curve against the collateral
LEMMA VirtualReservesByPrice ==
  ASSUME NEW rc \in Nat, NEW rd \in Nat, NEW ema \in Nat, NEW dir \in Nat,
         dir = 0 => ema = 0,
         rd >= NAD \/ (MulFits(rd * rc, dir) => MulFits(rd * rc, ema))
  PROVE  LET low == VirtualReserves(rc, rd, ema, dir)
             sym == VirtualReserves(rc, rd, ema, ema)
         IN  sym.x \in Nat /\ sym.y \in Nat /\ sym.x <= low.x /\ low.y <= sym.y
<1>1. MIN_LIQUIDITY \in Nat
  BY MinLiquidityAssumption
<1> DEFINE p == Lesser(dir, ema)
           low == VirtualReserves(rc, rd, ema, dir)
           sym == VirtualReserves(rc, rd, ema, ema)
<1>2. p \in Nat /\ p <= ema /\ Lesser(ema, ema) = ema /\ (p = dir \/ p = ema)
      /\ (p = 0 <=> ema = 0)
  BY DEF Lesser
<1>3. CASE rc < MIN_LIQUIDITY \/ rd < MIN_LIQUIDITY
  <2>1. low = [x |-> 0, y |-> 0] /\ sym = [x |-> 0, y |-> 0]
    BY <1>3 DEF VirtualReserves
  <2> QED
    BY <2>1
<1>4. CASE ~(rc < MIN_LIQUIDITY \/ rd < MIN_LIQUIDITY) /\ ema = 0
  <2>1. low = [x |-> rc, y |-> rd] /\ sym = [x |-> rc, y |-> rd]
    BY <1>2, <1>4, Zenon DEF VirtualReserves
  <2> QED
    BY <2>1
<1>5. CASE ~(rc < MIN_LIQUIDITY \/ rd < MIN_LIQUIDITY) /\ ema # 0
  <2>1. /\ low.x = Sqrt(MulDiv(rc, rd, NAD, p)) /\ low.y = Sqrt(MulDiv(rd, rc, p, NAD))
        /\ sym.x = Sqrt(MulDiv(rc, rd, NAD, ema)) /\ sym.y = Sqrt(MulDiv(rd, rc, ema, NAD))
    <3>1. low = [x |-> Sqrt(MulDiv(rc, rd, NAD, p)), y |-> Sqrt(MulDiv(rd, rc, p, NAD))]
      BY <1>2, <1>5, Zenon DEF VirtualReserves
    <3>2. sym = [x |-> Sqrt(MulDiv(rc, rd, NAD, ema)), y |-> Sqrt(MulDiv(rd, rc, ema, NAD))]
      BY <1>2, <1>5, Zenon DEF VirtualReserves
    <3> HIDE DEF low, sym
    <3> QED
      BY <3>1, <3>2
  <2> HIDE DEF p, low, sym
  <2>2. rd >= NAD \/ (MulFits(rd * rc, p) => MulFits(rd * rc, ema))
    <3>1. CASE p = dir
      BY <3>1
    <3>2. CASE p = ema
      BY <3>2
    <3>3. p = dir \/ p = ema
      BY <1>2
    <3> QED
      BY <3>1, <3>2, <3>3
  <2>3. p \in Nat \ {0} /\ ema \in Nat \ {0} /\ p <= ema
    BY <1>2, <1>5
  <2>4. /\ MulDiv(rc, rd, NAD, p) \in Nat /\ MulDiv(rc, rd, NAD, ema) \in Nat
        /\ MulDiv(rc, rd, NAD, ema) <= MulDiv(rc, rd, NAD, p)
    BY <2>3, MulDivByPrice
  <2>5. /\ MulDiv(rd, rc, p, NAD) \in Nat /\ MulDiv(rd, rc, ema, NAD) \in Nat
        /\ MulDiv(rd, rc, p, NAD) <= MulDiv(rd, rc, ema, NAD)
    BY <2>2, <2>3, MulDivOfPrice
  <2>6. sym.x \in Nat /\ sym.x <= low.x
    BY <2>1, <2>4, SqrtIsFloor, SqrtMonotone
  <2>7. sym.y \in Nat /\ low.y <= sym.y
    BY <2>1, <2>5, SqrtIsFloor, SqrtMonotone
  <2> QED
    BY <2>6, <2>7 DEF low, sym
<1> QED
  BY <1>3, <1>4, <1>5

\* a curve with more collateral and less debt in it pays less
LEMMA AmountOutByCurve ==
  ASSUME NEW x \in Nat, NEW y \in Nat, NEW v \in Nat, NEW w \in Nat, NEW a \in Nat,
         a > 0, x <= v, w <= y
  PROVE  CalculateAmountOut(v, w, a) <= CalculateAmountOut(x, y, a)
<1>1. a * w \in Nat /\ a * y \in Nat /\ x + a \in Nat \ {0} /\ v + a \in Nat \ {0}
  BY MulNat
<1>2. a * w <= a * y
  <2>1. w * a <= y * a
    BY MulMonotone
  <2> QED
    BY <2>1
<1> DEFINE n == a * w
           m == a * y
           e == x + a
           g == v + a
<1>3. n \in Nat /\ m \in Nat /\ e \in Nat \ {0} /\ g \in Nat \ {0} /\ n <= m /\ e <= g
  BY <1>1, <1>2
<1>4. CalculateAmountOut(v, w, a) = n \div g /\ CalculateAmountOut(x, y, a) = m \div e
  BY DEF CalculateAmountOut
<1> HIDE DEF n, m, e, g
<1>5. n \div g <= n \div e /\ n \div e <= m \div e
  BY <1>3, DivAntitone, DivMonotone
<1>6. n \div g \in Nat /\ n \div e \in Nat /\ m \div e \in Nat
  BY <1>3, DivFloor
<1> QED
  BY <1>4, <1>5, <1>6

\* the collateral that liquidate values, it values at a natural number
LEMMA CollateralValueNat ==
  ASSUME NEW l \in [Token -> Ledger], NEW c \in Token, NEW amount \in Nat, amount > 0
  PROVE  /\ LiquidationReserves(l, c).x \in Nat /\ LiquidationReserves(l, c).y \in Nat
         /\ CollateralValue(l, c, amount) \in Nat
<1> DEFINE v == LiquidationReserves(l, c)
<1>1. l[c].reserve \in Nat /\ l[Other(c)].reserve \in Nat /\ l[c].symmetric \in Nat
  BY Tokens, NumbersU64 DEF Ledger
<1>2. EmaPrice(l[c]) \in Nat
  BY <1>1 DEF EmaPrice
<1>3. v.x \in Nat /\ v.y \in Nat
  BY <1>1, <1>2, VirtualReservesByPrice DEF LiquidationReserves
<1> HIDE DEF v
<1>4. CalculateAmountOut(v.x, v.y, amount) \in Nat
  <2>1. AmountOutOk(v.x, amount)
    BY <1>3 DEF AmountOutOk
  <2> QED
    BY <1>3, <2>1, AmountOutNat
<1> QED
  BY <1>3, <1>4 DEF CollateralValue, v

\* what collateral is worth at the lower price
LowValue(l, c, amount) ==
  CalculateAmountOut(LiquidationReservesLow(l, c).x, LiquidationReservesLow(l, c).y, amount)

\* At the lower of the two prices, collateral is worth no more than liquidate
\* says.
LEMMA LowerPriceLowerValue ==
  ASSUME NEW l \in [Token -> Ledger], NEW c \in Token, NEW amount \in Nat, amount > 0,
         LowerPriceCounts(l, c)
  PROVE  /\ LiquidationReservesLow(l, c) \in [x : U64, y : U64]
         /\ LowValue(l, c, amount) \in Nat /\ CollateralValue(l, c, amount) \in Nat
         /\ LowValue(l, c, amount) <= CollateralValue(l, c, amount)
<1> DEFINE rc  == l[c].reserve
           rd  == l[Other(c)].reserve
           ema == EmaPrice(l[c])
           dir == DirectionalEmaPrice(l[c])
           low == LiquidationReservesLow(l, c)
           sym == LiquidationReserves(l, c)
<1>1. 0 \in U64
  BY WidthAssumption DEF U64
<1>2. rc \in U64 /\ rd \in U64 /\ l[c].symmetric \in U64 /\ l[c].directional \in U64
  BY Tokens DEF Ledger
<1>3. ema \in U64 /\ dir \in U64
  BY <1>1, <1>2 DEF EmaPrice, DirectionalEmaPrice
<1>4. low = VirtualReserves(rc, rd, ema, dir) /\ sym = VirtualReserves(rc, rd, ema, ema)
  BY DEF LiquidationReservesLow, LiquidationReserves
<1>5. VirtualReservesOk(rc, rd, ema, dir) /\ (dir = 0 => ema = 0)
  BY DEF LowerPriceCounts
<1>6. rd >= NAD \/ (MulFits(rc * rd, dir) => MulFits(rc * rd, ema))
  BY DEF LowerPriceCounts, PriceStepCounts
<1>7. sym.x \in Nat /\ sym.y \in Nat
  BY CollateralValueNat
<1> HIDE DEF rc, rd, ema, dir
<1>8. low \in [x : U64, y : U64]
  BY <1>2, <1>3, <1>4, <1>5, VirtualReservesInU64
<1>9. sym.x <= low.x /\ low.y <= sym.y
  <2>1. rc \in Nat /\ rd \in Nat /\ ema \in Nat /\ dir \in Nat /\ rc * rd = rd * rc
    BY <1>2, <1>3, NumbersU64
  <2> HIDE DEF low, sym
  <2> QED
    BY <1>4, <1>5, <1>6, <2>1, VirtualReservesByPrice
<1> HIDE DEF low, sym
<1>10. low.x \in Nat /\ low.y \in Nat
  BY <1>8, NumbersU64
<1>11. CalculateAmountOut(low.x, low.y, amount) <= CalculateAmountOut(sym.x, sym.y, amount)
  BY <1>7, <1>9, <1>10, AmountOutByCurve
<1>12. /\ CalculateAmountOut(low.x, low.y, amount) \in Nat
       /\ CalculateAmountOut(sym.x, sym.y, amount) \in Nat
  <2>1. AmountOutOk(low.x, amount) /\ AmountOutOk(sym.x, amount)
    BY <1>7, <1>10 DEF AmountOutOk
  <2> QED
    BY <1>7, <1>10, <2>1, AmountOutNat
<1> QED
  BY <1>8, <1>11, <1>12 DEF low, sym, LowValue, CollateralValue

\* a part of less is no more
LEMMA BpsFloorMonotone ==
  ASSUME NEW v \in Nat, NEW w \in Nat, NEW cf \in Nat, NEW lcf \in Nat, v <= w, cf <= lcf
  PROVE  BpsFloor(v, cf) <= BpsFloor(w, lcf)
<1>1. v * cf <= w * cf
  BY MulMonotone
<1>2. cf * w <= lcf * w
  BY MulMonotone
<1>3. v * cf \in Nat /\ w * cf \in Nat /\ w * lcf \in Nat
  BY MulNat
<1>4. v * cf <= w * lcf
  BY <1>1, <1>2, <1>3
<1> QED
  BY <1>3, <1>4, BpsFacts, DivMonotone DEF BpsFloor

\* the borrow factor is at most the liquidation factor
LEMMA BufferedBelow ==
  ASSUME NEW cf \in Nat
  PROVE  MaxAllowedCf(cf) \in Nat /\ MaxAllowedCf(cf) <= cf
<1> DEFINE b == BPS_DENOMINATOR - LTV_BUFFER_BPS
<1>1. b \in Nat /\ b <= BPS_DENOMINATOR /\ BPS_DENOMINATOR \in Nat \ {0}
  BY BpsFacts DEF LTV_BUFFER_BPS
<1> HIDE DEF b
<1>2. b * cf <= BPS_DENOMINATOR * cf /\ cf * b \in Nat /\ cf * b = b * cf
  BY <1>1, MulMonotone, MulNat
<1>3. cf * b < cf * BPS_DENOMINATOR + BPS_DENOMINATOR
  <2>1. BPS_DENOMINATOR * cf = cf * BPS_DENOMINATOR /\ cf * BPS_DENOMINATOR \in Nat
    BY <1>1, MulNat
  <2> QED
    BY <1>1, <1>2, <2>1
<1>4. (cf * b) \div BPS_DENOMINATOR <= cf /\ (cf * b) \div BPS_DENOMINATOR \in Nat
  BY <1>1, <1>2, <1>3, DivAtMost, DivFloor
<1> QED
  BY <1>4 DEF MaxAllowedCf, b

\* a part is no more than the whole
LEMMA BpsFloorAtMost ==
  ASSUME NEW w \in Nat, NEW cf \in Nat, cf <= BPS_DENOMINATOR
  PROVE  BpsFloor(w, cf) <= w
<1>1. cf * w <= BPS_DENOMINATOR * w /\ w * cf \in Nat /\ BPS_DENOMINATOR * w \in Nat
  BY BpsFacts, MulMonotone, MulNat
<1>2. w * cf < w * BPS_DENOMINATOR + BPS_DENOMINATOR
  BY <1>1, BpsFacts
<1> QED
  BY <1>1, <1>2, BpsFacts, DivAtMost DEF BpsFloor

\* what collateral may borrow is below its part that liquidate allows, and so
\* below its worth
LEMMA LimitBelow ==
  ASSUME NEW l \in [Token -> Ledger], NEW c \in Token, NEW amount \in U64, amount > 0,
         MaxDebtForCollateral(l, c, amount).ok, PriceStepCounts(l, c)
  PROVE  LET max   == MaxDebtForCollateral(l, c, amount)
             value == CollateralValue(l, c, amount)
         IN  /\ max.limit \in Nat /\ max.cf \in Nat /\ value \in Nat
             /\ max.limit <= BpsFloor(value, MaxAllowedCf(max.cf))
             /\ max.limit <= BpsFloor(value, max.cf)
             /\ max.limit <= value
<1> DEFINE ema  == EmaPrice(l[c])
           dir  == DirectionalEmaPrice(l[c])
           rc   == l[c].reserve
           rd   == l[Other(c)].reserve
           debt == l[Other(c)].total_debt
           max  == MaxDebtForCollateral(l, c, amount)
           low  == LiquidationReservesLow(l, c)
           value == CollateralValue(l, c, amount)
<1>1. amount \in Nat
  BY NumbersU64
<1>2. 0 \in U64
  BY WidthAssumption DEF U64
<1>3. /\ rc \in U64 /\ rd \in U64 /\ debt \in U64
      /\ l[c].symmetric \in U64 /\ l[c].directional \in U64
  BY Tokens DEF Ledger
<1>4. ema \in U64 /\ dir \in U64
  BY <1>2, <1>3 DEF EmaPrice, DirectionalEmaPrice
<1>5. max = MaxDebt(amount, ema, dir, rc, rd, debt)
  BY DEF MaxDebtForCollateral
<1>6. value \in Nat
  BY <1>1, CollateralValueNat
<1>7. low = VirtualReserves(rc, rd, ema, dir)
  BY DEF LiquidationReservesLow
<1>8. PriceStepCounts(l, c) /\ LowerPriceCounts(l, c)
        <=> /\ PriceStepCounts(l, c)
            /\ dir = 0 => ema = 0
            /\ VirtualReservesOk(rc, rd, ema, dir)
  BY DEF LowerPriceCounts
<1>9. max.ok
  OBVIOUS
<1> HIDE DEF ema, dir, rc, rd, debt, max, low, value
<1>10. max.limit \in U64 /\ max.cf \in 0 .. BPS_DENOMINATOR
  BY <1>1, <1>3, <1>4, <1>5, MaxDebtRange
<1>11. max.limit \in Nat /\ max.cf \in Nat
  BY <1>10, NumbersU64, BpsFacts
<1>12. ASSUME max = NoDebtAllowed
       PROVE  max.limit <= BpsFloor(value, MaxAllowedCf(max.cf))
  <2>1. max.limit = 0 /\ max.cf = 0
    BY <1>12 DEF NoDebtAllowed
  <2>2. BpsFloor(value, MaxAllowedCf(max.cf)) \in Nat
    BY <1>6, <1>11, BufferedBelow, BpsFloorNat
  <2> QED
    BY <2>1, <2>2
<1>13. ASSUME max # NoDebtAllowed
       PROVE  max.limit <= BpsFloor(value, MaxAllowedCf(max.cf))
  <2>1. max # MathError
    BY <1>9 DEF MathError
  <2>2. ~(amount = 0 \/ ema = 0 \/ dir = 0) /\ VirtualReservesOk(rc, rd, ema, dir)
    <3>1. amount = 0 \/ ema = 0 \/ dir = 0 => max = NoDebtAllowed
      BY <1>5, Zenon DEF MaxDebt
    <3>2. ~(amount = 0 \/ ema = 0 \/ dir = 0) /\ ~VirtualReservesOk(rc, rd, ema, dir)
            => max = MathError
      BY <1>5, Zenon DEF MaxDebt
    <3> QED
      BY <1>13, <2>1, <3>1, <3>2
  <2> DEFINE worth == CalculateAmountOut(low.x, low.y, amount)
             cf    == LiquidationCf(low, worth, amount, ema, dir, debt)
             limit == Lesser((worth * MaxAllowedCf(cf)) \div BPS_DENOMINATOR, MaxU64)
  <2>3. max = [ok |-> TRUE, limit |-> limit, cf |-> cf]
    <3>1. ~(amount = 0 \/ ema = 0 \/ dir = 0) /\ VirtualReservesOk(rc, rd, ema, dir)
            => \/ max = NoDebtAllowed
               \/ max = MathError
               \/ max = [ok |-> TRUE, limit |-> limit, cf |-> cf]
      BY <1>5, <1>7, Zenon DEF MaxDebt
    <3> QED
      BY <1>13, <2>1, <2>2, <3>1
  <2>4. LowerPriceCounts(l, c)
    BY <1>8, <2>2
  <2>5. worth \in Nat /\ worth <= value
    BY <1>1, <2>4, LowerPriceLowerValue DEF LowValue, low, value
  <2> HIDE DEF worth, cf
  <2>6. max.cf = cf /\ max.limit = limit
    BY <2>3
  <2>7. MaxAllowedCf(cf) \in Nat /\ MaxAllowedCf(cf) <= cf /\ cf \in Nat
    BY <1>11, <2>6, BufferedBelow
  <2>8. BpsFloor(worth, MaxAllowedCf(cf)) <= BpsFloor(value, MaxAllowedCf(cf))
    BY <1>6, <2>5, <2>7, BpsFloorMonotone
  <2>9. limit <= BpsFloor(worth, MaxAllowedCf(cf))
    <3>1. BpsFloor(worth, MaxAllowedCf(cf)) \in Nat
      BY <2>5, <2>7, BpsFloorNat
    <3> DEFINE part == BpsFloor(worth, MaxAllowedCf(cf))
    <3>2. limit = Lesser(part, MaxU64)
      BY DEF BpsFloor
    <3> HIDE DEF part, limit
    <3> QED
      BY <3>1, <3>2, WidthAssumption, LesserRange DEF part
  <2> HIDE DEF limit
  <2>10. BpsFloor(worth, MaxAllowedCf(cf)) \in Nat /\ BpsFloor(value, MaxAllowedCf(cf)) \in Nat
    BY <1>6, <2>5, <2>7, BpsFloorNat
  <2> QED
    BY <1>11, <2>6, <2>8, <2>9, <2>10
<1>14. /\ max.limit <= BpsFloor(value, MaxAllowedCf(max.cf))
       /\ max.limit <= BpsFloor(value, max.cf)
  <2>1. max.limit <= BpsFloor(value, MaxAllowedCf(max.cf))
    BY <1>12, <1>13
  <2>2. MaxAllowedCf(max.cf) \in Nat /\ MaxAllowedCf(max.cf) <= max.cf
    BY <1>11, BufferedBelow
  <2>3. BpsFloor(value, MaxAllowedCf(max.cf)) <= BpsFloor(value, max.cf)
    BY <1>6, <1>11, <2>2, BpsFloorMonotone
  <2>4. BpsFloor(value, MaxAllowedCf(max.cf)) \in Nat /\ BpsFloor(value, max.cf) \in Nat
    BY <1>6, <1>11, <2>2, BpsFloorNat
  <2> HIDE DEF max
  <2> QED
    BY <1>11, <2>1, <2>3, <2>4
<1>15. BpsFloor(value, max.cf) <= value /\ BpsFloor(value, max.cf) \in Nat
  <2>1. max.cf <= BPS_DENOMINATOR
    BY <1>10, BpsFacts
  <2> QED
    BY <1>6, <1>11, <2>1, BpsFloorAtMost, BpsFloorNat
<1>16. max.limit <= value
  BY <1>6, <1>11, <1>14, <1>15
<1> QED
  BY <1>6, <1>11, <1>14, <1>16 DEF max, value

----------------------------------------------------------------------------
(* What trading does to the value of collateral.  The symmetric price stays *)
(* within a slot, and k does not fall.                                      *)

\* an instruction leaves the symmetric price to the next update
SymmetricKept(l) == \A t \in Token : ledger'[t].symmetric = l[t].symmetric

LEMMA InstructionsKeepSymmetric ==
  ASSUME NEW l \in [Token -> Ledger], NEW u \in Users,
         PoolInstruction(l) \/ LendingInstruction(u, l),
         ~ \E c \in Token : Liquidate(u, c, l)
  PROVE  SymmetricKept(l)
\* what each does to a ledger
<1>1. ASSUME NEW k \in Ledger, NEW amount, NEW shares
      PROVE  /\ Credit(k, amount).symmetric = k.symmetric
             /\ Debit(k, amount).symmetric = k.symmetric
             /\ EarnFee(k, amount).symmetric = k.symmetric
             /\ IncreaseDebt(k, shares, amount).symmetric = k.symmetric
             /\ Repayment(k, shares, amount).symmetric = k.symmetric
             /\ [k EXCEPT !.total_collateral = amount].symmetric = k.symmetric
  <2>1. Credit(k, amount).symmetric = k.symmetric
    BY Zenon DEF Credit, Ledger
  <2>2. Debit(k, amount).symmetric = k.symmetric
    BY Zenon DEF Debit, Ledger
  <2>3. EarnFee(k, amount).symmetric = k.symmetric
    BY Zenon DEF EarnFee, Ledger
  <2>4. IncreaseDebt(k, shares, amount).symmetric = k.symmetric
    BY Zenon DEF IncreaseDebt, Ledger
  <2>5. Repayment(k, shares, amount).symmetric = k.symmetric
    BY Zenon DEF Repayment, SyncEmpty, Ledger
  <2>6. [k EXCEPT !.total_collateral = amount].symmetric = k.symmetric
    BY Zenon DEF Ledger
  <2> QED
    BY <2>1, <2>2, <2>3, <2>4, <2>5, <2>6
<1>2. CASE \E t \in Token : \E amount \in Inputs.swap[t] : Swap(t, amount, l)
  <2>1. PICK t \in Token : \E in, out :
          ledger' = [l EXCEPT ![t] = Credit(@, in), ![Other(t)] = Debit(@, out)]
    BY <1>2 DEF Swap, CommitPair
  <2>2. PICK in, out : ledger' = [l EXCEPT ![t] = Credit(@, in), ![Other(t)] = Debit(@, out)]
    BY <2>1
  <2>3. /\ ledger'[t] = Credit(l[t], in) /\ ledger'[Other(t)] = Debit(l[Other(t)], out)
        /\ \A s \in Token : s = t \/ s = Other(t)
    BY <2>2, Tokens
  <2> QED
    BY <1>1, <2>3, Tokens DEF SymmetricKept
<1>3. CASE \E a \in Inputs.liquidity : AddLiquidity(a, l)
  <2>1. PICK used : ledger' = [t \in Token |-> Credit(l[t], used[t])]
    BY <1>3 DEF AddLiquidity, CommitPair
  <2> QED
    BY <1>1, <2>1 DEF SymmetricKept
<1>4. CASE \E liquidity \in Inputs.burn : RemoveLiquidity(liquidity, l)
  <2>1. PICK out : ledger' = [t \in Token |-> Debit(l[t], out[t])]
    BY <1>4 DEF RemoveLiquidity, CommitPair
  <2> QED
    BY <1>1, <2>1 DEF SymmetricKept
<1>5. CASE \E a \in Inputs.flash : Flashloan(a, l)
  <2>1. PICK fee : ledger' = [t \in Token |-> EarnFee(l[t], fee[t])]
    BY <1>5 DEF Flashloan, CommitPair
  <2> QED
    BY <1>1, <2>1 DEF SymmetricKept
<1>6. CASE ClaimProtocolFees(l)
  BY <1>6 DEF ClaimProtocolFees, CommitPair, SymmetricKept
<1>7. CASE \E c \in Token : \E amount \in Inputs.collateral[c] : AddCollateral(u, c, amount, l)
  <2>1. PICK c, total : ledger' = [l EXCEPT ![c].total_collateral = total]
    BY <1>7 DEF AddCollateral, CommitPair
  <2> QED
    BY <1>1, <2>1 DEF SymmetricKept
<1>8. CASE \E c \in Token : \E amount \in Inputs.withdraw[c] : RemoveCollateral(u, c, amount, l)
  <2>1. PICK c, total : ledger' = [l EXCEPT ![c].total_collateral = total]
    BY <1>8 DEF RemoveCollateral, CommitPair
  <2> QED
    BY <1>1, <2>1 DEF SymmetricKept
<1>9. CASE \E d \in Token : \E amount \in Inputs.debt[d] : Borrow(u, d, amount, l)
  <2>1. PICK d \in Token : \E amount \in Inputs.debt[d] : Borrow(u, d, amount, l)
    BY <1>9
  <2>2. PICK shares, borrow : ledger' = [l EXCEPT ![d] = IncreaseDebt(@, shares, borrow)]
    BY <2>1 DEF Borrow, CommitPair
  <2> QED
    BY <1>1, <2>2 DEF SymmetricKept
<1>10. CASE \E d \in Token : \E amount \in Inputs.debt[d] : Repay(u, d, amount, l)
  <2>1. PICK d \in Token : \E amount \in Inputs.debt[d] : Repay(u, d, amount, l)
    BY <1>10
  <2>2. PICK shares, repaid : ledger' = [l EXCEPT ![d] = Repayment(@, shares, repaid)]
    BY <2>1 DEF Repay, CommitPair
  <2> QED
    BY <1>1, <2>2 DEF SymmetricKept
<1> QED
  BY <1>2, <1>3, <1>4, <1>5, <1>6, <1>7, <1>8, <1>9, <1>10
    DEF PoolInstruction, LendingInstruction

\* within a slot update leaves it, too
LEMMA UpdateKeepsSymmetric ==
  ASSUME Sound(ledger), last_update = slot, Clock, NEW l \in UpdatedPairs, NEW d \in Token
  PROVE  l[d].symmetric = ledger[d].symmetric
<1>1. PICK ig \in Accruals : l = Update(ig)
  BY DEF UpdatedPairs
<1>2. ElapsedMs = 0
  <2>1. slot \in Nat /\ TARGET_MS_PER_SLOT \in Nat
    BY ScaleAssumption, MaxSlotAssumption DEF Clock
  <2> QED
    BY <2>1 DEF ElapsedMs, SlotsToMs
<1>3. ledger \in [Token -> Ledger]
  BY DEF Sound, SoundPair
<1>4. l[d] = Updated(d, ig)
  BY <1>1, <1>3, Tokens DEF Update, Token
<1>5. PICK lowered : l[d] = [ledger[d] EXCEPT !.directional = lowered]
  BY <1>2, <1>4 DEF Updated, UpdateToken, UpdatePrices
<1> QED
  BY <1>3, <1>5 DEF Ledger

\* k where no LP has left
LEMMA ProductKept ==
  ASSUME PairInv, PairInv', LpValueKept(ledger), total_supply' >= total_supply
  PROVE  /\ ProductOfReserves(ledger) \in Nat /\ ProductOfReserves(ledger') \in Nat
         /\ ProductOfReserves(ledger) <= ProductOfReserves(ledger')
<1> DEFINE k == ProductOfReserves(ledger)
           n == ProductOfReserves(ledger')
           s == total_supply
           z == total_supply'
<1>1. k \in Nat /\ n \in Nat
  <2>1. \A t \in Token : ledger[t].reserve \in Nat /\ ledger'[t].reserve \in Nat
    BY LedgerFields DEF PairInv, Sound, SoundPair
  <2> QED
    BY <2>1, Tokens, MulNat DEF ProductOfReserves
<1>2. s \in Nat \ {0} /\ z \in Nat /\ s <= z
  <2>1. /\ total_supply = MIN_LIQUIDITY + lp_supply /\ lp_supply \in Nat
        /\ total_supply' \in Nat
    BY NumbersU64 DEF PairInv, Supplies
  <2> QED
    BY <2>1, MinLiquidityAssumption
<1>3. k * z * z <= n * s * s
  BY DEF LpValueKept
<1> HIDE DEF k, n, s, z
<1>4. k * (s * s) <= n * (s * s)
  <2>1. s * s <= z * s /\ z * s = s * z /\ s * z <= z * z /\ s * s \in Nat /\ z * z \in Nat /\ s * z \in Nat
    BY <1>2, MulMonotone, MulNat
  <2>2. (s * s) * k <= (z * z) * k
    BY <1>1, <2>1, MulMonotone
  <2>3. (s * s) * k = k * (s * s) /\ (z * z) * k = k * z * z /\ n * s * s = n * (s * s)
    BY <1>1, <1>2
  <2>4. k * (s * s) \in Nat /\ k * z * z \in Nat /\ n * (s * s) \in Nat
    BY <1>1, <1>2, <2>1, MulNat
  <2> QED
    BY <1>3, <2>2, <2>3, <2>4
<1>5. k <= n
  <2> SUFFICES ASSUME n < k PROVE FALSE
    BY <1>1
  <2>1. (n + 1) * (s * s) <= k * (s * s)
    BY <1>1, <1>2, MulNat, MulMonotone
  <2>2. s * s \in Nat \ {0}
    BY <1>2
  <2>3. (n + 1) * (s * s) = n * (s * s) + s * s /\ n * (s * s) \in Nat /\ k * (s * s) \in Nat
    BY <1>1, <2>2, MulNat
  <2> QED
    BY <1>4, <2>1, <2>2, <2>3
<1> QED
  BY <1>1, <1>5 DEF k, n
\* A virtual reserve squared, times its divisor, is at most the product; a unit
\* and what dividing first costs more, and it is above.
LEMMA RootBounds ==
  ASSUME NEW a \in Nat \ {0}, NEW b \in Nat \ {0}, NEW num \in Nat \ {0}, NEW den \in Nat \ {0}
  PROVE  LET x == Sqrt(MulDiv(a, b, num, den))
             e == 1 + DividedFirst(a, b, num, den)
         IN  /\ x \in Nat /\ DividedFirst(a, b, num, den) \in Nat
             /\ x * x * den <= a * b * num
             /\ a * b * num < (x + e) * (x + e) * den
<1> DEFINE A == MulDiv(a, b, num, den)
           x == Sqrt(A)
           n == a * b * num
           m == a * num
           q == m \div den
           d == DividedFirst(a, b, num, den)
           e == 1 + d
<1>1. a * b \in Nat /\ n \in Nat /\ m \in Nat /\ n = b * m
  BY MulNat
<1>2. q \in Nat /\ den * q <= m /\ m < den * q + den
  BY <1>1, DivFloor
<1>3. CASE MulFits(a * b, num)
  <2>1. A = n \div den /\ d = 0
    BY <1>3 DEF MulDiv, DividedFirst
  <2>2. A \in Nat /\ den * A <= n /\ n < den * A + den
    <3> HIDE DEF n, A
    <3> QED
      BY <1>1, <2>1, DivFloor
  <2> HIDE DEF n
  <2> HIDE DEF A, d
  <2>3. x \in Nat /\ x * x <= A /\ A + 1 <= (x + 1) * (x + 1)
    <3>1. x \in Nat /\ x * x <= A /\ A < (x + 1) * (x + 1)
      BY <2>2, SqrtIsFloor
    <3> HIDE DEF x
    <3>2. (x + 1) * (x + 1) \in Nat
      BY <3>1, MulNat
    <3> QED
      BY <2>2, <3>1, <3>2
  <2> HIDE DEF x
  <2>4. (x * x) * den <= A * den /\ (A + 1) * den <= ((x + 1) * (x + 1)) * den
    <3>1. x * x \in Nat /\ (x + 1) * (x + 1) \in Nat
      BY <2>3, MulNat
    <3> QED
      BY <2>2, <2>3, <3>1, MulMonotone
  <2>5. A * den = den * A /\ (A + 1) * den = den * A + den /\ A * den \in Nat
    BY <2>2, MulNat
  <2>6. e = 1
    BY <2>1
  <2> HIDE DEF e
  <2>7. x * x * den \in Nat /\ (x + 1) * (x + 1) * den \in Nat
    BY <2>3, MulNat
  <2>8. x * x * den <= n /\ n < (x + 1) * (x + 1) * den
    BY <1>1, <2>2, <2>4, <2>5, <2>7
  <2> QED
    BY <2>1, <2>3, <2>6, <2>8 DEF n, x, A, e, d
<1>4. CASE ~MulFits(a * b, num)
  <2>1. A = q * b /\ d = CeilDiv(b, x + 1)
    BY <1>4 DEF MulDiv, DividedFirst
  <2> HIDE DEF n, m, q
  <2>2. A \in Nat
    BY <1>2, <2>1, MulNat
  <2>3. A * den <= n /\ n < (A + b) * den
    <3>1. (den * q) * b <= m * b /\ (m + 1) * b <= (den * q + den) * b
      <4>1. den * q \in Nat
        BY <1>2, MulNat
      <4> QED
        BY <1>1, <1>2, <4>1, MulMonotone
    <3>2. (den * q) * b = (q * b) * den /\ (den * q + den) * b = (q * b + b) * den
      BY <1>2
    <3>3. m * b = n /\ (m + 1) * b = n + b
      BY <1>1
    <3>4. A * den \in Nat /\ (A + b) * den \in Nat
      BY <2>2, MulNat
    <3> QED
      BY <1>1, <2>1, <3>1, <3>2, <3>3, <3>4
  <2> HIDE DEF A, d
  <2>4. x \in Nat /\ x * x <= A /\ A + 1 <= (x + 1) * (x + 1)
    <3>1. x \in Nat /\ x * x <= A /\ A < (x + 1) * (x + 1)
      BY <2>2, SqrtIsFloor
    <3> HIDE DEF x
    <3>2. (x + 1) * (x + 1) \in Nat
      BY <3>1, MulNat
    <3> QED
      BY <2>2, <3>1, <3>2
  <2> HIDE DEF x
  <2>5. d \in Nat /\ d * (x + 1) >= b
    <3>1. x + 1 \in Nat \ {0}
      BY <2>4
    <3>2. CeilDiv(b, x + 1) \in Nat /\ CeilDiv(b, x + 1) * (x + 1) >= b
      BY <3>1, CeilDivNat, CeilDivAtLeast
    <3> QED
      BY <2>1, <3>2
  <2>6. A + b <= (x + e) * (x + e)
    <3>1. (x + e) * (x + e) = (x + 1) * (x + 1) + 2 * (d * (x + 1)) + d * d
      BY <2>4, <2>5
    <3>2. d * d \in Nat /\ d * (x + 1) \in Nat /\ (x + 1) * (x + 1) \in Nat
      BY <2>4, <2>5, MulNat
    <3> HIDE DEF e
    <3> QED
      BY <2>2, <2>4, <2>5, <3>1, <3>2
  <2>7. e \in Nat \ {0}
    BY <2>5
  <2> HIDE DEF e
  <2>8. (x * x) * den <= A * den /\ (A + b) * den <= ((x + e) * (x + e)) * den
    <3>1. x * x \in Nat /\ (x + e) * (x + e) \in Nat /\ A + b \in Nat
      BY <2>2, <2>4, <2>7, MulNat
    <3> QED
      BY <2>2, <2>4, <2>6, <3>1, MulMonotone
  <2>9. x * x * den \in Nat /\ (x + e) * (x + e) * den \in Nat /\ A * den \in Nat /\ (A + b) * den \in Nat
    BY <2>2, <2>4, <2>7, MulNat
  <2>10. x * x * den <= n /\ n < (x + e) * (x + e) * den
    BY <1>1, <2>3, <2>8, <2>9
  <2> QED
    BY <2>4, <2>5, <2>10 DEF n, x, A, e, d
<1> QED
  BY <1>3, <1>4

\* The reserves of the curve at a price p in units of NAD: what the debt's is
\* worth in the collateral's, with the roundings.
LEMMA ReservesByPrice ==
  ASSUME NEW k \in Nat \ {0}, NEW n \in Nat \ {0}, NEW p \in Nat \ {0},
         NEW x \in Nat, NEW y \in Nat, NEW e \in Nat \ {0}, NEW f \in Nat \ {0},
         x * x * p <= k * n, k * n < (x + e) * (x + e) * p,
         y * y * n <= k * p, k * p < (y + f) * (y + f) * n
  PROVE  y * n < p * (x + e) /\ x * p < n * (y + f)
<1>1. y * n < p * (x + e)
  <2> DEFINE g == x + e
  <2>1. g \in Nat
    OBVIOUS
  <2>2. (y * y * n) * n <= (k * p) * n /\ (k * n) * p < (g * g * p) * p
    <3>1. y * y * n \in Nat /\ k * p \in Nat /\ k * n \in Nat /\ g * g * p \in Nat
      BY <2>1, MulNat
    <3>2. (k * n + 1) * p <= (g * g * p) * p
      BY <3>1, MulMonotone
    <3>3. (k * n + 1) * p = (k * n) * p + p
      BY <3>1
    <3>4. (k * n) * p \in Nat /\ (g * g * p) * p \in Nat
      BY <3>1, MulNat
    <3> HIDE DEF g
    <3> QED
      BY <3>1, <3>2, <3>3, <3>4, MulMonotone
  <2> HIDE DEF g
  <2>3. (y * n) * (y * n) = (y * y * n) * n /\ (p * g) * (p * g) = (g * g * p) * p
        /\ (k * p) * n = (k * n) * p
    BY <2>1
  <2>4. y * n \in Nat /\ p * g \in Nat
    BY <2>1, MulNat
  <2>5. (y * n) * (y * n) \in Nat /\ (p * g) * (p * g) \in Nat /\ (k * n) * p \in Nat
    BY <2>4, MulNat
  <2>6. (y * n) * (y * n) < (p * g) * (p * g)
    BY <2>2, <2>3, <2>5
  <2> QED
    BY <2>4, <2>6, RootsInOrder DEF g
<1>2. x * p < n * (y + f)
  <2> DEFINE g == y + f
  <2>1. g \in Nat
    OBVIOUS
  <2>2. (x * x * p) * p <= (k * n) * p /\ (k * p) * n < (g * g * n) * n
    <3>1. x * x * p \in Nat /\ k * p \in Nat /\ k * n \in Nat /\ g * g * n \in Nat
      BY <2>1, MulNat
    <3>2. (k * p + 1) * n <= (g * g * n) * n
      BY <3>1, MulMonotone
    <3>3. (k * p + 1) * n = (k * p) * n + n
      BY <3>1
    <3>4. (k * p) * n \in Nat /\ (g * g * n) * n \in Nat
      BY <3>1, MulNat
    <3> HIDE DEF g
    <3> QED
      BY <3>1, <3>2, <3>3, <3>4, MulMonotone
  <2> HIDE DEF g
  <2>3. (x * p) * (x * p) = (x * x * p) * p /\ (n * g) * (n * g) = (g * g * n) * n
        /\ (k * n) * p = (k * p) * n
    BY <2>1
  <2>4. x * p \in Nat /\ n * g \in Nat
    BY <2>1, MulNat
  <2>5. (x * p) * (x * p) \in Nat /\ (n * g) * (n * g) \in Nat /\ (k * p) * n \in Nat
    BY <2>4, MulNat
  <2>6. (x * p) * (x * p) < (n * g) * (n * g)
    BY <2>2, <2>3, <2>5
  <2> QED
    BY <2>4, <2>6, RootsInOrder DEF g
<1> QED
  BY <1>1, <1>2

\* More liquidity at the same price: what an amount is worth is less by the
\* roundings at most.
LEMMA ValueWithMoreLiquidity ==
  ASSUME NEW n \in Nat \ {0}, NEW p \in Nat \ {0}, NEW a \in Nat \ {0},
         NEW x \in Nat, NEW y \in Nat, NEW e \in Nat \ {0},
         NEW v \in Nat, NEW w \in Nat, NEW f \in Nat \ {0}, NEW d \in Nat,
         y * n < p * (x + e), v * p < n * (w + f), x <= v + d
  PROVE  CalculateAmountOut(x, y, a)
           <= CalculateAmountOut(v, w, a) + CeilDiv(a * (n * f + p * (e + d)), n * (x + a))
<1> DEFINE out  == CalculateAmountOut(x, y, a)
           next == CalculateAmountOut(v, w, a)
           loss == a * (n * f + p * (e + d))
           base == n * (x + a)
           s    == CeilDiv(loss, base)
<1>1. /\ out \in Nat /\ (x + a) * out <= a * y
      /\ next \in Nat /\ a * w < (v + a) * next + (v + a)
  <2>1. a * y \in Nat /\ a * w \in Nat /\ x + a \in Nat \ {0} /\ v + a \in Nat \ {0}
    BY MulNat
  <2> QED
    BY <2>1, DivFloor DEF CalculateAmountOut
<1> HIDE DEF out, next
<1>2. base \in Nat \ {0} /\ loss \in Nat
  <2>1. n * f \in Nat /\ p * (e + d) \in Nat
    BY MulNat
  <2>2. x + a \in Nat \ {0}
    OBVIOUS
  <2> QED
    BY <2>1, <2>2, MulNat
<1>3. s \in Nat /\ s * base >= loss
  BY <1>2, CeilDivNat, CeilDivAtLeast
<1>4. (x + a) * (n * out) <= (a * p) * (x + e)
  <2>1. n * ((x + a) * out) <= n * (a * y) /\ a * (y * n) <= a * (p * (x + e))
    <3>1. (x + a) * out \in Nat /\ a * y \in Nat /\ y * n \in Nat /\ p * (x + e) \in Nat
      BY <1>1, MulNat
    <3>2. ((x + a) * out) * n <= (a * y) * n /\ (y * n) * a <= (p * (x + e)) * a
      BY <1>1, <3>1, MulMonotone
    <3>3. /\ ((x + a) * out) * n = n * ((x + a) * out) /\ (a * y) * n = n * (a * y)
          /\ (y * n) * a = a * (y * n) /\ (p * (x + e)) * a = a * (p * (x + e))
      BY <3>1
    <3> QED
      BY <3>2, <3>3
  <2>2. n * (a * y) = a * (y * n) /\ n * ((x + a) * out) = (x + a) * (n * out)
        /\ a * (p * (x + e)) = (a * p) * (x + e)
    BY <1>1
  <2>3. a * (y * n) \in Nat /\ (x + a) * (n * out) \in Nat /\ (a * p) * (x + e) \in Nat
    BY <1>1, MulNat
  <2> QED
    BY <2>1, <2>2, <2>3
\* n * (next + 1), and the price of the whole amount
<1> DEFINE t == n * (next + 1)
           b == a * p
           h == a * (n * f)
<1>5. t \in Nat \ {0} /\ b \in Nat \ {0} /\ h \in Nat
  BY <1>1, MulNat
<1>6. b * v < t * (v + a) + h
  <2>1. a * (v * p) + a <= a * (n * (w + f))
    <3>1. v * p \in Nat /\ n * (w + f) \in Nat
      BY MulNat
    <3>2. (v * p + 1) * a <= (n * (w + f)) * a
      BY <3>1, MulMonotone
    <3>3. (v * p + 1) * a = a * (v * p) + a /\ (n * (w + f)) * a = a * (n * (w + f))
      BY <3>1
    <3> QED
      BY <3>2, <3>3
  <2>2. n * (a * w) <= n * ((v + a) * (next + 1))
    <3>1. a * w \in Nat /\ (v + a) * (next + 1) \in Nat
      BY <1>1, MulNat
    <3>2. (v + a) * (next + 1) = (v + a) * next + (v + a) /\ (v + a) * next \in Nat
      BY <1>1, MulNat
    <3>3. a * w <= (v + a) * (next + 1)
      BY <1>1, <3>1, <3>2
    <3>4. (a * w) * n <= ((v + a) * (next + 1)) * n
      BY <3>1, <3>3, MulMonotone
    <3>5. (a * w) * n = n * (a * w) /\ ((v + a) * (next + 1)) * n = n * ((v + a) * (next + 1))
      BY <3>1
    <3> QED
      BY <3>4, <3>5
  <2>3. a * (v * p) = b * v /\ a * (n * (w + f)) = n * (a * w) + h
        /\ n * ((v + a) * (next + 1)) = t * (v + a)
    BY <1>1
  <2>4. b * v \in Nat /\ n * (a * w) \in Nat /\ t * (v + a) \in Nat
    BY <1>1, <1>5, MulNat
  <2> HIDE DEF t, b, h
  <2> QED
    BY <1>5, <2>1, <2>2, <2>3, <2>4
<1>7. loss = h + b * e + b * d
  OBVIOUS
<1>8. base * out = (x + a) * (n * out) /\ base * (next + 1) = t * (x + a)
  BY <1>1
<1> HIDE DEF t, b, h, base, loss, s
<1>9. b * x < t * (x + a) + h + b * d
  <2>1. CASE t >= b
    <3>1. b * (x + a) <= t * (x + a)
      BY <1>5, <2>1, MulMonotone
    <3>2. b * (x + a) = b * x + b * a /\ b * x \in Nat /\ b * d \in Nat /\ t * (x + a) \in Nat
          /\ b * a \in Nat \ {0}
      BY <1>5, MulNat
    <3> QED
      BY <1>5, <3>1, <3>2
  <2>2. CASE t < b
    <3> DEFINE g == v + d - x
    <3>1. g \in Nat /\ x + g = v + d
      OBVIOUS
    <3> HIDE DEF g
    <3>2. t * g <= b * g
      BY <1>5, <2>2, <3>1, MulMonotone
    <3>3. t * (v + a) + t * d = t * (x + a) + t * g /\ b * v + b * d = b * x + b * g
      <4>1. v + a + d = x + a + g
        BY <3>1
      <4>2. t * (v + a + d) = t * (x + a + g) /\ b * (v + d) = b * (x + g)
        BY <3>1, <4>1
      <4>3. t * (v + a + d) = t * (v + a) + t * d /\ t * (x + a + g) = t * (x + a) + t * g
            /\ b * (v + d) = b * v + b * d /\ b * (x + g) = b * x + b * g
        BY <1>5, <3>1
      <4> QED
        BY <4>2, <4>3
    <3>4. /\ t * (v + a) \in Nat /\ t * d \in Nat /\ t * (x + a) \in Nat /\ t * g \in Nat
          /\ b * v \in Nat /\ b * d \in Nat /\ b * x \in Nat /\ b * g \in Nat
      BY <1>5, <3>1, MulNat
    <3> QED
      BY <1>5, <1>6, <3>2, <3>3, <3>4
  <2> QED
    BY <1>5, <2>1, <2>2
<1>10. (b * e) \in Nat /\ b * x \in Nat /\ b * d \in Nat /\ t * (x + a) \in Nat
       /\ b * (x + e) = b * x + b * e
  BY <1>5, MulNat
<1>11. base * out < base * (next + 1) + loss
  <2>1. base * out <= b * (x + e)
    BY <1>4, <1>8 DEF b
  <2>2. base * out \in Nat
    BY <1>1, <1>2, MulNat
  <2> QED
    BY <1>5, <1>7, <1>8, <1>9, <1>10, <2>1, <2>2
<1>12. out * base < (next + 1 + s) * base
  <2>1. (next + 1 + s) * base = base * (next + 1) + s * base /\ out * base = base * out
    BY <1>1, <1>2, <1>3
  <2>2. base * (next + 1) \in Nat /\ s * base \in Nat /\ base * out \in Nat
    BY <1>1, <1>2, <1>3, MulNat
  <2> QED
    BY <1>2, <1>3, <1>11, <2>1, <2>2
<1>13. out < next + 1 + s
  BY <1>1, <1>2, <1>3, <1>12, LessByFactor
<1> QED
  BY <1>1, <1>3, <1>13 DEF out, next, s, loss, base

\* the curve liquidate values collateral on
LEMMA PricedCurve ==
  ASSUME NEW l \in [Token -> Ledger], NEW c \in Token, Priced(l, c)
  PROVE  LET p == EmaPrice(l[c])
             k == ProductOfReserves(l)
             x == LiquidationReserves(l, c).x
             y == LiquidationReserves(l, c).y
             e == 1 + RoundingOfX(l, c)
             f == 1 + RoundingOfY(l, c)
         IN  /\ p \in Nat \ {0} /\ k \in Nat \ {0} /\ x \in Nat /\ y \in Nat
             /\ RoundingOfX(l, c) \in Nat /\ RoundingOfY(l, c) \in Nat /\ p = l[c].symmetric
             /\ x * x * p <= k * NAD /\ k * NAD < (x + e) * (x + e) * p
             /\ y * y * NAD <= k * p /\ k * p < (y + f) * (y + f) * NAD
<1> DEFINE rc == l[c].reserve
           rd == l[Other(c)].reserve
           p  == EmaPrice(l[c])
           k  == ProductOfReserves(l)
           x  == LiquidationReserves(l, c).x
           y  == LiquidationReserves(l, c).y
           e  == 1 + RoundingOfX(l, c)
           f  == 1 + RoundingOfY(l, c)
<1>1. rc \in Nat \ {0} /\ rd \in Nat \ {0} /\ rc >= MIN_LIQUIDITY /\ rd >= MIN_LIQUIDITY
      /\ l[c].symmetric \in Nat
  <2>1. rc \in Nat /\ rd \in Nat /\ l[c].symmetric \in Nat
    BY Tokens, NumbersU64 DEF Ledger
  <2>2. rc >= MIN_LIQUIDITY /\ rd >= MIN_LIQUIDITY
    BY Tokens DEF Priced
  <2> QED
    BY <2>1, <2>2, MinLiquidityAssumption
<1>2. p = l[c].symmetric /\ p \in Nat \ {0}
  BY <1>1 DEF Priced, EmaPrice
<1>3. NAD \in Nat \ {0} /\ MIN_LIQUIDITY \in Nat
  BY ScaleAssumption, MinLiquidityAssumption
<1>4. k = rc * rd /\ k = rd * rc /\ k \in Nat \ {0}
  <2>1. c = 0 \/ c = 1
    BY DEF Token
  <2>2. k = rc * rd
    BY <1>1, <2>1 DEF ProductOfReserves, Other
  <2> HIDE DEF k, rc, rd
  <2> QED
    BY <1>1, <2>2
<1>5. x = Sqrt(MulDiv(rc, rd, NAD, p)) /\ y = Sqrt(MulDiv(rd, rc, p, NAD))
  <2> HIDE DEF p
  <2>1. Lesser(p, p) = p
    BY DEF Lesser
  <2>2. VirtualReserves(rc, rd, p, p)
          = [x |-> Sqrt(MulDiv(rc, rd, NAD, p)), y |-> Sqrt(MulDiv(rd, rc, p, NAD))]
    BY <1>1, <1>2, <1>3, <2>1 DEF VirtualReserves
  <2>3. LiquidationReserves(l, c) = VirtualReserves(rc, rd, p, p)
    BY DEF LiquidationReserves, p
  <2> QED
    BY <2>2, <2>3
<1>6. /\ e = 1 + DividedFirst(rc, rd, NAD, p) /\ f = 1 + DividedFirst(rd, rc, p, NAD)
      /\ RoundingOfX(l, c) = DividedFirst(rc, rd, NAD, p)
      /\ RoundingOfY(l, c) = DividedFirst(rd, rc, p, NAD)
  BY DEF RoundingOfX, RoundingOfY
<1> HIDE DEF rc, rd, p, k, x, y, e, f
<1>7. /\ x \in Nat /\ RoundingOfX(l, c) \in Nat
      /\ x * x * p <= rc * rd * NAD /\ rc * rd * NAD < (x + e) * (x + e) * p
  <2> DEFINE loss == DividedFirst(rc, rd, NAD, p)
             root == Sqrt(MulDiv(rc, rd, NAD, p))
  <2>1. /\ root \in Nat /\ loss \in Nat
        /\ root * root * p <= rc * rd * NAD
        /\ rc * rd * NAD < (root + (1 + loss)) * (root + (1 + loss)) * p
    BY <1>1, <1>2, <1>3, RootBounds
  <2>2. x = root /\ e = 1 + loss /\ RoundingOfX(l, c) = loss
    BY <1>5, <1>6
  <2> HIDE DEF loss, root
  <2> QED
    BY <2>1, <2>2
<1>8. /\ y \in Nat /\ RoundingOfY(l, c) \in Nat
      /\ y * y * NAD <= rd * rc * p /\ rd * rc * p < (y + f) * (y + f) * NAD
  <2> DEFINE loss == DividedFirst(rd, rc, p, NAD)
             root == Sqrt(MulDiv(rd, rc, p, NAD))
  <2>1. /\ root \in Nat /\ loss \in Nat
        /\ root * root * NAD <= rd * rc * p
        /\ rd * rc * p < (root + (1 + loss)) * (root + (1 + loss)) * NAD
    BY <1>1, <1>2, <1>3, RootBounds
  <2>2. y = root /\ f = 1 + loss /\ RoundingOfY(l, c) = loss
    BY <1>5, <1>6
  <2> HIDE DEF loss, root
  <2> QED
    BY <2>1, <2>2
<1> QED
  BY <1>2, <1>4, <1>7, <1>8 DEF p, k, x, y, e, f

\* At the same price and with no less liquidity, collateral keeps its value.
LEMMA ValueAtSamePrice ==
  ASSUME NEW l \in [Token -> Ledger], NEW m \in [Token -> Ledger], NEW c \in Token,
         NEW amount \in Nat \ {0}, Priced(l, c), Priced(m, c),
         m[c].symmetric = l[c].symmetric, ProductOfReserves(l) <= ProductOfReserves(m)
  PROVE  CollateralValue(m, c, amount) + RoundingWorth(l, m, c, amount)
           >= CollateralValue(l, c, amount)
<1> DEFINE p == EmaPrice(l[c])
           k == ProductOfReserves(l)
           x == LiquidationReserves(l, c).x
           y == LiquidationReserves(l, c).y
           e == 1 + RoundingOfX(l, c)
           h == 1 + RoundingOfY(l, c)
           g == ProductOfReserves(m)
           v == LiquidationReserves(m, c).x
           w == LiquidationReserves(m, c).y
           d == RoundingOfX(m, c)
           b == 1 + d
           f == 1 + RoundingOfY(m, c)
<1>1. /\ p \in Nat \ {0} /\ k \in Nat \ {0} /\ x \in Nat /\ y \in Nat
      /\ e \in Nat \ {0} /\ h \in Nat \ {0}
      /\ x * x * p <= k * NAD /\ k * NAD < (x + e) * (x + e) * p
      /\ y * y * NAD <= k * p /\ k * p < (y + h) * (y + h) * NAD
  <2>1. RoundingOfX(l, c) \in Nat /\ RoundingOfY(l, c) \in Nat
    BY PricedCurve
  <2>2. e \in Nat \ {0} /\ h \in Nat \ {0}
    BY <2>1
  <2> QED
    BY <2>2, PricedCurve
<1>2. /\ g \in Nat \ {0} /\ v \in Nat /\ w \in Nat /\ d \in Nat /\ f \in Nat \ {0}
      /\ v * v * p <= g * NAD /\ g * NAD < (v + b) * (v + b) * p
      /\ w * w * NAD <= g * p /\ g * p < (w + f) * (w + f) * NAD
  <2>1. EmaPrice(m[c]) = p
    BY PricedCurve
  <2>2. RoundingOfX(m, c) \in Nat /\ RoundingOfY(m, c) \in Nat
    BY PricedCurve
  <2>3. d \in Nat /\ f \in Nat \ {0}
    BY <2>2
  <2> HIDE DEF p
  <2> QED
    BY <2>1, <2>3, PricedCurve
<1>3. NAD \in Nat \ {0} /\ k <= g
  BY ScaleAssumption
<1>4. /\ CollateralValue(l, c, amount) = CalculateAmountOut(x, y, amount)
      /\ CollateralValue(m, c, amount) = CalculateAmountOut(v, w, amount)
      /\ RoundingWorth(l, m, c, amount)
           = CeilDiv(amount * (NAD * f + p * (e + d)), NAD * (x + amount))
  BY DEF CollateralValue, RoundingWorth
<1>5. b \in Nat \ {0} /\ b = d + 1
  BY <1>2
<1> HIDE DEF p, k, x, y, e, h, g, v, w, d, b, f
<1>6. y * NAD < p * (x + e) /\ v * p < NAD * (w + f)
  BY <1>1, <1>2, <1>3, <1>5, ReservesByPrice
<1>7. x <= v + d
  <2>1. (x * x) * p < ((v + b) * (v + b)) * p
    <3>1. k * NAD <= g * NAD
      BY <1>1, <1>2, <1>3, MulMonotone
    <3>2. k * NAD \in Nat /\ g * NAD \in Nat /\ x * x * p \in Nat /\ (v + b) * (v + b) * p \in Nat
      BY <1>1, <1>2, <1>3, <1>5, MulNat
    <3> QED
      BY <1>1, <1>2, <3>1, <3>2
  <2>2. x * x < (v + b) * (v + b)
    BY <1>1, <1>2, <1>5, <2>1, MulNat, LessByFactor
  <2>3. x < v + b
    BY <1>1, <1>2, <1>5, <2>2, RootsInOrder
  <2> QED
    BY <1>1, <1>2, <1>5, <2>3
<1>8. CalculateAmountOut(x, y, amount)
        <= CalculateAmountOut(v, w, amount)
             + CeilDiv(amount * (NAD * f + p * (e + d)), NAD * (x + amount))
  BY <1>1, <1>2, <1>3, <1>6, <1>7, ValueWithMoreLiquidity
<1>9. /\ CalculateAmountOut(x, y, amount) \in Nat /\ CalculateAmountOut(v, w, amount) \in Nat
      /\ CeilDiv(amount * (NAD * f + p * (e + d)), NAD * (x + amount)) \in Nat
  <2>1. /\ amount * y \in Nat /\ amount * w \in Nat
        /\ x + amount \in Nat \ {0} /\ v + amount \in Nat \ {0}
    BY <1>1, <1>2, MulNat
  <2>2. NAD * f + p * (e + d) \in Nat
    BY <1>1, <1>2, <1>3, MulNat
  <2>3. amount * (NAD * f + p * (e + d)) \in Nat
    BY <2>2, MulNat
  <2>4. NAD * (x + amount) \in Nat \ {0}
    BY <1>3, <2>1
  <2> QED
    BY <2>1, <2>3, <2>4, DivFloor, CeilDivNat DEF CalculateAmountOut
<1> QED
  BY <1>4, <1>8, <1>9

\* a step of a slot leaves the symmetric price, unless it liquidates
LEMMA SymmetricStep ==
  ASSUME PairInv, Next, last_update = slot, ~AnyLiquidation, NEW c \in Token
  PROVE  ledger'[c].symmetric = ledger[c].symmetric
<1>1. CASE Environment
  BY <1>1 DEF Environment, Tick, Donate, SetPairReduceOnly, SetGlobalReduceOnly, pairVars
<1>2. CASE ~Environment
  <2>1. PICK l \in UpdatedPairs, u \in Users : PoolInstruction(l) \/ LendingInstruction(u, l)
    <3>1. 1 \in Users
      BY UsersAssumption DEF Users
    <3> QED
      BY <1>2, <3>1 DEF Next
  <2>2. ~ \E d \in Token : Liquidate(u, d, l)
    BY DEF AnyLiquidation, LiquidationOf
  <2>3. l \in [Token -> Ledger]
    BY UpdateSound DEF PairInv, Sound, SoundPair
  <2>4. ledger'[c].symmetric = l[c].symmetric
    BY <2>1, <2>2, <2>3, InstructionsKeepSymmetric DEF SymmetricKept
  <2>5. l[c].symmetric = ledger[c].symmetric
    BY <2>1, UpdateKeepsSymmetric DEF PairInv
  <2> QED
    BY <2>4, <2>5
<1> QED
  BY <1>1, <1>2

\* Within a slot nobody's collateral loses value, but to an LP who leaves or to
\* a liquidation: the symmetric price stays, and k does not fall, so the point of
\* the curve at that price only moves outwards.  For every sequence of amounts,
\* fees and widths, up to the roundings of the virtual reserves.
THEOREM TradingKeeps == Spec => TradingKeepsValue
<1>1. ASSUME PairInv, PairInv', Next, last_update = slot,
             ~(total_supply' < total_supply), ~AnyLiquidation,
             NEW c \in Token, NEW amount \in Inputs.collateral[c] \ {0},
             Priced(ledger, c), Priced(ledger', c)
      PROVE  CollateralValue(ledger', c, amount) + RoundingWorth(ledger, ledger', c, amount)
               >= CollateralValue(ledger, c, amount)
  <2>1. amount \in Nat \ {0}
    BY InputsAssumption, NumbersU64
  <2>2. ledger \in [Token -> Ledger] /\ ledger' \in [Token -> Ledger]
    BY <1>1 DEF PairInv, Sound, SoundPair
  <2>3. total_supply' >= total_supply /\ total_supply \in Nat
    BY <1>1, NumbersU64 DEF PairInv, Supplies
  <2>4. ledger'[c].symmetric = ledger[c].symmetric
    BY <1>1, SymmetricStep
  <2>5. ProductOfReserves(ledger) <= ProductOfReserves(ledger')
    BY <1>1, <2>3, LpValueStepOrLiquidation, ProductKept
  <2> QED
    BY <1>1, <2>1, <2>2, <2>4, <2>5, ValueAtSamePrice
<1>2. PairInv /\ PairInv' /\ [Next]_vars
        => [ last_update = slot =>
               \/ \A c \in Token : \A amount \in Inputs.collateral[c] \ {0} :
                    Priced(ledger, c) /\ Priced(ledger', c) =>
                      CollateralValue(ledger', c, amount)
                          + RoundingWorth(ledger, ledger', c, amount)
                        >= CollateralValue(ledger, c, amount)
               \/ total_supply' < total_supply
               \/ AnyLiquidation ]_vars
  BY <1>1
<1> QED
  BY <1>2, PairAlwaysSound, PTL DEF Spec, TradingKeepsValue

\* Within a slot nobody becomes liquidatable by what others borrow, repay, pledge
\* or withdraw, for every number of users and every order of instructions: the
\* factor is the one locked in, the debt does not grow (DebtStep), and what the
\* collateral is worth depends on the reserves and the symmetric price alone.
THEOREM OthersKeepHealth == Spec => OthersLoansKeepHealth
<1>1. ASSUME PairInv, PairInv', Next, last_update = slot,
             \A t \in Token : ledger'[t].reserve = ledger[t].reserve,
             NEW u \in Users, NEW c \in Token,
             position'[u] = position[u], position[u][c].collateral # 0,
             ~Undercollateralized(u, c, ledger),
             ~AnyLiquidation, ~ledger'[Other(c)].clipped
      PROVE  ~Undercollateralized(u, c, ledger)'
  <2> DEFINE d     == Other(c)
             held  == position[u][d].debt_shares
             limit == BpsFloor(CollateralValue(ledger, c, position[u][c].collateral),
                               position[u][c].liquidation_cf)
  <2>1. /\ d \in Token
        /\ ledger \in [Token -> Ledger] /\ ledger' \in [Token -> Ledger]
        /\ position \in [Users -> [Token -> Holding]]
    BY <1>1, Tokens DEF PairInv, Sound, SoundPair
  <2>2. Debt(u, d)' <= Debt(u, d)
    BY <1>1, <2>1, DebtStep
  <2>3. /\ Debt(u, d) = CalculateDebt(held, ledger[d])
        /\ Debt(u, d)' = CalculateDebt(held, ledger'[d])
    BY <1>1 DEF Debt
  <2>4. ledger'[c].symmetric = ledger[c].symmetric
    BY <1>1, SymmetricStep
  <2>5. CollateralValue(ledger', c, position[u][c].collateral)
          = CollateralValue(ledger, c, position[u][c].collateral)
    BY <1>1, <2>1, <2>4, Zenon DEF CollateralValue, LiquidationReserves, EmaPrice, d
  <2>6. Debt(u, d) \in Nat /\ Debt(u, d)' \in Nat /\ limit \in Nat
    <3>1. /\ held \in Nat /\ position[u][c].liquidation_cf \in Nat
          /\ position[u][c].collateral \in Nat /\ position[u][c].collateral > 0
      BY <1>1, <2>1, SharesNat, SharesOf, NumbersU64, BpsFacts DEF PairInv
    <3>2. limit \in Nat
      BY <2>1, <3>1, CollateralValueNat, BpsFloorNat
    <3> HIDE DEF held, limit
    <3> QED
      BY <2>1, <2>3, <3>1, <3>2, DebtNat
  <2>7. Undercollateralized(u, c, ledger) <=> held > 0 /\ Debt(u, d) >= limit
    BY <2>3 DEF Undercollateralized
  <2>8. Undercollateralized(u, c, ledger)' <=> held > 0 /\ Debt(u, d)' >= limit
    BY <1>1, <2>3, <2>5 DEF Undercollateralized
  <2> HIDE DEF held, limit, d
  <2> QED
    BY <1>1, <2>2, <2>6, <2>7, <2>8
<1>2. PairInv /\ PairInv' /\ [Next]_vars =>
        [ last_update = slot /\ (\A t \in Token : ledger'[t].reserve = ledger[t].reserve) =>
            \A u \in Users, c \in Token :
              \/ position'[u] # position[u] \/ position[u][c].collateral = 0
              \/ Undercollateralized(u, c, ledger)
              \/ ~Undercollateralized(u, c, ledger)'
              \/ AnyLiquidation
              \/ ledger'[Other(c)].clipped ]_vars
  BY <1>1
<1> QED
  BY <1>2, PairAlwaysSound, PTL DEF Spec, OthersLoansKeepHealth

----------------------------------------------------------------------------
(* The views. *)

\* The limit ViewUserPositionData reports is where liquidate begins, at every
\* price and for every collateral, the empty one included.
THEOREM LiquidationLimitExact == Spec => []LiquidationLimitIsTrue
<1>1. ASSUME PairInv, NEW u \in Users, NEW c \in Token, NEW l \in UpdatedPairs,
             UserDebt(u, Other(c), l) > 0, LiquidationReservesOk(l, c),
             AmountOutOk(LiquidationReserves(l, c).x, position[u][c].collateral)
      PROVE  Undercollateralized(u, c, l)
               <=> UserDebt(u, Other(c), l) >= UserLiquidationBorrowLimit(u, c, l)
  <2> DEFINE pledged == position[u][c].collateral
             shares  == position[u][Other(c)].debt_shares
             x       == LiquidationReserves(l, c).x
             y       == LiquidationReserves(l, c).y
  <2>1. Sound(l) /\ l \in [Token -> Ledger] /\ Other(c) \in Token
    BY <1>1, UpdateSound, Tokens DEF PairInv, Sound, SoundPair
  <2>2. pledged \in Nat /\ shares \in Nat /\ x \in Nat /\ y \in Nat
    BY <1>1, <2>1, SharesNat, SharesOf, NumbersU64, LiquidationCurve DEF Sound, SoundPair
  <2>3. shares > 0
    <3> SUFFICES ASSUME shares = 0 PROVE FALSE
      BY <2>2
    <3>1. CalculateDebt(0, l[Other(c)]) = 0
      BY <2>1, NoSharesNoDebt
    <3> QED
      BY <1>1, <3>1 DEF UserDebt
  <2>4. /\ VirtualReservesOk(l[c].reserve, l[Other(c)].reserve, EmaPrice(l[c]), EmaPrice(l[c]))
        /\ VirtualReserves(l[c].reserve, l[Other(c)].reserve, EmaPrice(l[c]), EmaPrice(l[c])).x = x
        /\ VirtualReserves(l[c].reserve, l[Other(c)].reserve, EmaPrice(l[c]), EmaPrice(l[c])).y = y
    BY <1>1 DEF LiquidationReservesOk, LiquidationReserves
  <2>5. CurveValue(l, c, EmaPrice(l[c]), pledged)
          = IF pledged > 0 /\ AmountOutOk(x, pledged) THEN CalculateAmountOut(x, y, pledged) ELSE 0
    <3> HIDE DEF x, y, pledged
    <3> QED
      BY <2>4, Zenon DEF CurveValue
  <2>6. CollateralValue(l, c, pledged) = CalculateAmountOut(x, y, pledged)
    BY DEF CollateralValue
  <2>7. pledged = 0 => CalculateAmountOut(x, y, pledged) = 0
    <3> HIDE DEF x, y, pledged
    <3> SUFFICES ASSUME pledged = 0 PROVE CalculateAmountOut(x, y, 0) = 0
      OBVIOUS
    <3>1. x > 0
      BY <1>1, <2>2 DEF AmountOutOk, x, pledged
    <3>2. 0 * y = 0 /\ x + 0 = x
      BY <2>2
    <3>3. 0 \div x = 0
      BY <2>2, <3>1
    <3> QED
      BY <3>2, <3>3 DEF CalculateAmountOut
  <2>8. CurveValue(l, c, EmaPrice(l[c]), pledged) = CollateralValue(l, c, pledged)
    <3>1. AmountOutOk(x, pledged)
      BY <1>1
    <3> HIDE DEF x, y, pledged
    <3> QED
      BY <2>2, <2>5, <2>6, <2>7, <3>1
  <2> QED
    BY <2>3, <2>8 DEF Undercollateralized, UserDebt, UserLiquidationBorrowLimit,
                      UserCollateralValueWithImpact
<1>2. PairInv => LiquidationLimitIsTrue
  BY <1>1 DEF LiquidationLimitIsTrue
<1> QED
  BY <1>2, PairAlwaysSound, PTL

\* What pessimistic_max_debt lends on collateral stays below the limit of its
\* liquidation, whatever the two prices, the factor and the amount.
THEOREM BorrowLimitSafe == Spec => []BorrowLimitBelowLiquidation
<1>1. ASSUME PairInv, NEW c \in Token, NEW l \in UpdatedPairs,
             NEW amount \in Inputs.collateral[c] \ {0},
             MaxDebtForCollateral(l, c, amount).ok, PriceStepCounts(l, c)
      PROVE  MaxDebtForCollateral(l, c, amount).limit
               <= BpsFloor(CollateralValue(l, c, amount), MaxDebtForCollateral(l, c, amount).cf)
  <2>1. l \in [Token -> Ledger]
    BY <1>1, UpdateSound DEF PairInv, Sound, SoundPair
  <2>2. amount \in U64 /\ amount > 0
    BY InputsInU64, NumbersU64
  <2> QED
    BY <1>1, <2>1, <2>2, LimitBelow
<1>2. PairInv => BorrowLimitBelowLiquidation
  BY <1>1 DEF BorrowLimitBelowLiquidation
<1> QED
  BY <1>2, PairAlwaysSound, PTL

\* Every debt that liquidate accepts is reported by UserIsLiquidatable.
THEOREM LiquidatablesReported == Spec => []LiquidatableIsReported
<1>1. ASSUME PairInv, NEW u \in Users, NEW c \in Token, NEW l \in UpdatedPairs,
             LiquidateOk(u, c, l), UserDebt(u, Other(c), l) > 0,
             position[u][c].collateral > 0, LowerPriceCounts(l, c)
      PROVE  UserIsLiquidatable(u, c, l)
  <2> DEFINE pledged == position[u][c].collateral
             lcf     == position[u][c].liquidation_cf
             owed    == UserDebt(u, Other(c), l)
             low     == LiquidationReservesLow(l, c)
             curve   == CurveValue(l, c, DirectionalEmaPrice(l[c]), pledged)
  <2>1. Sound(l) /\ l \in [Token -> Ledger] /\ Other(c) \in Token
    BY <1>1, UpdateSound, Tokens DEF PairInv, Sound, SoundPair
  <2>2. pledged \in Nat /\ lcf \in Nat /\ pledged > 0
    BY <1>1, <2>1, SharesOf, NumbersU64, BpsFacts DEF Sound, SoundPair
  <2>3. owed \in Nat
    BY <2>1, SharesNat, DebtNat DEF UserDebt
  <2>4. LiquidationReservesOk(l, c) /\ owed >= BpsFloor(CollateralValue(l, c, pledged), lcf)
    BY <1>1 DEF LiquidateOk, Undercollateralized, UserDebt
  <2>5. /\ low \in [x : U64, y : U64]
        /\ LowValue(l, c, pledged) \in Nat /\ CollateralValue(l, c, pledged) \in Nat
        /\ LowValue(l, c, pledged) <= CollateralValue(l, c, pledged)
    BY <1>1, <2>1, <2>2, <2>4, LowerPriceLowerValue
  <2>6. curve = LowValue(l, c, pledged)
    <3>1. VirtualReservesOk(l[c].reserve, l[Other(c)].reserve,
                            EmaPrice(l[c]), DirectionalEmaPrice(l[c]))
      BY <1>1 DEF LowerPriceCounts
    <3>2. low = VirtualReserves(l[c].reserve, l[Other(c)].reserve,
                                EmaPrice(l[c]), DirectionalEmaPrice(l[c]))
      BY DEF LiquidationReservesLow
    <3> HIDE DEF low, pledged
    <3>3. AmountOutOk(low.x, pledged)
      BY <2>2, <2>5, NumbersU64 DEF AmountOutOk
    <3> QED
      BY <2>2, <3>1, <3>2, <3>3, Zenon DEF CurveValue, LowValue, low
  <2> HIDE DEF pledged, lcf, owed, low, curve
  <2>7. BpsFloor(curve, lcf) <= BpsFloor(CollateralValue(l, c, pledged), lcf)
    BY <2>2, <2>5, <2>6, BpsFloorMonotone
  <2>8. BpsFloor(curve, lcf) \in Nat /\ BpsFloor(CollateralValue(l, c, pledged), lcf) \in Nat
    BY <2>2, <2>5, <2>6, BpsFloorNat
  <2>9. owed >= BpsFloor(curve, lcf)
    BY <2>3, <2>4, <2>7, <2>8
  <2> QED
    BY <1>1, <2>9 DEF UserIsLiquidatable, owed, curve, pledged, lcf
<1>2. PairInv => LiquidatableIsReported
  BY <1>1 DEF LiquidatableIsReported
<1> QED
  BY <1>2, PairAlwaysSound, PTL

\* A quote is what the swap pays, whatever the amount and the reserves.
THEOREM QuotesHonoured == Spec => QuoteIsHonoured
<1>1. ASSUME PairInv, NEW t \in Token, NEW l \in UpdatedPairs, NEW amount \in Inputs.swap[t],
             Swap(t, amount, l)
      PROVE  /\ reserve_vault[Other(t)] - reserve_vault'[Other(t)] = SwapQuote(l, t, amount).out
             /\ SwapQuote(l, t, amount).fee <= amount
  <2> DEFINE fee == BpsCeil(amount, SwapFeeBps)
             out == CalculateAmountOut(l[t].reserve, l[Other(t)].reserve, amount - fee)
  <2>1. /\ reserve_vault' = [reserve_vault EXCEPT ![t] = @ + amount, ![Other(t)] = @ - out]
        /\ fee <= amount
        /\ AmountOutOk(l[t].reserve, amount - fee)
    BY <1>1 DEF Swap
  <2>2. Sound(l) /\ Other(t) \in Token /\ Other(t) # t
    BY <1>1, UpdateSound, Tokens DEF PairInv
  <2>3. /\ reserve_vault \in [Token -> U64] /\ reserve_vault[Other(t)] \in Nat
        /\ l[t].reserve \in Nat /\ l[Other(t)].reserve \in Nat
    BY <2>2, SoundParts DEF Sound, SoundPair
  <2>4. amount \in Nat
    <3>1. amount \in U64
      BY <1>1, InputsAssumption
    <3> QED
      BY <3>1, NumbersU64
  <2>5. fee \in Nat
    <3>1. SwapFeeBps \in Nat
      BY FeesAssumption DEF BPS_DENOMINATOR
    <3> QED
      BY <2>4, <3>1, BpsCeilNat
  <2> HIDE DEF fee
  <2>6. amount - fee \in Nat
    BY <2>1, <2>4, <2>5
  <2>7. out \in Nat
    BY <2>1, <2>3, <2>6, AmountOutNat
  <2>8. SwapQuote(l, t, amount).out = out /\ SwapQuote(l, t, amount).fee = fee
    BY DEF SwapQuote, fee
  <2> HIDE DEF out
  <2>9. reserve_vault'[Other(t)] = reserve_vault[Other(t)] - out
    BY <2>1, <2>2, <2>3
  <2> QED
    BY <2>1, <2>3, <2>7, <2>8, <2>9
<1>2. PairInv /\ [Next]_vars =>
        [\A t \in Token, l \in UpdatedPairs : \A amount \in Inputs.swap[t] :
           reserve_vault' # reserve_vault /\ Swap(t, amount, l) =>
             /\ reserve_vault[Other(t)] - reserve_vault[Other(t)]' = SwapQuote(l, t, amount).out
             /\ SwapQuote(l, t, amount).fee <= amount]_vars
  BY <1>1
<1> QED
  BY <1>2, PairAlwaysSound, PTL DEF Spec, QuoteIsHonoured

----------------------------------------------------------------------------
(* The liquidation price. *)

\* saturating_mul is the product, or u128::MAX below it
LEMMA SatMulRange ==
  ASSUME NEW a \in Nat, NEW b \in Nat
  PROVE  /\ SatMul(a, b) \in Nat /\ SatMul(a, b) <= a * b
         /\ SatMul(a, b) = a * b \/ SatMul(a, b) = MaxU128
<1>1. MaxU128 \in Nat /\ a * b \in Nat
  BY WidthAssumption, MulNat
<1>2. CASE MulFits(a, b)
  BY <1>1, <1>2 DEF SatMul
<1>3. CASE ~MulFits(a, b)
  <2> DEFINE q == MaxU128 \div b
  <2>1. b > 0 /\ a > q
    <3>1. b > 0 /\ ~(a <= q)
      BY <1>3 DEF MulFits
    <3>2. q \in Nat
      BY <1>1, <3>1, DivFloor
    <3> HIDE DEF q
    <3> QED
      BY <3>1, <3>2
  <2>2. q \in Nat /\ MaxU128 < b * q + b
    BY <1>1, <2>1, DivFloor
  <2> HIDE DEF q
  <2>3. (q + 1) * b <= a * b
    BY <2>1, <2>2, MulMonotone
  <2>4. (q + 1) * b = b * q + b
    BY <2>2
  <2> QED
    BY <1>1, <1>3, <2>2, <2>3, <2>4 DEF SatMul
<1> QED
  BY <1>2, <1>3

\* a saturated product of three, by a positive last factor, is u128::MAX at least
LEMMA SatMulThree ==
  ASSUME NEW a \in Nat, NEW b \in Nat, NEW c \in Nat \ {0}, SatMul(SatMul(a, b), c) < MaxU128
  PROVE  SatMul(SatMul(a, b), c) = (a * b) * c
<1> DEFINE m == SatMul(a, b)
           r == SatMul(m, c)
<1>1. m \in Nat /\ (m = a * b \/ m = MaxU128)
  BY SatMulRange
<1> HIDE DEF m
<1>2. r \in Nat /\ (r = m * c \/ r = MaxU128)
  BY <1>1, SatMulRange
<1>3. r < MaxU128 /\ MaxU128 \in Nat
  BY WidthAssumption DEF m
<1> HIDE DEF r
<1>4. m * c >= m
  <2>1. 1 * m <= c * m
    BY <1>1, MulMonotone
  <2>2. c * m = m * c /\ 1 * m = m
    BY <1>1
  <2> QED
    BY <2>1, <2>2
<1>5. m = a * b
  BY <1>1, <1>2, <1>3, <1>4
<1> QED
  BY <1>2, <1>3, <1>5 DEF r, m

\* a price below the reported one leaves the collateral's part of the factor
\* below the debt
LEMMA PriceAtLimitBounds ==
  ASSUME NEW c \in Token, NEW collateral \in Nat \ {0}, NEW debt \in Nat, NEW cf \in Nat \ {0},
         NEW p \in Nat \ {0},
         p * DecimalScale[c]
           <= (PriceAtLimit(c, collateral, debt, cf) - 1) * DecimalScale[Other(c)]
  PROVE  (p * collateral) * cf < (debt * NAD) * BPS_DENOMINATOR
<1> DEFINE up    == DecimalScale[c]
           down  == DecimalScale[Other(c)]
           inner == SatMul(debt, up)
           scaled == SatMul(inner, NAD)
           num   == SatMul(scaled, BPS_DENOMINATOR)
           den   == SatMul(SatMul(collateral, down), cf)
           top   == Lesser(num + (den - 1), MaxU128)
           price == Lesser(top \div den, MaxU64)
<1>1. /\ up \in Nat \ {0} /\ down \in Nat \ {0} /\ NAD \in Nat \ {0} /\ BPS_DENOMINATOR \in Nat \ {0}
      /\ MaxU64 \in Nat /\ MaxU128 \in Nat \ {0}
  BY Tokens, DecimalScaleAssumption, ScaleAssumption, BpsFacts, WidthAssumption
<1>2. p * up <= (price - 1) * down
  BY DEF PriceAtLimit
<1> HIDE DEF up, down
<1>3. /\ inner \in Nat /\ inner <= debt * up
  BY <1>1, SatMulRange
<1> HIDE DEF inner
<1>4. scaled \in Nat /\ scaled <= inner * NAD
  BY <1>1, <1>3, SatMulRange
<1> HIDE DEF scaled
<1>5. num \in Nat /\ num <= scaled * BPS_DENOMINATOR
  BY <1>1, <1>4, SatMulRange
<1> HIDE DEF num
<1>6. num <= ((debt * NAD) * BPS_DENOMINATOR) * up
  <2>1. inner * NAD <= (debt * up) * NAD /\ debt * up \in Nat
    BY <1>1, <1>3, MulMonotone, MulNat
  <2>2. (debt * up) * NAD \in Nat /\ inner * NAD \in Nat
    BY <1>1, <1>3, <2>1, MulNat
  <2>3. scaled <= (debt * up) * NAD
    BY <1>4, <2>1, <2>2
  <2>4. scaled * BPS_DENOMINATOR <= ((debt * up) * NAD) * BPS_DENOMINATOR
    BY <1>1, <1>4, <2>2, <2>3, MulMonotone
  <2>5. ((debt * up) * NAD) * BPS_DENOMINATOR = ((debt * NAD) * BPS_DENOMINATOR) * up
    BY <1>1
  <2>6. scaled * BPS_DENOMINATOR \in Nat /\ ((debt * up) * NAD) * BPS_DENOMINATOR \in Nat
    BY <1>1, <1>4, <2>2, MulNat
  <2> QED
    BY <1>5, <2>4, <2>5, <2>6
<1>7. den \in Nat \ {0}
  <2>1. \A a, b \in Nat \ {0} : SatMul(a, b) \in Nat \ {0}
    <3> SUFFICES ASSUME NEW a \in Nat \ {0}, NEW b \in Nat \ {0} PROVE SatMul(a, b) \in Nat \ {0}
      OBVIOUS
    <3>1. a * b > 0
      OBVIOUS
    <3>2. SatMul(a, b) \in Nat /\ (SatMul(a, b) = a * b \/ SatMul(a, b) = MaxU128)
      BY SatMulRange
    <3> QED
      BY <1>1, <3>1, <3>2
  <2>2. SatMul(collateral, down) \in Nat \ {0}
    BY <1>1, <2>1
  <2> QED
    BY <2>1, <2>2
<1>8. den < MaxU128 => den = (collateral * down) * cf
  BY <1>1, SatMulThree
<1> HIDE DEF den
<1>9. top \in Nat /\ top <= num + (den - 1) /\ top <= MaxU128
  <2> DEFINE sum == num + (den - 1)
  <2>1. sum \in Nat
    BY <1>5, <1>7
  <2> HIDE DEF sum
  <2>2. Lesser(sum, MaxU128) \in Nat /\ Lesser(sum, MaxU128) <= sum /\ Lesser(sum, MaxU128) <= MaxU128
    BY <1>1, <2>1, LesserRange
  <2> QED
    BY <2>2 DEF sum
<1> HIDE DEF top
<1>10. top \div den \in Nat /\ den * (top \div den) <= top
  BY <1>7, <1>9, DivFloor
<1> DEFINE q == top \div den
<1>11. price \in Nat /\ price <= q
  <2>1. q \in Nat
    BY <1>10
  <2> HIDE DEF q
  <2>2. Lesser(q, MaxU64) \in Nat /\ Lesser(q, MaxU64) <= q
    BY <1>1, <2>1, LesserRange
  <2> QED
    BY <2>2 DEF q
<1>12. q \in Nat /\ den * q <= top
  BY <1>10
<1> HIDE DEF price, q
<1>13. price >= 2
  <2>1. p * up > 0
    BY <1>1
  <2> SUFFICES ASSUME price <= 1 PROVE FALSE
    BY <1>11
  <2>2. (price - 1) * down <= 0
    <3>1. CASE price = 0
      <4>1. (price - 1) * down = -down
        BY <1>1, <3>1
      <4> QED
        BY <1>1, <4>1
    <3>2. CASE price = 1
      <4>1. (price - 1) * down = 0
        BY <1>1, <3>2
      <4> QED
        BY <4>1
    <3> QED
      BY <1>11, <3>1, <3>2
  <2>3. p * up \in Int /\ (price - 1) * down \in Int
    BY <1>1, <1>11
  <2> QED
    BY <1>2, <2>1, <2>2, <2>3
<1>14. den * price <= top
  <2>1. price * den <= q * den
    BY <1>7, <1>11, <1>12, MulMonotone
  <2>2. price * den = den * price /\ q * den = den * q
    BY <1>7, <1>11, <1>12
  <2>3. den * price \in Nat /\ den * q \in Nat
    BY <1>7, <1>11, <1>12, MulNat
  <2> QED
    BY <1>9, <1>12, <2>1, <2>2, <2>3
<1>15. den < MaxU128
  <2>1. 2 * den <= price * den /\ price * den = den * price /\ den * price \in Nat
    BY <1>7, <1>11, <1>13, MulMonotone, MulNat
  <2> QED
    BY <1>1, <1>7, <1>9, <1>14, <2>1
<1>16. (price - 1) * den < num
  <2>1. (price - 1) * den = den * price - den /\ den * price \in Nat
    BY <1>7, <1>11, MulNat
  <2> QED
    BY <1>5, <1>7, <1>9, <1>14, <2>1
<1>17. (p * up) * (collateral * cf) <= (price - 1) * den
  <2>1. p * up \in Nat /\ (price - 1) * down \in Nat /\ collateral * cf \in Nat
    BY <1>1, <1>11, <1>13, MulNat
  <2>2. (p * up) * (collateral * cf) <= ((price - 1) * down) * (collateral * cf)
    BY <1>2, <2>1, MulMonotone
  <2>3. ((price - 1) * down) * (collateral * cf) = (price - 1) * ((collateral * down) * cf)
    BY <1>1, <1>11
  <2> QED
    BY <1>8, <1>15, <2>2, <2>3
<1>18. ((p * collateral) * cf) * up < ((debt * NAD) * BPS_DENOMINATOR) * up
  <2>1. (p * up) * (collateral * cf) = ((p * collateral) * cf) * up
    BY <1>1
  <2>2. /\ ((p * collateral) * cf) * up \in Nat
        /\ ((debt * NAD) * BPS_DENOMINATOR) * up \in Nat
        /\ (price - 1) * den \in Nat
    BY <1>1, <1>7, <1>11, <1>13, MulNat
  <2> QED
    BY <1>5, <1>6, <1>16, <1>17, <2>1, <2>2
<1>19. (p * collateral) * cf \in Nat /\ (debt * NAD) * BPS_DENOMINATOR \in Nat
  BY <1>1, MulNat
<1> DEFINE lower == (p * collateral) * cf
           upper == (debt * NAD) * BPS_DENOMINATOR
<1>20. lower \in Nat /\ upper \in Nat /\ lower * up < upper * up
  BY <1>18, <1>19
<1> HIDE DEF lower, upper
<1>21. lower < upper
  BY <1>1, <1>20, LessByFactor
<1> QED
  BY <1>21 DEF lower, upper

\* the square of a lesser natural is no greater
LEMMA LessBySquare ==
  ASSUME NEW a \in Nat, NEW b \in Nat, a * a < b * b
  PROVE  a < b
<1> SUFFICES ASSUME b <= a PROVE FALSE
  OBVIOUS
<1>1. b * b <= a * b /\ b * a <= a * a
  BY MulMonotone
<1>2. b * a = a * b /\ a * a \in Nat /\ b * b \in Nat /\ a * b \in Nat
  BY MulNat
<1> QED
  BY <1>1, <1>2

\* the curve at the EMA price pays no more than the price, impact or not
LEMMA CurveBelowPrice ==
  ASSUME NEW rc \in Nat, NEW rd \in Nat, NEW p \in Nat \ {0}, MulFits(rc * rd, NAD)
  PROVE  Sqrt(MulDiv(rd, rc, p, NAD)) * NAD < p * (Sqrt(MulDiv(rc, rd, NAD, p)) + 1)
<1> DEFINE k == rc * rd
           n == (k * NAD) \div p
           m == MulDiv(rd, rc, p, NAD)
           x == Sqrt(n)
           y == Sqrt(m)
           X == x + 1
<1>1. NAD \in Nat \ {0} /\ k \in Nat /\ k * NAD \in Nat
  BY ScaleAssumption, MulNat
<1>2. MulDiv(rc, rd, NAD, p) = n
  BY DEF MulDiv
<1>3. n \in Nat /\ k * NAD < p * n + p
  BY <1>1, DivFloor
<1>4. m \in Nat /\ m * NAD <= k * p
  <2>1. rd * rc = k /\ rd * p \in Nat /\ (rd * rc) * p \in Nat
    BY <1>1, MulNat
  <2>2. CASE MulFits(rd * rc, p)
    <3>1. m = ((rd * rc) * p) \div NAD
      BY <2>2 DEF MulDiv
    <3> DEFINE a == (rd * rc) * p
               b == a \div NAD
    <3>2. a \in Nat /\ a = k * p /\ m = b
      BY <2>1, <3>1
    <3> HIDE DEF a, m
    <3>3. b \in Nat /\ NAD * b <= a
      BY <1>1, <3>2, DivFloor
    <3> HIDE DEF b
    <3>4. b * NAD = NAD * b
      BY <1>1, <3>3
    <3> QED
      BY <3>2, <3>3, <3>4
  <2>3. CASE ~MulFits(rd * rc, p)
    <3> DEFINE b == (rd * p) \div NAD
    <3>1. m = b * rc
      BY <2>3 DEF MulDiv
    <3>2. b \in Nat /\ NAD * b <= rd * p
      BY <1>1, <2>1, DivFloor
    <3> HIDE DEF b, m
    <3>3. (NAD * b) * rc <= (rd * p) * rc
      BY <1>1, <2>1, <3>2, MulNat, MulMonotone
    <3>4. (NAD * b) * rc = (b * rc) * NAD /\ (rd * p) * rc = (rc * rd) * p
      BY <1>1, <3>2
    <3>5. b * rc \in Nat
      BY <3>2, MulNat
    <3> QED
      BY <3>1, <3>3, <3>4, <3>5
  <2> QED
    BY <2>2, <2>3
<1> HIDE DEF n, m
<1>5. x \in Nat /\ n < (x + 1) * (x + 1) /\ y \in Nat /\ y * y <= m
  BY <1>3, <1>4, SqrtIsFloor
<1> HIDE DEF x, y
<1>6. X \in Nat /\ X * X \in Nat /\ n + 1 <= X * X
  <2>1. X \in Nat /\ X * X \in Nat
    BY <1>5, MulNat
  <2> QED
    BY <1>3, <1>5, <2>1
<1> HIDE DEF X
<1>7. k * NAD < p * (X * X)
  <2>1. (n + 1) * p <= (X * X) * p /\ (n + 1) * p = p * n + p /\ (X * X) * p = p * (X * X)
    BY <1>3, <1>6, MulMonotone
  <2>2. p * n \in Nat /\ p * (X * X) \in Nat
    BY <1>3, <1>6, MulNat
  <2> QED
    BY <1>1, <1>3, <2>1, <2>2
<1>8. (y * y) * NAD <= k * p
  <2>1. (y * y) * NAD <= m * NAD
    BY <1>1, <1>4, <1>5, MulNat, MulMonotone
  <2>2. (y * y) * NAD \in Nat /\ m * NAD \in Nat /\ k * p \in Nat
    BY <1>1, <1>4, <1>5, MulNat
  <2> QED
    BY <1>4, <2>1, <2>2
<1>9. (y * NAD) * (y * NAD) < (p * X) * (p * X)
  <2>1. ((y * y) * NAD) * NAD <= (k * p) * NAD
    BY <1>1, <1>5, <1>8, MulNat, MulMonotone
  <2>2. (k * p) * NAD = (k * NAD) * p /\ ((y * y) * NAD) * NAD = (y * NAD) * (y * NAD)
    BY <1>1, <1>5
  <2>3. (k * NAD) * p < (p * (X * X)) * p
    <3> DEFINE a == k * NAD
               b == p * (X * X)
    <3>1. a \in Nat /\ b \in Nat /\ a < b
      BY <1>1, <1>6, <1>7, MulNat
    <3> HIDE DEF a, b
    <3>2. (a + 1) * p <= b * p /\ (a + 1) * p = a * p + p /\ a * p \in Nat /\ b * p \in Nat
      BY <3>1, MulMonotone, MulNat
    <3>3. a * p < b * p
      BY <3>2
    <3> QED
      BY <3>3 DEF a, b
  <2>4. (p * (X * X)) * p = (p * X) * (p * X)
    BY <1>6
  <2>5. /\ (y * NAD) * (y * NAD) \in Nat /\ (k * NAD) * p \in Nat
        /\ (p * X) * (p * X) \in Nat
    BY <1>1, <1>5, <1>6, MulNat
  <2> QED
    BY <2>1, <2>2, <2>3, <2>4, <2>5
<1>10. y * NAD \in Nat /\ p * X \in Nat
  BY <1>1, <1>5, <1>6, MulNat
<1>11. y * NAD < p * X
  <2> DEFINE a == y * NAD
             b == p * X
  <2>1. a \in Nat /\ b \in Nat /\ a * a < b * b
    BY <1>9, <1>10
  <2> HIDE DEF a, b
  <2>2. a < b
    BY <2>1, LessBySquare
  <2> QED
    BY <2>2 DEF a, b
<1> QED
  BY <1>2, <1>11 DEF x, y, X, m

\* nor does it value collateral above the price
LEMMA ValueBelowPrice ==
  ASSUME NEW x \in Nat, NEW y \in Nat, NEW p \in Nat \ {0}, NEW amount \in Nat \ {0},
         y * NAD < p * (x + 1)
  PROVE  /\ CalculateAmountOut(x, y, amount) \in Nat
         /\ CalculateAmountOut(x, y, amount) * NAD <= p * amount
<1> DEFINE z     == x + amount
           value == (amount * y) \div z
<1>1. NAD \in Nat \ {0} /\ z \in Nat \ {0} /\ x + 1 \in Nat /\ x + 1 <= z /\ amount * y \in Nat
  BY ScaleAssumption, MulNat
<1>2. CalculateAmountOut(x, y, amount) = value
  BY DEF CalculateAmountOut
<1>3. value \in Nat /\ z * value <= amount * y
  BY <1>1, DivFloor
<1> HIDE DEF value, z
<1>4. y * NAD <= p * z
  <2>1. (x + 1) * p <= z * p /\ (x + 1) * p = p * (x + 1) /\ z * p = p * z
    BY <1>1, MulMonotone
  <2>2. y * NAD \in Nat /\ p * (x + 1) \in Nat /\ p * z \in Nat
    BY <1>1, MulNat
  <2> QED
    BY <2>1, <2>2
<1>5. (value * NAD) * z <= (p * amount) * z
  <2>1. (z * value) * NAD <= (amount * y) * NAD
    BY <1>1, <1>3, MulNat, MulMonotone
  <2>2. (y * NAD) * amount <= (p * z) * amount
    BY <1>1, <1>4, MulNat, MulMonotone
  <2>3. /\ (z * value) * NAD = (value * NAD) * z /\ (amount * y) * NAD = (y * NAD) * amount
        /\ (p * z) * amount = (p * amount) * z
    BY <1>1, <1>3
  <2>4. /\ (value * NAD) * z \in Nat /\ (y * NAD) * amount \in Nat
        /\ (p * amount) * z \in Nat
    BY <1>1, <1>3, MulNat
  <2> QED
    BY <2>1, <2>2, <2>3, <2>4
<1>6. value * NAD \in Nat /\ p * amount \in Nat
  BY <1>1, <1>3, MulNat
<1> DEFINE lower == value * NAD
           upper == p * amount
<1>7. lower \in Nat /\ upper \in Nat /\ lower * z <= upper * z
  BY <1>5, <1>6
<1> HIDE DEF lower, upper
<1>8. lower <= upper
  <2> SUFFICES ASSUME upper < lower PROVE FALSE
    BY <1>7
  <2>1. (upper + 1) * z <= lower * z
    BY <1>1, <1>7, MulMonotone
  <2>2. (upper + 1) * z = upper * z + z /\ upper * z \in Nat /\ lower * z \in Nat
    BY <1>1, <1>7, MulNat
  <2> QED
    BY <1>1, <1>7, <2>1, <2>2
<1> QED
  BY <1>2, <1>3, <1>8 DEF lower, upper

\* a debt above the factor's part of the price is above its part of the value
LEMMA LimitBelowDebt ==
  ASSUME NEW value \in Nat, NEW worth \in Nat, NEW cf \in Nat, NEW debt \in Nat,
         value * NAD <= worth, worth * cf < (debt * NAD) * BPS_DENOMINATOR
  PROVE  debt >= BpsFloor(value, cf)
<1> DEFINE part  == value * cf
           whole == debt * BPS_DENOMINATOR
<1>1. NAD \in Nat \ {0} /\ BPS_DENOMINATOR \in Nat \ {0} /\ part \in Nat /\ whole \in Nat
  BY ScaleAssumption, BpsFacts, MulNat
<1>2. part * NAD < whole * NAD
  <2>1. (value * NAD) * cf <= worth * cf
    BY <1>1, MulNat, MulMonotone
  <2>2. (value * NAD) * cf = part * NAD /\ (debt * NAD) * BPS_DENOMINATOR = whole * NAD
    BY <1>1
  <2>3. part * NAD \in Nat /\ worth * cf \in Nat /\ whole * NAD \in Nat
    BY <1>1, MulNat
  <2> HIDE DEF part, whole
  <2> QED
    BY <2>1, <2>2, <2>3
<1>3. part < whole
  <2> HIDE DEF part, whole
  <2> QED
    BY <1>1, <1>2, LessByFactor
<1>4. part \div BPS_DENOMINATOR <= debt
  <2>1. part < debt * BPS_DENOMINATOR + BPS_DENOMINATOR
    BY <1>1, <1>3
  <2> HIDE DEF part, whole
  <2> QED
    BY <1>1, <2>1, DivAtMost
<1> QED
  BY <1>4 DEF BpsFloor, part

\* The reported liquidation price is no promise that is broken late: below it
\* the position is liquidated, whatever the decimals of the tokens, the factor
\* and the depth of the pool.  The impact of the collateral on the curve and
\* every rounding on the way only lower what liquidate compares the debt with.
THEOREM LiquidationPriceHolds == Spec => []LiquidatedBelowPrice
<1>1. ASSUME PairInv, NEW u \in Users, NEW c \in Token, NEW l \in UpdatedPairs,
             position[u][c].collateral > 0, EmaPrice(l[c]) > 0, BelowLiquidationPrice(u, c, l),
             LiquidationReservesOk(l, c),
             MulFits(l[c].reserve * l[Other(c)].reserve, NAD)
      PROVE  Undercollateralized(u, c, l)
  <2> DEFINE d       == Other(c)
             held    == position[u][d].debt_shares
             pledged == position[u][c].collateral
             cf      == position[u][c].liquidation_cf
             debt    == CalculateDebt(held, l[d])
             p       == EmaPrice(l[c])
             rc      == l[c].reserve
             rd      == l[d].reserve
             v       == LiquidationReserves(l, c)
             value   == CalculateAmountOut(v.x, v.y, pledged)
  <2>1. Sound(l) /\ d \in Token
    BY <1>1, UpdateSound, Tokens DEF PairInv
  <2>2. /\ l \in [Token -> Ledger] /\ l[d] \in Ledger /\ l[c] \in Ledger
        /\ position \in [Users -> [Token -> Holding]]
    BY <2>1 DEF Sound, SoundPair
  <2>3. held \in Nat /\ pledged \in Nat \ {0} /\ cf \in Nat
    <3>1. held \in Nat /\ pledged \in Nat /\ cf \in 0 .. BPS_DENOMINATOR
      BY <2>1, <2>2, SharesNat, SharesOf, NumbersU64
    <3> HIDE DEF held, pledged, cf
    <3>2. pledged > 0
      BY <1>1 DEF pledged
    <3> QED
      BY <3>1, <3>2
  <2>4. p \in Nat \ {0} /\ rc \in Nat /\ rd \in Nat
    <3>1. l[c].reserve \in Nat /\ l[Other(c)].reserve \in Nat /\ l[c].symmetric \in Nat
      BY <2>1, <2>2, NumbersU64 DEF Ledger
    <3>2. EmaPrice(l[c]) \in Nat
      BY <3>1 DEF EmaPrice
    <3> QED
      BY <1>1, <3>1, <3>2
  <2>5. debt \in Nat
    BY <2>2, <2>3, DebtNat
  <2>6. p * DecimalScale[c] <= (UserLiquidationPrice(u, c, l) - 1) * DecimalScale[d]
    BY <1>1 DEF BelowLiquidationPrice
  <2>7. debt > 0
    <3> SUFFICES ASSUME debt = 0 PROVE FALSE
      BY <2>5
    <3>1. UserLiquidationPrice(u, c, l) = 0
      BY DEF UserLiquidationPrice, UserDebt
    <3>2. DecimalScale[c] \in Nat \ {0} /\ DecimalScale[d] \in Nat \ {0}
      BY <2>1, DecimalScaleAssumption
    <3>3. p * DecimalScale[c] <= (0 - 1) * DecimalScale[d]
      BY <2>6, <3>1
    <3> HIDE DEF p, d
    <3>4. p * DecimalScale[c] > 0 /\ (0 - 1) * DecimalScale[d] = -DecimalScale[d]
      BY <2>4, <3>2
    <3>5. p * DecimalScale[c] \in Nat
      BY <2>4, <3>2, MulNat
    <3> QED
      BY <3>2, <3>3, <3>4, <3>5
  <2>8. held > 0
    <3> SUFFICES ASSUME held = 0 PROVE FALSE
      BY <2>3
    <3>1. CalculateDebt(0, l[d]) = 0
      BY <2>2, NoSharesNoDebt
    <3> QED
      BY <2>7, <3>1
  <2> HIDE DEF p, debt, pledged, held, cf
  <2>9. value \in Nat /\ value * NAD <= p * pledged
    <3>1. MIN_LIQUIDITY \in Nat /\ NAD \in Nat
      BY MinLiquidityAssumption, ScaleAssumption
    <3>2. v = VirtualReserves(rc, rd, p, p) /\ Lesser(p, p) = p
      BY DEF LiquidationReserves, p, Lesser
    <3>3. CASE rc < MIN_LIQUIDITY \/ rd < MIN_LIQUIDITY
      <4>1. v.x = 0 /\ v.y = 0
        <5>1. v = [x |-> 0, y |-> 0]
          BY <3>2, <3>3 DEF VirtualReserves
        <5> HIDE DEF v
        <5> QED
          BY <5>1
      <4>2. v.y * NAD < p * (v.x + 1)
        BY <2>4, <3>1, <4>1
      <4> HIDE DEF v
      <4> QED
        BY <2>3, <2>4, <4>1, <4>2, ValueBelowPrice
    <3>4. CASE ~(rc < MIN_LIQUIDITY \/ rd < MIN_LIQUIDITY)
      <4>1. v.x = Sqrt(MulDiv(rc, rd, NAD, p)) /\ v.y = Sqrt(MulDiv(rd, rc, p, NAD))
        <5>1. v = [x |-> Sqrt(MulDiv(rc, rd, NAD, p)), y |-> Sqrt(MulDiv(rd, rc, p, NAD))]
          BY <2>4, <3>2, <3>4, Zenon DEF VirtualReserves
        <5> HIDE DEF v
        <5> QED
          BY <5>1
      <4>2. MulFits(rc * rd, NAD)
        BY <1>1
      <4> HIDE DEF rc, rd
      <4>3. v.y * NAD < p * (v.x + 1)
        BY <2>4, <4>1, <4>2, CurveBelowPrice
      <4>4. v.x \in Nat /\ v.y \in Nat
        BY <1>1, <2>2, LiquidationCurve
      <4> HIDE DEF v
      <4> QED
        BY <2>3, <2>4, <4>3, <4>4, ValueBelowPrice
    <3> QED
      BY <3>3, <3>4
  <2> HIDE DEF value
  <2>10. debt >= BpsFloor(value, cf)
    <3>1. CASE cf = 0
      <4>1. value * 0 = 0
        BY <2>9
      <4>2. 0 \div BPS_DENOMINATOR = 0
        BY DEF BPS_DENOMINATOR
      <4>3. BpsFloor(value, cf) = 0
        BY <3>1, <4>1, <4>2 DEF BpsFloor
      <4> QED
        BY <2>5, <4>3
    <3>2. CASE cf # 0
      <4>1. UserLiquidationPrice(u, c, l) = PriceAtLimit(c, pledged, debt, cf)
        <5>1. pledged # 0 /\ debt # 0
          BY <2>3, <2>7
        <5> QED
          BY <3>2, <5>1, Zenon DEF UserLiquidationPrice, UserDebt, debt, held, pledged, cf
      <4>2. (p * pledged) * cf < (debt * NAD) * BPS_DENOMINATOR
        BY <2>3, <2>4, <2>5, <2>6, <3>2, <4>1, PriceAtLimitBounds
      <4>3. p * pledged \in Nat
        BY <2>3, <2>4, MulNat
      <4> QED
        BY <2>3, <2>5, <2>9, <4>2, <4>3, LimitBelowDebt
    <3> QED
      BY <3>1, <3>2
  <2> QED
    BY <2>8, <2>10 DEF Undercollateralized, CollateralValue, value, v, d, debt, held, pledged, cf
<1>2. PairInv => LiquidatedBelowPrice
  BY <1>1 DEF LiquidatedBelowPrice
<1> QED
  BY <1>2, PairAlwaysSound, PTL

----------------------------------------------------------------------------
(* Debt and its shares go together: where the last share of a token's debt  *)
(* goes, SyncEmpty drops what is left of the debt.                          *)

AllDebtShared(l) == \A t \in Token : l[t].total_debt_shares = 0 => l[t].total_debt = 0

SharedInv == AllDebtShared(ledger)

\* interest on no debt is no debt
LEMMA UpdateKeepsNoDebt ==
  ASSUME NEW k \in Ledger, NEW reserve_other \in U64, NEW dt \in Nat, NEW integral \in Nat,
         UpdateTokenOk(k, dt, integral), k.total_debt = 0
  PROVE  UpdateToken(k, reserve_other, dt, integral).total_debt = 0
<1> DEFINE priced == UpdatePrices(k, SpotPrice(k.reserve, reserve_other), dt)
<1>1. k.reserve \in U64 /\ k.reserve \in Int
  BY WidthAssumption DEF Ledger, U64
<1>2. SpotPrice(k.reserve, reserve_other) \in U64
  BY <1>1, SpotPriceInU64
<1>3. UpdateToken(k, reserve_other, dt, integral)
        = IF dt = 0 THEN priced ELSE AccrueInterest(priced, integral)
  BY DEF UpdateToken
<1> HIDE DEF priced
<1>4. priced \in Ledger /\ priced.total_debt = 0
  BY <1>2, UpdatePricesKeeps DEF priced
<1>5. Interest(priced, integral) = 0
  <2>1. priced.total_debt * integral = 0
    BY <1>4
  <2> QED
    BY <2>1, ScaleAssumption DEF Interest, CeilDiv
<1>6. ProtocolFee(priced, integral) = 0
  <2>1. 0 * InterestBps = 0 /\ 0 \div BPS_DENOMINATOR = 0
    BY InterestBpsAssumption, BpsFacts
  <2> QED
    BY <1>5, <2>1 DEF ProtocolFee
<1>7. AccrueInterest(priced, integral).total_debt = 0
  <2>1. AccrueInterest(priced, integral).total_debt
          = priced.total_debt + Interest(priced, integral) + ProtocolFee(priced, integral)
    BY <1>4, Zenon DEF AccrueInterest, Ledger
  <2> QED
    BY <1>4, <1>5, <1>6, <2>1
<1> QED
  BY <1>3, <1>4, <1>7

LEMMA UpdateKeepsShared ==
  ASSUME Sound(ledger), Clock, AllDebtShared(ledger), NEW l \in UpdatedPairs
  PROVE  AllDebtShared(l)
<1>1. PICK ig \in Accruals : UpdateOk(ig) /\ l = Update(ig)
  BY DEF UpdatedPairs
<1> SUFFICES ASSUME NEW t \in Token, l[t].total_debt_shares = 0
             PROVE  l[t].total_debt = 0
  BY DEF AllDebtShared
<1>2. l[t] = UpdateToken(ledger[t], ledger[Other(t)].reserve, ElapsedMs, ig[t])
  BY <1>1, Tokens DEF Update, Updated, Sound, SoundPair, Token
<1>3. ledger[t] \in Ledger /\ ledger[Other(t)].reserve \in U64
  BY Tokens DEF Sound, SoundPair, Ledger
<1>4. UpdateTokenOk(ledger[t], ElapsedMs, ig[t])
  BY <1>1 DEF UpdateOk
<1>5. ElapsedMs \in Nat /\ ig[t] \in Nat
  BY <1>1, ElapsedNat, IntegralsAssumption DEF Accruals
<1>6. l[t].total_debt_shares = ledger[t].total_debt_shares
  BY <1>2, <1>3, <1>4, <1>5, UpdateTokenKeeps
<1>7. ledger[t].total_debt = 0
  BY <1>6 DEF AllDebtShared
<1> QED
  BY <1>2, <1>3, <1>4, <1>5, <1>7, UpdateKeepsNoDebt

\* nothing is left of a debt without shares
LEMMA RepaymentShared ==
  ASSUME NEW k \in Ledger, NEW shares, NEW amount
  PROVE  /\ LET n == Repayment(k, shares, amount) IN n.total_debt_shares = 0 => n.total_debt = 0
         /\ LET n == WriteOff(k, shares, amount) IN n.total_debt_shares = 0 => n.total_debt = 0
<1>1. PICK s, d, c : Repayment(k, shares, amount)
                         = SyncEmpty([k EXCEPT !.total_debt_shares = s, !.total_debt = d,
                                               !.cash_reserve = c])
  BY DEF Repayment
<1>2. PICK v, w, r : WriteOff(k, shares, amount)
                         = SyncEmpty([k EXCEPT !.total_debt_shares = v, !.total_debt = w,
                                               !.reserve = r])
  BY DEF WriteOff
<1>3. LET n == Repayment(k, shares, amount) IN n.total_debt_shares = 0 => n.total_debt = 0
  BY <1>1, Zenon DEF SyncEmpty, Ledger
<1>4. LET n == WriteOff(k, shares, amount) IN n.total_debt_shares = 0 => n.total_debt = 0
  BY <1>2, Zenon DEF SyncEmpty, Ledger
<1> QED
  BY <1>3, <1>4

\* a loan comes with shares
LEMMA LoanShared ==
  ASSUME NEW k \in Ledger, NEW amount \in Nat, amount > 0, BorrowSharesOk(k, amount)
  PROVE  IncreaseDebt(k, BorrowShares(k, amount), amount).total_debt_shares # 0
<1> DEFINE s == BorrowShares(k, amount)
           S == k.total_debt_shares
<1>1. S \in Nat /\ MaxU128 \in Nat \ {0}
  BY LedgerFields, WidthAssumption
<1>2. s \in Nat
  <2>1. 0 \in U128
    BY <1>1 DEF U128
  <2> QED
    BY <2>1, BorrowSharesRange
<1>3. S = 0 => s > 0
  <2>1. amount * DEBT_SHARE_SCALE > 0
    BY DebtShareScaleAssumption
  <2> QED
    BY <2>1 DEF BorrowShares
<1>4. IncreaseDebt(k, s, amount).total_debt_shares = SharesAfterBorrow(k, S, s)
  BY Zenon DEF IncreaseDebt, Ledger
<1> HIDE DEF s
<1>5. SharesAfterBorrow(k, S, s) # 0
  BY <1>1, <1>2, <1>3 DEF SharesAfterBorrow, SatAddShares, Lesser
<1> QED
  BY <1>4, <1>5 DEF s

\* what borrow lends, and on which terms
LEMMA LoanOf ==
  ASSUME NEW l, Sound(l), NEW u \in Users, NEW d \in Token, NEW amount \in U64,
         Borrow(u, d, amount, l)
  PROVE  LET held == position[u][d].debt_shares
             max  == MaxDebtForCollateral(l, Other(d), position[u][Other(d)].collateral)
         IN  \E borrow \in Nat :
               /\ borrow = IF amount = MaxU64 THEN max.limit - CalculateDebt(held, l[d])
                           ELSE amount
               /\ borrow > 0 /\ BorrowSharesOk(l[d], borrow) /\ borrow <= l[d].cash_reserve
               /\ max.ok /\ CalculateDebt(held, l[d]) + borrow <= max.limit
               /\ ledger' = [l EXCEPT ![d] = IncreaseDebt(l[d], BorrowShares(l[d], borrow), borrow)]
               /\ position'[u][d].debt_shares
                    = SharesAfterBorrow(l[d], held, BorrowShares(l[d], borrow))
               /\ position'[u][Other(d)].collateral = position[u][Other(d)].collateral
               /\ position'[u][Other(d)].liquidation_cf = max.cf
<1> DEFINE c      == Other(d)
           held   == position[u][d].debt_shares
           debt   == CalculateDebt(held, l[d])
           max    == MaxDebtForCollateral(l, c, position[u][c].collateral)
           borrow == IF amount = MaxU64 THEN max.limit - debt ELSE amount
           mine   == SharesAfterBorrow(l[d], held, BorrowShares(l[d], borrow))
<1>1. /\ l \in [Token -> Ledger] /\ position \in [Users -> [Token -> Holding]]
      /\ position[u] \in [Token -> Holding] /\ position[u][d] \in Holding
      /\ c \in Token /\ c # d
  BY Tokens DEF Sound, SoundPair
<1>2. /\ borrow > 0 /\ BorrowSharesOk(l[d], borrow) /\ borrow <= l[d].cash_reserve
      /\ max.ok /\ debt + borrow <= max.limit
      /\ ledger' = [l EXCEPT ![d] = IncreaseDebt(l[d], BorrowShares(l[d], borrow), borrow)]
      /\ position' = [position EXCEPT ![u][d].debt_shares = mine, ![u][c].liquidation_cf = max.cf]
  BY <1>1 DEF Borrow, CommitPair
<1>3. borrow \in Nat
  <2>1. debt \in Nat
    BY <1>1, SharesNat, DebtNat
  <2>2. max.limit \in Nat
    BY <1>1, SharesOf, PostCf, NumbersU64
  <2>3. amount \in Nat
    BY NumbersU64
  <2> HIDE DEF debt, max
  <2> QED
    BY <1>2, <2>1, <2>2, <2>3
<1>4. /\ position'[u][d].debt_shares = mine
      /\ position'[u][c].collateral = position[u][c].collateral
      /\ position'[u][c].liquidation_cf = max.cf
  <2> DEFINE cf == max.cf
  <2> HIDE DEF mine, max, cf
  <2>1. position' = [position EXCEPT ![u][d].debt_shares = mine, ![u][c].liquidation_cf = cf]
    BY <1>2 DEF cf
  <2> QED
    BY <1>1, <2>1 DEF Holding, cf
<1> QED
  BY <1>2, <1>3, <1>4

\* every step keeps the two together
LEMMA SharedStep == PairInv /\ SharedInv /\ [Next]_vars => SharedInv'
<1> SUFFICES ASSUME PairInv, AllDebtShared(ledger), [Next]_vars
             PROVE  AllDebtShared(ledger')
  BY DEF SharedInv
<1>1. \A l \in UpdatedPairs : /\ Sound(l) /\ AllDebtShared(l)
                             /\ l \in [Token -> Ledger]
  BY UpdateSound, UpdateKeepsShared DEF PairInv, Sound, SoundPair
<1>2. ASSUME NEW l \in UpdatedPairs, \A t \in Token : SameDebt(l[t], ledger'[t])
      PROVE  AllDebtShared(ledger')
  BY <1>1, <1>2 DEF AllDebtShared, SameDebt
<1>3. CASE \E l \in UpdatedPairs : PoolInstruction(l)
  BY <1>1, <1>2, <1>3, PoolKeepsDebt
<1>4. CASE \E l \in UpdatedPairs, u \in Users : LendingInstruction(u, l)
  <2>1. PICK l \in UpdatedPairs, u \in Users : LendingInstruction(u, l)
    BY <1>4
  <2>2. Sound(l) /\ AllDebtShared(l) /\ l \in [Token -> Ledger]
    BY <1>1
  <2>3. ASSUME NEW d \in Token, NEW k, k.total_debt_shares = 0 => k.total_debt = 0,
               ledger' = [l EXCEPT ![d] = k]
        PROVE  AllDebtShared(ledger')
    BY <2>2, <2>3 DEF AllDebtShared
  <2>4. CASE \E c \in Token : \E amount \in Inputs.collateral[c] : AddCollateral(u, c, amount, l)
    BY <1>2, <2>2, <2>4, CollateralKeepsDebt
  <2>5. CASE \E c \in Token : \E amount \in Inputs.withdraw[c] : RemoveCollateral(u, c, amount, l)
    BY <1>2, <2>2, <2>5, CollateralKeepsDebt
  <2>6. CASE \E d \in Token : \E amount \in Inputs.debt[d] : Borrow(u, d, amount, l)
    <3>1. PICK d \in Token : \E amount \in Inputs.debt[d] : Borrow(u, d, amount, l)
      BY <2>6
    <3>2. PICK amount \in Inputs.debt[d] : Borrow(u, d, amount, l)
      BY <3>1
    <3>3. amount \in U64
      BY InputsInU64
    <3>4. PICK borrow \in Nat :
            /\ borrow > 0 /\ BorrowSharesOk(l[d], borrow)
            /\ ledger' = [l EXCEPT ![d] = IncreaseDebt(l[d], BorrowShares(l[d], borrow), borrow)]
      BY <2>2, <3>2, <3>3, LoanOf
    <3> DEFINE k == IncreaseDebt(l[d], BorrowShares(l[d], borrow), borrow)
    <3>5. k.total_debt_shares # 0
      BY <2>2, <3>4, LoanShared
    <3> HIDE DEF k
    <3>6. ledger' = [l EXCEPT ![d] = k]
      BY <3>4 DEF k
    <3> QED
      BY <2>3, <3>5, <3>6
  <2>7. CASE \E d \in Token : \E amount \in Inputs.debt[d] : Repay(u, d, amount, l)
    <3>1. PICK d \in Token : \E amount \in Inputs.debt[d] : Repay(u, d, amount, l)
      BY <2>7
    <3>2. PICK shares, repaid : ledger' = [l EXCEPT ![d] = Repayment(l[d], shares, repaid)]
      BY <3>1 DEF Repay, CommitPair
    <3> DEFINE k == Repayment(l[d], shares, repaid)
    <3>3. k.total_debt_shares = 0 => k.total_debt = 0
      BY <2>2, RepaymentShared
    <3> HIDE DEF k
    <3>4. ledger' = [l EXCEPT ![d] = k]
      BY <3>2 DEF k
    <3> QED
      BY <2>3, <3>3, <3>4
  <2>8. CASE \E c \in Token : Liquidate(u, c, l)
    <3>1. PICK c \in Token : Liquidate(u, c, l)
      BY <2>8
    <3>2. PICK shares, written, seized, incentive :
            ledger' = [l EXCEPT ![Other(c)] = WriteOff(@, shares, written),
                                ![c] = Seize(@, seized, incentive)]
      BY <3>1 DEF Liquidate, CommitPair
    <3> DEFINE k == WriteOff(l[Other(c)], shares, written)
               n == Seize(l[c], seized, incentive)
    <3>3. k.total_debt_shares = 0 => k.total_debt = 0
      BY <2>2, Tokens, RepaymentShared
    <3>4. SameDebt(l[c], n)
      BY <2>2, Zenon DEF SameDebt, Seize, Credit, Ledger
    <3>5. ledger'[Other(c)] = k /\ ledger'[c] = n
      BY <2>2, <3>2, Tokens
    <3> HIDE DEF k, n
    <3>6. n.total_debt_shares = 0 => n.total_debt = 0
      BY <2>2, <3>4 DEF SameDebt, AllDebtShared
    <3> QED
      BY <3>3, <3>5, <3>6, Tokens DEF AllDebtShared
  <2> QED
    BY <2>1, <2>4, <2>5, <2>6, <2>7, <2>8 DEF LendingInstruction
<1>5. CASE Environment \/ UNCHANGED vars
  <2>1. ledger' = ledger
    BY <1>5 DEF Environment, Tick, Donate, SetPairReduceOnly, SetGlobalReduceOnly,
                vars, pairVars
  <2> QED
    BY <2>1 DEF AllDebtShared
<1> QED
  BY <1>3, <1>4, <1>5 DEF Next

LEMMA InitShared == Init => SharedInv
BY DEF Init, BootstrapLedger, AllDebtShared, SharedInv

\* No debt is left without shares that owe it: whichever instruction takes a
\* token's last share takes the rest of its debt, to the last unit of rounding.
THEOREM DebtAlwaysShared == Spec => []SharedInv
BY InitShared, SharedStep, PairAlwaysSound, PTL DEF Spec

----------------------------------------------------------------------------
(* What the owner of a position leaves owed is covered by the collateral.   *)

\* a loan raises the borrower's debt by its amount and less than the worth of
\* one share
LEMMA LoanAddsAmount ==
  ASSUME NEW k \in Ledger, k.total_debt_shares = 0 => k.total_debt = 0,
         NEW amount \in Nat, amount > 0, BorrowSharesOk(k, amount),
         NEW h \in Nat, h <= k.total_debt_shares,
         IncreaseDebt(k, BorrowShares(k, amount), amount) \in Ledger,
         ~IncreaseDebt(k, BorrowShares(k, amount), amount).clipped
  PROVE  LET s == BorrowShares(k, amount)
         IN  CalculateDebt(SharesAfterBorrow(k, h, s), IncreaseDebt(k, s, amount))
               <= CalculateDebt(h, k) + amount + CalculateDebt(1, k)
<1> DEFINE D    == k.total_debt
           S    == k.total_debt_shares
           s    == BorrowShares(k, amount)
           mine == SharesAfterBorrow(k, h, s)
           next == IncreaseDebt(k, s, amount)
           D2   == next.total_debt
           S2   == next.total_debt_shares
<1>1. D \in Nat /\ S \in Nat /\ MaxU128 \in Nat /\ MaxU64 \in Nat
  BY LedgerFields
<1>2. s \in Nat
  <2>1. 0 \in U128
    BY <1>1 DEF U128
  <2> QED
    BY <2>1, BorrowSharesRange
<1>3. /\ D2 = SatAdd(D, amount)
      /\ S2 = SharesAfterBorrow(k, S, s)
      /\ next.clipped = (k.clipped \/ S + s > MaxU128)
  <2> HIDE DEF s
  <2> QED
    BY Zenon DEF IncreaseDebt, Ledger
<1>4. D2 \in Nat /\ D2 <= D + amount
  BY <1>1, <1>3 DEF SatAdd, Lesser
<1>5. CalculateDebt(h, k) \in Nat /\ CalculateDebt(1, k) \in Nat
  BY DebtNat
<1>6. S2 # 0
  BY LoanShared
<1>7. CalculateDebt(mine, next) = CeilDiv(mine * D2, S2)
  <2> HIDE DEF mine, next
  <2> QED
    BY <1>6 DEF CalculateDebt
<1>8. ASSUME S = 0
      PROVE  CalculateDebt(mine, next) <= CalculateDebt(h, k) + amount + CalculateDebt(1, k)
  <2>1. mine = s /\ S2 = s /\ D2 <= amount
    BY <1>1, <1>3, <1>4, <1>8 DEF SharesAfterBorrow
  <2> HIDE DEF mine, s, D2, S2, next
  <2>2. s \in Nat \ {0} /\ mine * D2 = D2 * s /\ mine * D2 \in Nat
    BY <1>2, <1>4, <1>6, <2>1, MulNat
  <2>3. CeilDiv(mine * D2, S2) <= D2
    BY <1>4, <2>1, <2>2, CeilDivAtMost
  <2>4. CeilDiv(mine * D2, S2) \in Nat
    BY <2>1, <2>2, CeilDivNat
  <2> QED
    BY <1>4, <1>5, <1>7, <2>1, <2>3, <2>4
<1>9. ASSUME S # 0
      PROVE  CalculateDebt(mine, next) <= CalculateDebt(h, k) + amount + CalculateDebt(1, k)
  <2>1. S2 = S + s /\ mine = h + s
    <3>1. ~(S + s > MaxU128)
      BY <1>3, Zenon
    <3>2. S2 = SatAddShares(S, s) /\ mine = SatAddShares(h, s)
      BY <1>3, <1>9, Zenon DEF SharesAfterBorrow
    <3> HIDE DEF s, S2, mine
    <3> QED
      BY <1>1, <1>2, <3>1, <3>2 DEF SatAddShares, Lesser
  <2>2. D \in Nat \ {0} /\ s = CeilDiv(amount * S, D)
    BY <1>1, <1>9 DEF BorrowSharesOk, BorrowShares
  <2>3. amount * S \in Nat
    BY <1>1, MulNat
  <2>4. s * D >= amount * S /\ s * D < amount * S + D
    <3> HIDE DEF s, D, S
    <3> QED
      BY <2>2, <2>3, CeilDivAtLeast
  <2> DEFINE q == CalculateDebt(h, k)
             w == CalculateDebt(1, k)
  <2>5. q = CeilDiv(h * D, S) /\ w = CeilDiv(D, S)
    <3>1. 1 * D = D
      BY <1>1
    <3> QED
      BY <1>9, <3>1 DEF CalculateDebt
  <2>6. S \in Nat \ {0} /\ S2 \in Nat \ {0}
    BY <1>1, <1>2, <1>9, <2>1
  <2> HIDE DEF D, S, s, mine, D2, S2, next, q, w
  <2>7. q * S >= h * D /\ w * S >= D /\ q \in Nat /\ w \in Nat /\ h * D \in Nat
    <3>1. h * D \in Nat
      BY <1>1, MulNat
    <3> QED
      BY <1>1, <2>5, <2>6, <3>1, CeilDivAtLeast, CeilDivNat
  <2>8. D2 * S <= D * S2
    <3>1. D2 * S <= (D + amount) * S
      BY <1>1, <1>4, MulMonotone
    <3>2. (D + amount) * S = D * S + amount * S /\ D * (S + s) = D * S + s * D
      BY <1>1, <1>2
    <3>3. D * S \in Nat /\ s * D \in Nat /\ D2 * S \in Nat
      BY <1>1, <1>2, <1>4, MulNat
    <3> QED
      BY <2>1, <2>3, <2>4, <3>1, <3>2, <3>3
  <2>9. mine \in Nat
    BY <1>2, <2>1
  <2>10. CeilDiv(mine * D2, S2) <= CeilDiv(mine * D, S)
    BY <1>1, <1>4, <2>6, <2>8, <2>9, PartsMonotone
  <2>11. mine * D <= (q + amount + w) * S
    <3>1. mine * D = h * D + s * D
      BY <1>1, <1>2, <2>1
    <3>2. (q + amount + w) * S = q * S + amount * S + w * S
      BY <1>1, <2>7
    <3>3. s * D \in Nat /\ q * S \in Nat /\ w * S \in Nat
      BY <1>1, <1>2, <2>7, MulNat
    <3> QED
      BY <1>1, <2>3, <2>4, <2>7, <3>1, <3>2, <3>3
  <2>12. CeilDiv(mine * D, S) <= q + amount + w
    <3>1. mine * D \in Nat /\ q + amount + w \in Nat
      BY <1>1, <2>7, <2>9, MulNat
    <3> QED
      BY <2>6, <2>11, <3>1, CeilDivAtMost
  <2>13. CeilDiv(mine * D, S) \in Nat /\ CeilDiv(mine * D2, S2) \in Nat
    BY <1>1, <1>4, <2>6, <2>9, MulNat, CeilDivNat
  <2> QED
    BY <1>7, <2>7, <2>10, <2>12, <2>13 DEF q, w
<1> QED
  BY <1>8, <1>9

\* and by its amount at least, in a ledger whose debt the pair can still count
LEMMA LoanAddsNoLess ==
  ASSUME NEW k \in Ledger, k.total_debt_shares = 0 => k.total_debt = 0,
         NEW amount \in Nat, amount > 0, BorrowSharesOk(k, amount),
         k.total_debt + amount <= MaxU64,
         NEW h \in Nat, h <= k.total_debt_shares,
         ~IncreaseDebt(k, BorrowShares(k, amount), amount).clipped
  PROVE  LET s == BorrowShares(k, amount)
         IN  CalculateDebt(SharesAfterBorrow(k, h, s), IncreaseDebt(k, s, amount))
               >= CalculateDebt(h, k) + amount
<1> DEFINE D    == k.total_debt
           S    == k.total_debt_shares
           s    == BorrowShares(k, amount)
           mine == SharesAfterBorrow(k, h, s)
           next == IncreaseDebt(k, s, amount)
           D2   == next.total_debt
           S2   == next.total_debt_shares
           r    == CeilDiv(mine * D2, S2)
<1>1. D \in Nat /\ S \in Nat /\ MaxU128 \in Nat /\ MaxU64 \in Nat
  BY LedgerFields
<1>2. s \in Nat
  <2>1. 0 \in U128
    BY <1>1 DEF U128
  <2> QED
    BY <2>1, BorrowSharesRange
<1>3. /\ D2 = SatAdd(D, amount)
      /\ S2 = SharesAfterBorrow(k, S, s)
      /\ next.clipped = (k.clipped \/ S + s > MaxU128)
  <2> HIDE DEF s
  <2> QED
    BY Zenon DEF IncreaseDebt, Ledger
<1>4. D2 = D + amount
  BY <1>1, <1>3, SatAddRange
<1>5. S2 # 0
  BY LoanShared
<1>6. CalculateDebt(mine, next) = r
  <2> HIDE DEF mine, next
  <2> QED
    BY <1>5 DEF CalculateDebt
<1>7. ASSUME S = 0
      PROVE  r >= CalculateDebt(h, k) + amount
  <2>1. mine = s /\ S2 = s /\ D2 = amount /\ CalculateDebt(h, k) = 0
    BY <1>1, <1>3, <1>4, <1>7 DEF SharesAfterBorrow, CalculateDebt
  <2> HIDE DEF mine, s, D2, S2, next
  <2>2. s \in Nat \ {0} /\ s * amount \in Nat
    BY <1>2, <1>5, <2>1, MulNat
  <2>3. r \in Nat /\ r * s >= s * amount
    BY <2>1, <2>2, CeilDivNat, CeilDivAtLeast
  <2> HIDE DEF r
  <2>4. ASSUME r < amount PROVE FALSE
    <3>1. (r + 1) * s <= amount * s
      BY <2>2, <2>3, <2>4, MulMonotone
    <3>2. (r + 1) * s = r * s + s /\ amount * s = s * amount /\ r * s \in Nat
      BY <2>2, <2>3, MulNat
    <3> QED
      BY <2>2, <2>3, <3>1, <3>2
  <2> QED
    BY <2>1, <2>3, <2>4
<1>8. ASSUME S # 0
      PROVE  r >= CalculateDebt(h, k) + amount
  <2>1. S2 = S + s /\ mine = h + s
    <3>1. ~(S + s > MaxU128)
      BY <1>3, Zenon
    <3>2. S2 = SatAddShares(S, s) /\ mine = SatAddShares(h, s)
      BY <1>3, <1>8, Zenon DEF SharesAfterBorrow
    <3> HIDE DEF s, S2, mine
    <3> QED
      BY <1>1, <1>2, <3>1, <3>2 DEF SatAddShares, Lesser
  <2>2. D \in Nat \ {0} /\ s = CeilDiv(amount * S, D)
    BY <1>1, <1>8 DEF BorrowSharesOk, BorrowShares
  <2>3. amount * S \in Nat /\ s * D \in Nat
    BY <1>1, <1>2, MulNat
  <2>4. s * D >= amount * S
    <3> HIDE DEF s, D, S
    <3> QED
      BY <2>2, <2>3, CeilDivAtLeast
  <2> DEFINE q == CalculateDebt(h, k)
  <2>5. q = CeilDiv(h * D, S)
    BY <1>8 DEF CalculateDebt
  <2>6. S \in Nat \ {0} /\ S2 \in Nat \ {0} /\ h <= S
    BY <1>1, <1>2, <1>8, <2>1
  <2> HIDE DEF D, S, s, mine, D2, S2, next, q
  <2>7. q \in Nat /\ q * S < h * D + S /\ h * D \in Nat
    <3>1. h * D \in Nat
      BY <1>1, MulNat
    <3> QED
      BY <2>5, <2>6, <3>1, CeilDivNat, CeilDivAtLeast
  <2>8. mine * D2 \in Nat /\ r \in Nat /\ r * S2 >= mine * D2
    <3>1. mine * D2 \in Nat
      BY <1>1, <1>2, <1>4, <2>1, MulNat
    <3> QED
      BY <2>6, <3>1, CeilDivNat, CeilDivAtLeast
  <2> HIDE DEF r
  \* the other holders' part of the debt does not grow
  <2>9. (h * D + amount * S) * S2 <= (mine * D2) * S
    <3>1. (mine * D2) * S = (h * D + amount * S) * S2 + (S - h) * (s * D - amount * S)
      BY <1>1, <1>2, <1>4, <2>1
    <3>2. S - h \in Nat /\ s * D - amount * S \in Nat
      BY <2>3, <2>4, <2>6
    <3>3. (S - h) * (s * D - amount * S) \in Nat
      BY <3>2, MulNat
    <3>4. (h * D + amount * S) * S2 \in Nat
      BY <2>3, <2>6, <2>7, MulNat
    <3> QED
      BY <3>1, <3>3, <3>4
  <2>10. ASSUME r < q + amount PROVE FALSE
    <3>1. (r + 1) * S <= (q + amount) * S
      BY <2>6, <2>7, <2>8, <2>10, MulMonotone
    <3>2. (r + 1) * S = r * S + S /\ (q + amount) * S = q * S + amount * S
      BY <2>6, <2>7, <2>8
    <3>3. r * S \in Nat /\ q * S \in Nat
      BY <2>6, <2>7, <2>8, MulNat
    <3>4. r * S < h * D + amount * S
      BY <2>3, <2>6, <2>7, <3>1, <3>2, <3>3
    <3> DEFINE low == r * S
               top == h * D + amount * S
    <3>5. low + 1 <= top /\ low \in Nat /\ top \in Nat
      BY <2>3, <2>7, <3>3, <3>4
    <3>6. low * S2 + S2 <= top * S2
      <4> HIDE DEF low, top
      <4>1. (low + 1) * S2 <= top * S2 /\ (low + 1) * S2 = low * S2 + S2
        BY <2>6, <3>5, MulMonotone
      <4> QED
        BY <4>1
    <3>7. low * S2 = (r * S2) * S
      BY <2>6, <2>8
    <3>8. (mine * D2) * S <= (r * S2) * S
      BY <2>6, <2>8, MulMonotone, MulNat
    <3>9. (r * S2) * S \in Nat /\ (mine * D2) * S \in Nat /\ top * S2 \in Nat
      <4>1. r * S2 \in Nat
        BY <2>6, <2>8, MulNat
      <4> QED
        BY <2>6, <2>8, <3>5, <4>1, MulNat
    <3> QED
      BY <2>6, <2>9, <3>6, <3>7, <3>8, <3>9
  <2> QED
    BY <1>1, <2>7, <2>8, <2>10 DEF q
<1> QED
  BY <1>6, <1>7, <1>8

\* the debt a loan leaves: what was owed and what was lent, and less than one
\* share more
LEMMA DebtOfLoan ==
  ASSUME NEW l, Sound(l), SoundNext, AllDebtShared(l), NEW u \in Users, NEW d \in Token,
         NEW amount \in U64, Borrow(u, d, amount, l), ~ledger'[d].clipped
  PROVE  LET c      == Other(d)
             debt   == CalculateDebt(position[u][d].debt_shares, l[d])
             max    == MaxDebtForCollateral(l, c, position[u][c].collateral)
             borrow == IF amount = MaxU64 THEN max.limit - debt ELSE amount
         IN  /\ debt \in Nat /\ borrow \in Nat /\ borrow > 0
             /\ max.ok /\ debt + borrow <= max.limit
             /\ ledger' \in [Token -> Ledger]
             /\ ledger'[c] = l[c] /\ ledger'[d].reserve = l[d].reserve
             /\ position'[u][c].collateral = position[u][c].collateral
             /\ position'[u][c].liquidation_cf = max.cf
             /\ Debt(u, d)' \in Nat /\ ShareWorth(l[d]) \in Nat
             /\ Debt(u, d)' >= debt + borrow
             /\ Debt(u, d)' <= debt + borrow + ShareWorth(l[d])
<1> DEFINE c       == Other(d)
           held    == position[u][d].debt_shares
           pledged == position[u][c].collateral
           debt    == CalculateDebt(held, l[d])
           max     == MaxDebtForCollateral(l, c, pledged)
           share   == CalculateDebt(1, l[d])
<1>1. /\ l \in [Token -> Ledger] /\ ledger' \in [Token -> Ledger] /\ l[d] \in Ledger
      /\ position \in [Users -> [Token -> Holding]]
      /\ c \in Token /\ c # d
  BY Tokens DEF Sound, SoundNext, SoundPair
<1>2. PICK borrow \in Nat :
        /\ borrow = IF amount = MaxU64 THEN max.limit - debt ELSE amount
        /\ borrow > 0 /\ BorrowSharesOk(l[d], borrow) /\ borrow <= l[d].cash_reserve
        /\ max.ok /\ debt + borrow <= max.limit
        /\ ledger' = [l EXCEPT ![d] = IncreaseDebt(l[d], BorrowShares(l[d], borrow), borrow)]
        /\ position'[u][d].debt_shares = SharesAfterBorrow(l[d], held, BorrowShares(l[d], borrow))
        /\ position'[u][c].collateral = pledged
        /\ position'[u][c].liquidation_cf = max.cf
  BY <1>1, LoanOf
<1> DEFINE next == IncreaseDebt(l[d], BorrowShares(l[d], borrow), borrow)
           mine == SharesAfterBorrow(l[d], held, BorrowShares(l[d], borrow))
<1>3. ledger'[d] = next /\ ledger'[c] = l[c]
  BY <1>1, <1>2
<1>4. next \in Ledger /\ ~next.clipped /\ next.reserve = l[d].reserve /\ ~l[d].clipped
  <2>1. next \in Ledger /\ ~next.clipped
    BY <1>1, <1>3
  <2>2. next.reserve = l[d].reserve /\ (l[d].clipped => next.clipped)
    BY <1>1, Zenon DEF IncreaseDebt, Ledger
  <2> QED
    BY <2>1, <2>2
<1>5. held \in Nat /\ held <= l[d].total_debt_shares
  BY <1>1, <1>4, SharesNat, SharesWithinTotal
<1>6. l[d].total_debt_shares = 0 => l[d].total_debt = 0
  BY <1>1 DEF AllDebtShared
\* all debt is part of the reserve, and what is lent was in it as cash
<1>7. l[d].total_debt + borrow <= MaxU64
  <2>1. l[d].reserve = l[d].cash_reserve + l[d].total_debt
    BY <1>4, SoundParts DEF TokenInv, Balanced
  <2> QED
    BY <1>1, <1>2, <2>1, LedgerFields
<1>8. debt \in Nat /\ share \in Nat
  BY <1>1, <1>5, DebtNat
<1>9. CalculateDebt(mine, next) <= debt + borrow + share
  <2> HIDE DEF held
  <2> QED
    BY <1>1, <1>2, <1>4, <1>5, <1>6, LoanAddsAmount
<1>10. CalculateDebt(mine, next) >= debt + borrow
  <2> HIDE DEF held
  <2> QED
    BY <1>1, <1>2, <1>4, <1>5, <1>6, <1>7, LoanAddsNoLess
<1>11. Debt(u, d)' = CalculateDebt(mine, next)
  <2>1. Debt(u, d)' = CalculateDebt(position'[u][d].debt_shares, ledger'[d])
    BY DEF Debt
  <2> HIDE DEF next, mine
  <2> QED
    BY <1>2, <1>3, <2>1 DEF mine
<1>12. CalculateDebt(mine, next) \in Nat
  <2>1. mine \in Nat
    BY <1>1, <1>2, SharesOf, BorrowSharesRange, WidthAssumption DEF U128
  <2> HIDE DEF mine, next
  <2> QED
    BY <1>4, <2>1, DebtNat
<1> HIDE DEF next, mine, debt, share, max, held
<1>13. ShareWorth(l[d]) = share
  BY DEF ShareWorth, share
<1> QED
  BY <1>1, <1>2, <1>3, <1>4, <1>8, <1>9, <1>10, <1>11, <1>12, <1>13
     DEF debt, max, held

\* a withdrawal leaves the debt covered by what stays
LEMMA WithdrawalCovers ==
  ASSUME NEW l, Sound(l), NEW u \in Users, NEW c \in Token, NEW amount \in U64,
         RemoveCollateral(u, c, amount, l), PriceStepCounts(l, c),
         Debt(u, Other(c))' # 0
  PROVE  Debt(u, Other(c))' <= BpsFloor(CollateralValue(ledger', c, position'[u][c].collateral),
                                        MaxAllowedCf(position'[u][c].liquidation_cf))
<1> DEFINE d        == Other(c)
           held     == position[u][c].collateral
           debt     == CalculateDebt(position[u][d].debt_shares, l[d])
           withdraw == IF amount = MaxU64 /\ debt = 0 THEN held ELSE amount
           left     == held - withdraw
           max      == MaxDebtForCollateral(l, c, left)
           cf       == max.cf
           total    == l[c].total_collateral - withdraw
<1>1. /\ l \in [Token -> Ledger] /\ position \in [Users -> [Token -> Holding]]
      /\ position[u] \in [Token -> Holding] /\ position[u][c] \in Holding
      /\ d \in Token /\ c # d
  BY Tokens DEF Sound, SoundPair
<1>2. held \in Nat /\ held <= MaxU64 /\ amount \in Nat /\ MaxU64 \in Nat
  BY <1>1, SharesOf, NumbersU64
<1>3. /\ withdraw <= held /\ max.ok /\ (debt > 0 => max.limit >= debt)
      /\ ledger' = [l EXCEPT ![c].total_collateral = total]
      /\ position' = [position EXCEPT ![u][c].collateral = left, ![u][c].liquidation_cf = cf]
  BY DEF RemoveCollateral, RemoveCollateralOk, WithdrawalCovered, CommitPair
<1>4. withdraw \in Nat
  BY <1>2
<1>5. debt \in Nat
  BY <1>1, SharesNat, DebtNat
<1> HIDE DEF withdraw, debt
<1>6. left \in Nat /\ left \in U64
  BY <1>2, <1>3, <1>4 DEF U64
<1> HIDE DEF left, max, cf, total
<1>7. /\ position'[u][c].collateral = left /\ position'[u][c].liquidation_cf = cf
      /\ position'[u][d].debt_shares = position[u][d].debt_shares
  BY <1>1, <1>3 DEF Holding
<1>8. /\ ledger'[d] = l[d]
      /\ ledger'[c].reserve = l[c].reserve /\ ledger'[c].symmetric = l[c].symmetric
  BY <1>1, <1>3 DEF Ledger
<1>9. Debt(u, d)' = debt
  BY <1>7, <1>8 DEF Debt, debt
<1>10. debt > 0 /\ max.limit >= debt
  BY <1>3, <1>5, <1>9
<1>11. left > 0
  <2> SUFFICES ASSUME left = 0 PROVE FALSE
    BY <1>6
  <2>1. max = NoDebtAllowed
    BY Zenon DEF max, MaxDebtForCollateral, MaxDebt
  <2> QED
    BY <1>5, <1>10, <2>1 DEF NoDebtAllowed
<1>12. /\ max.limit \in Nat /\ CollateralValue(l, c, left) \in Nat /\ cf \in Nat
       /\ max.limit <= BpsFloor(CollateralValue(l, c, left), MaxAllowedCf(cf))
  BY <1>1, <1>3, <1>6, <1>11, LimitBelow DEF max, cf
<1>13. CollateralValue(ledger', c, left) = CollateralValue(l, c, left)
  BY <1>8, Zenon DEF CollateralValue, LiquidationReserves, EmaPrice, d
<1>14. BpsFloor(CollateralValue(l, c, left), MaxAllowedCf(cf)) \in Nat
  BY <1>12, BufferedBelow, BpsFloorNat
<1> QED
  BY <1>5, <1>7, <1>9, <1>10, <1>12, <1>13, <1>14

\* a loan leaves it covered up to a share
LEMMA LoanCovers ==
  ASSUME NEW l, Sound(l), SoundNext, AllDebtShared(l), NEW u \in Users, NEW c \in Token,
         NEW amount \in U64, Borrow(u, Other(c), amount, l), PriceStepCounts(l, c),
         ~ledger'[Other(c)].clipped
  PROVE  Debt(u, Other(c))' <= BpsFloor(CollateralValue(ledger', c, position'[u][c].collateral),
                                        MaxAllowedCf(position'[u][c].liquidation_cf))
                                 + ShareWorth(l[Other(c)])
<1> DEFINE d       == Other(c)
           pledged == position[u][c].collateral
           debt    == CalculateDebt(position[u][d].debt_shares, l[d])
           max     == MaxDebtForCollateral(l, c, pledged)
           borrow  == IF amount = MaxU64 THEN max.limit - debt ELSE amount
<1>1. /\ l \in [Token -> Ledger] /\ ledger' \in [Token -> Ledger]
      /\ position \in [Users -> [Token -> Holding]]
      /\ d \in Token /\ c # d /\ Other(d) = c
  BY Tokens DEF Sound, SoundNext, SoundPair
<1>2. /\ debt \in Nat /\ borrow \in Nat /\ borrow > 0
      /\ max.ok /\ debt + borrow <= max.limit
      /\ ledger'[c] = l[c] /\ ledger'[d].reserve = l[d].reserve
      /\ position'[u][c].collateral = pledged /\ position'[u][c].liquidation_cf = max.cf
      /\ Debt(u, d)' \in Nat /\ ShareWorth(l[d]) \in Nat
      /\ Debt(u, d)' <= debt + borrow + ShareWorth(l[d])
  BY <1>1, DebtOfLoan
<1>3. pledged \in U64 /\ pledged \in Nat
  BY <1>1, SharesOf, NumbersU64
<1> HIDE DEF debt, pledged, max, borrow
<1>4. pledged > 0
  <2> SUFFICES ASSUME pledged = 0 PROVE FALSE
    BY <1>3
  <2>1. max = NoDebtAllowed
    BY Zenon DEF max, MaxDebtForCollateral, MaxDebt
  <2> QED
    BY <1>2, <2>1 DEF NoDebtAllowed
<1>5. /\ max.limit \in Nat /\ CollateralValue(l, c, pledged) \in Nat /\ max.cf \in Nat
      /\ max.limit <= BpsFloor(CollateralValue(l, c, pledged), MaxAllowedCf(max.cf))
  BY <1>1, <1>2, <1>3, <1>4, LimitBelow DEF max
<1>6. CollateralValue(ledger', c, pledged) = CollateralValue(l, c, pledged)
  BY <1>2, Zenon DEF CollateralValue, LiquidationReserves, EmaPrice, d
<1>7. BpsFloor(CollateralValue(l, c, pledged), MaxAllowedCf(max.cf)) \in Nat
  BY <1>5, BufferedBelow, BpsFloorNat
<1> QED
  BY <1>2, <1>5, <1>6, <1>7

\* remove_collateral and borrow leave their owner's position healthy at the
\* factor they lock in, with the LTV buffer to spare, in every pair.
THEOREM OwnersStayCovered == Spec => OwnerLeavesPositionCovered
<1>1. ASSUME PairInv, SharedInv, [Next]_vars, NEW u \in Users, NEW c \in Token, NEW l \in UpdatedPairs,
             PriceStepCounts(l, c)
      PROVE  /\ (\E a \in Inputs.withdraw[c] : RemoveCollateral(u, c, a, l)) =>
                   \/ Debt(u, Other(c))' = 0
                   \/ Debt(u, Other(c))' <=
                        BpsFloor(CollateralValue(ledger', c, position'[u][c].collateral),
                                 MaxAllowedCf(position'[u][c].liquidation_cf))
             /\ (\E a \in Inputs.debt[Other(c)] : Borrow(u, Other(c), a, l)) =>
                   \/ Debt(u, Other(c))' <=
                        BpsFloor(CollateralValue(ledger', c, position'[u][c].collateral),
                                 MaxAllowedCf(position'[u][c].liquidation_cf))
                          + ShareWorth(l[Other(c)])
                   \/ ledger'[Other(c)].clipped
  <2>1. Sound(l) /\ AllDebtShared(l) /\ Other(c) \in Token
    BY <1>1, UpdateSound, UpdateKeepsShared, Tokens DEF PairInv, SharedInv
  <2>2. \A a \in Inputs.withdraw[c] : a \in U64
    BY InputsInU64
  <2>3. \A a \in Inputs.debt[Other(c)] : a \in U64
    BY <2>1, InputsInU64
  <2>4. \A a \in Inputs.debt[Other(c)] : Borrow(u, Other(c), a, l) => SoundNext
    BY <2>1, <2>3, BorrowSound
  <2> QED
    BY <1>1, <2>1, <2>2, <2>3, <2>4, WithdrawalCovers, LoanCovers
<1>2. PairInv /\ SharedInv /\ [Next]_vars =>
        [ \A u \in Users, c \in Token, l \in UpdatedPairs :
            LET owed  == Debt(u, Other(c))'
                worth == CollateralValue(ledger', c, position'[u][c].collateral)
                limit == BpsFloor(worth, MaxAllowedCf(position'[u][c].liquidation_cf))
            IN  PriceStepCounts(l, c) =>
                  /\ (\E a \in Inputs.withdraw[c] : RemoveCollateral(u, c, a, l)) =>
                        owed = 0 \/ owed <= limit
                  /\ (\E a \in Inputs.debt[Other(c)] : Borrow(u, Other(c), a, l)) =>
                        \/ owed <= limit + ShareWorth(l[Other(c)])
                        \/ ledger'[Other(c)].clipped ]_vars
  BY <1>1
<1> QED
  BY <1>2, PairAlwaysSound, DebtAlwaysShared, PTL DEF Spec, OwnerLeavesPositionCovered

----------------------------------------------------------------------------
(* The views that foretell a loan. *)

\* saturating_mul grows with its first factor
LEMMA SatMulMonotone ==
  ASSUME NEW a \in Nat, NEW b \in Nat, NEW f \in Nat, a <= b
  PROVE  SatMul(a, f) <= SatMul(b, f)
<1>1. a * f <= b * f /\ a * f \in Nat /\ b * f \in Nat /\ MaxU128 \in Nat
  BY MulMonotone, MulNat, WidthAssumption
<1>2. CASE MulFits(b, f)
  <2>1. MulFits(a, f)
    <3>1. CASE f = 0
      BY <3>1 DEF MulFits
    <3>2. CASE f # 0
      <4>1. MaxU128 \div f \in Nat
        BY <1>1, <3>2, DivFloor
      <4> QED
        BY <1>2, <4>1 DEF MulFits
    <3> QED
      BY <3>1, <3>2
  <2> QED
    BY <1>1, <1>2, <2>1 DEF SatMul
<1>3. CASE ~MulFits(b, f)
  <2>1. SatMul(b, f) = MaxU128
    BY <1>3 DEF SatMul
  <2>2. SatMul(a, f) <= MaxU128
    <3>1. CASE MulFits(a, f)
      BY <1>1, <3>1, MulFitsBound DEF SatMul, U128
    <3>2. CASE ~MulFits(a, f)
      BY <1>1, <3>2 DEF SatMul
    <3> QED
      BY <3>1, <3>2
  <2> QED
    BY <2>1, <2>2
<1> QED
  BY <1>2, <1>3

\* of two debts against the same collateral the greater has the higher price
LEMMA PriceAtLimitMonotone ==
  ASSUME NEW c \in Token, NEW collateral \in Nat \ {0}, NEW cf \in Nat \ {0},
         NEW debt \in Nat, NEW more \in Nat, debt <= more
  PROVE  /\ PriceAtLimit(c, collateral, debt, cf) \in Nat
         /\ PriceAtLimit(c, collateral, debt, cf) <= PriceAtLimit(c, collateral, more, cf)
<1> DEFINE up     == DecimalScale[c]
           down   == DecimalScale[Other(c)]
           num(x) == SatMul(SatMul(SatMul(x, up), NAD), BPS_DENOMINATOR)
           den    == SatMul(SatMul(collateral, down), cf)
           top(x) == Lesser(num(x) + (den - 1), MaxU128)
<1>1. /\ up \in Nat \ {0} /\ down \in Nat \ {0} /\ NAD \in Nat \ {0} /\ BPS_DENOMINATOR \in Nat \ {0}
      /\ MaxU64 \in Nat /\ MaxU128 \in Nat \ {0}
  BY Tokens, DecimalScaleAssumption, ScaleAssumption, BpsFacts, WidthAssumption
<1> HIDE DEF up, down
<1>2. num(debt) \in Nat /\ num(more) \in Nat /\ num(debt) <= num(more)
  <2> DEFINE one(x) == SatMul(x, up)
             two(x) == SatMul(one(x), NAD)
  <2>1. one(debt) \in Nat /\ one(more) \in Nat /\ one(debt) <= one(more)
    BY <1>1, SatMulRange, SatMulMonotone
  <2> HIDE DEF one
  <2>2. two(debt) \in Nat /\ two(more) \in Nat /\ two(debt) <= two(more)
    BY <1>1, <2>1, SatMulRange, SatMulMonotone
  <2> HIDE DEF two
  <2>3. /\ SatMul(two(debt), BPS_DENOMINATOR) \in Nat /\ SatMul(two(more), BPS_DENOMINATOR) \in Nat
        /\ SatMul(two(debt), BPS_DENOMINATOR) <= SatMul(two(more), BPS_DENOMINATOR)
    BY <1>1, <2>2, SatMulRange, SatMulMonotone
  <2> QED
    BY <2>3 DEF one, two
<1>3. den \in Nat \ {0}
  <2>1. \A a, b \in Nat \ {0} : SatMul(a, b) \in Nat \ {0}
    <3> SUFFICES ASSUME NEW a \in Nat \ {0}, NEW b \in Nat \ {0} PROVE SatMul(a, b) \in Nat \ {0}
      OBVIOUS
    <3>1. a * b > 0
      OBVIOUS
    <3>2. SatMul(a, b) \in Nat /\ (SatMul(a, b) = a * b \/ SatMul(a, b) = MaxU128)
      BY SatMulRange
    <3> QED
      BY <1>1, <3>1, <3>2
  <2>2. SatMul(collateral, down) \in Nat \ {0}
    BY <1>1, <2>1
  <2> QED
    BY <2>1, <2>2
<1> HIDE DEF num, den
<1>4. top(debt) \in Nat /\ top(more) \in Nat /\ top(debt) <= top(more)
  BY <1>1, <1>2, <1>3 DEF Lesser
<1> HIDE DEF top
<1>5. top(debt) \div den \in Nat /\ top(debt) \div den <= top(more) \div den
      /\ top(more) \div den \in Nat
  BY <1>3, <1>4, DivFloor, DivMonotone
<1> DEFINE less    == top(debt) \div den
           greater == top(more) \div den
<1>6. less \in Nat /\ greater \in Nat /\ less <= greater
  BY <1>5
<1>7. /\ PriceAtLimit(c, collateral, debt, cf) = Lesser(less, MaxU64)
      /\ PriceAtLimit(c, collateral, more, cf) = Lesser(greater, MaxU64)
  BY Zenon DEF PriceAtLimit, top, num, den, up, down
<1> HIDE DEF less, greater
<1> QED
  BY <1>1, <1>6, <1>7 DEF Lesser

\* get_liquidation_price answers after the loan what was simulated before it.
THEOREM SimulationHolds == Spec => SimulationForetells
<1>1. ASSUME PairInv, SharedInv, NEW u \in Users, NEW d \in Token, NEW l \in UpdatedPairs,
             NEW amount \in Inputs.debt[d], amount # MaxU64,
             position[u][d].debt_shares = 0, Borrow(u, d, amount, l), ~ledger'[d].clipped
      PROVE  UserLiquidationPrice(u, Other(d), ledger)'
               \in SimulateLiquidationPrice(l, Other(d), position[u][Other(d)].collateral, amount)
                   .. SimulateLiquidationPrice(l, Other(d), position[u][Other(d)].collateral,
                                               amount + ShareWorth(l[d]))
  <2> DEFINE c       == Other(d)
             pledged == position[u][c].collateral
             max     == MaxDebtForCollateral(l, c, pledged)
             cf      == max.cf
             share   == ShareWorth(l[d])
             owed    == Debt(u, d)'
  <2>1. Sound(l) /\ AllDebtShared(l) /\ c \in Token /\ Other(c) = d
    BY <1>1, UpdateSound, UpdateKeepsShared, Tokens DEF PairInv, SharedInv
  <2>2. amount \in U64 /\ amount \in Nat
    BY <1>1, InputsInU64, NumbersU64
  <2>3. SoundNext
    BY <1>1, <2>1, <2>2, BorrowSound
  <2>4. CalculateDebt(position[u][d].debt_shares, l[d]) = 0
    <3>1. l[d] \in Ledger
      BY <2>1 DEF Sound, SoundPair
    <3> QED
      BY <1>1, <3>1, NoSharesNoDebt
  <2>5. /\ position'[u][c].collateral = pledged /\ position'[u][c].liquidation_cf = cf
        /\ owed \in Nat /\ share \in Nat /\ amount > 0
        /\ owed >= amount /\ owed <= amount + share
    BY <1>1, <2>1, <2>2, <2>3, <2>4, DebtOfLoan
  <2>6. pledged \in Nat /\ cf \in Nat
    <3>1. l \in [Token -> Ledger] /\ position \in [Users -> [Token -> Holding]]
      BY <2>1 DEF Sound, SoundPair
    <3>2. pledged \in U64
      BY <2>1, <3>1, SharesOf
    <3> HIDE DEF pledged
    <3>3. cf \in 0 .. BPS_DENOMINATOR
      BY <2>1, <3>1, <3>2, PostCf
    <3> QED
      BY <3>2, <3>3, NumbersU64
  <2>7. UserLiquidationPrice(u, c, ledger)'
          = IF owed = 0 THEN 0
            ELSE IF position'[u][c].collateral = 0 \/ position'[u][c].liquidation_cf = 0
            THEN MaxU64
            ELSE PriceAtLimit(c, position'[u][c].collateral, owed, position'[u][c].liquidation_cf)
    BY <2>1 DEF UserLiquidationPrice, UserDebt, Debt
  <2>8. \A x : SimulateLiquidationPrice(l, c, pledged, x)
                 = IF pledged = 0 \/ cf = 0 THEN MaxU64 ELSE PriceAtLimit(c, pledged, x, cf)
    BY DEF SimulateLiquidationPrice
  <2> HIDE DEF c, pledged, max, cf, share, owed
  <2>9. CASE pledged = 0 \/ cf = 0
    <3>1. MaxU64 \in Nat
      BY WidthAssumption
    <3> QED
      BY <2>2, <2>5, <2>7, <2>8, <2>9, <3>1 DEF c, pledged, share
  <2>10. CASE pledged # 0 /\ cf # 0
    <3>1. amount + share \in Nat
      BY <2>2, <2>5
    <3>2. /\ PriceAtLimit(c, pledged, amount, cf) \in Nat
          /\ PriceAtLimit(c, pledged, amount, cf) <= PriceAtLimit(c, pledged, owed, cf)
          /\ PriceAtLimit(c, pledged, owed, cf) \in Nat
          /\ PriceAtLimit(c, pledged, owed, cf) <= PriceAtLimit(c, pledged, amount + share, cf)
          /\ PriceAtLimit(c, pledged, amount + share, cf) \in Nat
      <4> DEFINE most == amount + share
      <4>1. most \in Nat /\ amount <= owed /\ owed <= most
        BY <2>5, <3>1
      <4>2. pledged \in Nat \ {0} /\ cf \in Nat \ {0}
        BY <2>6, <2>10
      <4> HIDE DEF most
      <4>3. /\ PriceAtLimit(c, pledged, amount, cf) \in Nat
            /\ PriceAtLimit(c, pledged, amount, cf) <= PriceAtLimit(c, pledged, owed, cf)
        BY <2>1, <2>2, <2>5, <4>1, <4>2, PriceAtLimitMonotone
      <4>4. /\ PriceAtLimit(c, pledged, owed, cf) \in Nat
            /\ PriceAtLimit(c, pledged, owed, cf) <= PriceAtLimit(c, pledged, most, cf)
        BY <2>1, <2>5, <4>1, <4>2, PriceAtLimitMonotone
      <4>5. PriceAtLimit(c, pledged, most, cf) \in Nat
        BY <2>1, <4>1, <4>2, PriceAtLimitMonotone
      <4> QED
        BY <4>3, <4>4, <4>5 DEF most
    <3>3. UserLiquidationPrice(u, c, ledger)' = PriceAtLimit(c, pledged, owed, cf)
      BY <2>2, <2>5, <2>7, <2>10
    <3>4. /\ SimulateLiquidationPrice(l, c, pledged, amount) = PriceAtLimit(c, pledged, amount, cf)
          /\ SimulateLiquidationPrice(l, c, pledged, amount + share)
               = PriceAtLimit(c, pledged, amount + share, cf)
      BY <2>8, <2>10
    <3> QED
      BY <3>2, <3>3, <3>4 DEF c, pledged, share
  <2> QED
    BY <2>9, <2>10
<1>2. PairInv /\ SharedInv =>
        \A u \in Users, d \in Token, l \in UpdatedPairs : \A amount \in Inputs.debt[d] \ {MaxU64} :
          position[u][d].debt_shares = 0 /\ Borrow(u, d, amount, l) =>
            LET c == Other(d)
                simulated(debt) ==
                  SimulateLiquidationPrice(l, c, position[u][c].collateral, debt)
            IN  \/ UserLiquidationPrice(u, c, ledger)'
                     \in simulated(amount) .. simulated(amount + ShareWorth(l[d]))
                \/ ledger'[d].clipped
  BY <1>1
<1> QED
  BY <1>2, PairAlwaysSound, DebtAlwaysShared, PTL DEF Spec, SimulationForetells

\* Whoever asks for all that can be borrowed is brought to the limit the view
\* reports, and by a share's rounding at most above it.
THEOREM AllOfLimitLent == Spec => AllOfLimitIsLent
<1>1. ASSUME PairInv, SharedInv, NEW u \in Users, NEW d \in Token, NEW l \in UpdatedPairs,
             Borrow(u, d, MaxU64, l), ~ledger'[d].clipped
      PROVE  UserDebt(u, d, ledger)' \in UserDynamicBorrowLimit(u, d, l)
                                         .. UserDynamicBorrowLimit(u, d, l) + ShareWorth(l[d])
  <2> DEFINE c     == Other(d)
             debt  == CalculateDebt(position[u][d].debt_shares, l[d])
             limit == MaxDebtForCollateral(l, c, position[u][c].collateral).limit
             share == ShareWorth(l[d])
             owed  == Debt(u, d)'
  <2>1. Sound(l) /\ AllDebtShared(l) /\ c \in Token
    BY <1>1, UpdateSound, UpdateKeepsShared, Tokens DEF PairInv, SharedInv
  <2>2. MaxU64 \in U64
    BY WidthAssumption DEF U64
  <2>3. SoundNext
    BY <1>1, <2>1, <2>2, BorrowSound
  <2>4. limit \in Nat
    <3>1. l \in [Token -> Ledger] /\ position \in [Users -> [Token -> Holding]]
      BY <2>1 DEF Sound, SoundPair
    <3> QED
      BY <2>1, <3>1, SharesOf, PostCf, NumbersU64
  <2>5. /\ debt \in Nat /\ owed \in Nat /\ share \in Nat
        /\ owed >= debt + (limit - debt) /\ owed <= debt + (limit - debt) + share
    BY <1>1, <2>1, <2>2, <2>3, DebtOfLoan
  <2>6. UserDebt(u, d, ledger)' = owed /\ UserDynamicBorrowLimit(u, d, l) = limit
    BY DEF UserDebt, Debt, UserDynamicBorrowLimit
  <2> HIDE DEF debt, limit, share, owed
  <2> QED
    BY <2>4, <2>5, <2>6 DEF share
<1>2. PairInv /\ SharedInv =>
        \A u \in Users, d \in Token, l \in UpdatedPairs :
          Borrow(u, d, MaxU64, l) =>
            LET limit == UserDynamicBorrowLimit(u, d, l)
            IN  \/ UserDebt(u, d, ledger)' \in limit .. limit + ShareWorth(l[d])
                \/ ledger'[d].clipped
  BY <1>1
<1> QED
  BY <1>2, PairAlwaysSound, DebtAlwaysShared, PTL DEF Spec, AllOfLimitIsLent

----------------------------------------------------------------------------
(* Borrowers' exit. *)

\* a position's debt is computed without an error, and is at most all debt
LEMMA DebtIsComputed ==
  ASSUME NEW k \in Ledger, DebtFits(k), NEW h \in Nat, h <= k.total_debt_shares
  PROVE  /\ CalculateDebtOk(h, k)
         /\ CalculateDebt(h, k) <= k.total_debt
         /\ MulFits(CalculateDebt(h, k), k.total_debt_shares)
<1> DEFINE S == k.total_debt_shares
           D == k.total_debt
           debt == CalculateDebt(h, k)
<1>1. D \in Nat /\ S \in Nat /\ D <= MaxU64 /\ MaxU64 \in Nat /\ MaxU128 \in Nat
  BY LedgerFields
<1>2. debt \in Nat
  BY DebtNat
<1>3. CASE S = 0
  <2>1. debt = 0
    BY <1>3 DEF CalculateDebt
  <2> QED
    BY <1>1, <1>3, <2>1 DEF CalculateDebtOk, MulFits
<1>4. CASE S > 0
  <2> HIDE DEF S, D
  <2>1. h * D \in Nat /\ S * D \in Nat /\ h * D <= D * S /\ D * S = S * D /\ (D + 1) * S = D * S + S
    BY <1>1, MulNat, MulMonotone DEF S
  <2>2. debt <= D
    <3>1. CeilDiv(h * D, S) <= D
      BY <1>1, <1>4, <2>1, CeilDivAtMost
    <3> QED
      BY <1>4, <3>1 DEF debt, CalculateDebt, S, D
  <2>3. MulFits(D + 1, S)
    BY DEF DebtFits, D, S
  <2>4. D * S + S <= MaxU128
    BY <1>1, <2>1, <2>3, MulFitsBound DEF U128
  <2>5. MulFits(debt, S)
    <3> HIDE DEF debt
    <3> QED
      BY <1>1, <1>2, <1>4, <2>2, <2>3 DEF MulFits
  <2>6. MulFits(h, D)
    <3>1. CASE D = 0
      BY <3>1 DEF MulFits
    <3>2. CASE D > 0
      <4>1. h * D <= MaxU128
        BY <1>1, <2>1, <2>4
      <4>2. h <= MaxU128 \div D
        BY <1>1, <3>2, <4>1, DivAtLeast
      <4> QED
        BY <4>2 DEF MulFits
    <3> QED
      BY <1>1, <3>1, <3>2
  <2>7. h * D + S - 1 <= MaxU128
    BY <1>1, <2>1, <2>4
  <2>8. debt \in U64
    BY <1>1, <1>2, <2>2 DEF U64
  <2> QED
    BY <2>2, <2>5, <2>6, <2>7, <2>8 DEF CalculateDebtOk, D, S, debt
<1> QED
  BY <1>1, <1>3, <1>4

\* Whoever owes can repay, whatever the mode, the price and what others do, as
\* long as the program's integers can hold the numbers.
THEOREM DebtsAreRepayable == Spec => []DebtCanBeRepaid
<1>1. ASSUME PairInv, NEW u \in Users, NEW d \in Token, NEW l \in UpdatedPairs,
             CalculateDebt(position[u][d].debt_shares, l[d]) > 0,
             ~l[d].clipped, DebtFits(l[d]),
             reserve_vault[d] + CalculateDebt(position[u][d].debt_shares, l[d]) <= MaxU64
      PROVE  RepayOk(u, d, MaxU64, l)
  <2> DEFINE held == position[u][d].debt_shares
             debt == CalculateDebt(held, l[d])
  <2>1. Sound(l)
    BY <1>1, UpdateSound DEF PairInv
  <2>2. l[d] \in Ledger
    BY <2>1 DEF Sound, SoundPair
  <2>3. held \in Nat /\ held <= l[d].total_debt_shares
    BY <1>1, <2>1, SharesNat, SharesWithinTotal
  <2> HIDE DEF held
  <2>4. CalculateDebtOk(held, l[d]) /\ debt <= l[d].total_debt /\ MulFits(debt, l[d].total_debt_shares)
    BY <1>1, <2>2, <2>3, DebtIsComputed
  <2>5. debt \in Nat /\ l[d].total_debt \in Nat
    BY <2>2, <2>3, DebtNat, LedgerFields
  <2>6. debt > 0 /\ reserve_vault[d] + debt <= MaxU64
    BY <1>1 DEF held
  <2> HIDE DEF debt
  <2>7. RepaidSharesOk(l[d], debt)
    BY <2>4, <2>5, <2>6 DEF RepaidSharesOk
  <2>8. MaxU64 > 0
    BY WidthAssumption
  <2> QED
    BY <2>4, <2>5, <2>6, <2>7, <2>8 DEF RepayOk, debt, held
<1>2. PairInv => DebtCanBeRepaid
  BY <1>1 DEF DebtCanBeRepaid
<1> QED
  BY <1>2, PairAlwaysSound, PTL

\* what calculate_amount_in asks for more is no less
LEMMA AmountInMonotone ==
  ASSUME NEW x \in Nat, NEW y \in Nat, NEW w \in Nat, NEW d \in Nat, w <= d, d < y
  PROVE  /\ CalculateAmountIn(x, y, w) \in Nat /\ CalculateAmountIn(x, y, d) \in Nat
         /\ CalculateAmountIn(x, y, w) <= CalculateAmountIn(x, y, d)
<1> DEFINE a == CeilDiv(d * x, y - d)
<1>1. w * x \in Nat /\ d * x \in Nat /\ y - d \in Nat \ {0} /\ y - w \in Nat \ {0} /\ w * x <= d * x
  BY MulNat, MulMonotone
<1>2. a \in Nat /\ a * (y - d) >= d * x
  BY <1>1, CeilDivNat, CeilDivAtLeast
<1> HIDE DEF a
<1>3. (y - d) * a <= (y - w) * a
  BY <1>1, <1>2, MulMonotone
<1>4. w * x <= a * (y - w)
  <2>1. (y - d) * a = a * (y - d) /\ (y - w) * a = a * (y - w)
    BY <1>2
  <2>2. a * (y - d) \in Nat /\ a * (y - w) \in Nat
    BY <1>1, <1>2, MulNat
  <2> QED
    BY <1>1, <1>2, <1>3, <2>1, <2>2
<1>5. CeilDiv(w * x, y - w) <= a /\ CeilDiv(w * x, y - w) \in Nat
  BY <1>1, <1>2, <1>4, CeilDivAtMost, CeilDivNat
<1> QED
  BY <1>2, <1>5 DEF CalculateAmountIn, a

\* writing off more than the collateral is worth costs all of the collateral
LEMMA AllIsSeized ==
  ASSUME NEW x \in Nat, NEW y \in Nat, NEW pledged \in Nat, NEW w \in Nat, w < y,
         AmountOutOk(x, pledged), w > CalculateAmountOut(x, y, pledged)
  PROVE  SeizedCollateral(CalculateAmountIn(x, y, w), pledged) = pledged
<1> DEFINE base  == CalculateAmountIn(x, y, w)
           value == CalculateAmountOut(x, y, pledged)
<1>1. base \in Nat
  BY AmountInMonotone
<1>2. value \in Nat
  BY AmountOutNat
<1>3. base >= pledged
  <2> SUFFICES ASSUME base < pledged PROVE FALSE
    BY <1>1
  <2>1. x + base > 0
    <3> SUFFICES ASSUME x = 0 PROVE FALSE
      <4> HIDE DEF base
      <4> QED
        BY <1>1
    <3>1. value = y
      <4>1. value = (pledged * y) \div pledged
        BY DEF CalculateAmountOut
      <4>2. pledged > 0
        <5> HIDE DEF base
        <5> QED
          BY <1>1
      <4>3. y * pledged <= pledged * y /\ pledged * y < y * pledged + pledged /\ pledged * y \in Nat
        BY <4>2, MulNat
      <4>4. (pledged * y) \div pledged >= y /\ (pledged * y) \div pledged <= y
        BY <4>2, <4>3, DivAtLeast, DivAtMost
      <4> HIDE DEF value
      <4> QED
        BY <1>2, <4>1, <4>4
    <3> HIDE DEF value
    <3> QED
      BY <1>2, <3>1 DEF value
  <2>2. CalculateAmountOut(x, y, base) >= w
    BY <2>1, AmountInBuys
  <2> HIDE DEF base
  <2>3. CalculateAmountOut(x, y, base) <= value
    BY <1>1, <2>1, AmountOutMonotone
  <2>4. CalculateAmountOut(x, y, base) \in Nat
    BY <1>1, <2>1, AmountOutNat DEF AmountOutOk
  <2>5. w > value
    OBVIOUS
  <2> HIDE DEF value
  <2> QED
    BY <1>2, <2>2, <2>3, <2>4, <2>5
<1> HIDE DEF base
<1>4. SeizedCollateral(base, pledged) \in Nat
      /\ (SeizedCollateral(base, pledged) = pledged \/ SeizedCollateral(base, pledged) >= base)
  BY <1>1, SeizesAtLeast
<1>5. SeizedCollateral(base, pledged) <= pledged
  <2>1. BpsCeil(base, BPS_DENOMINATOR + LIQUIDATION_PENALTY_BPS) \in Nat
    <3>1. BPS_DENOMINATOR + LIQUIDATION_PENALTY_BPS \in Nat
      BY BpsFacts DEF LIQUIDATION_PENALTY_BPS
    <3> QED
      BY <1>1, <3>1, BpsCeilNat
  <2> QED
    BY <2>1, LesserRange DEF SeizedCollateral
<1> QED
  BY <1>1, <1>3, <1>4, <1>5 DEF base

\* whoever can price collateral can price a part of it
LEMMA PartIsPriced ==
  ASSUME NEW l \in [Token -> Ledger], NEW c \in Token, NEW amount \in Nat, NEW part \in Nat,
         part <= amount, MaxDebtForCollateral(l, c, amount).ok
  PROVE  MaxDebtForCollateral(l, c, part).ok
<1> DEFINE ema == EmaPrice(l[c])
           dir == DirectionalEmaPrice(l[c])
           rc  == l[c].reserve
           rd  == l[Other(c)].reserve
           total_debt == l[Other(c)].total_debt
           v   == VirtualReserves(rc, rd, ema, dir)
<1>1. \A a : MaxDebtForCollateral(l, c, a) = MaxDebt(a, ema, dir, rc, rd, total_debt)
  BY DEF MaxDebtForCollateral
<1> HIDE DEF ema, dir, rc, rd, total_debt
<1>2. CASE part = 0 \/ ema = 0 \/ dir = 0
  BY <1>1, <1>2 DEF MaxDebt, NoDebtAllowed
<1>3. CASE ~(part = 0 \/ ema = 0 \/ dir = 0)
  <2>1. amount # 0
    BY <1>3
  <2>2. VirtualReservesOk(rc, rd, ema, dir)
    BY <1>1, <1>3, <2>1 DEF MaxDebt, MathError
  <2>3. CASE FixedCfBps = 0 /\ rd = 0
    BY <1>1, <1>3, <2>2, <2>3 DEF MaxDebt, NoDebtAllowed
  <2>4. CASE ~(FixedCfBps = 0 /\ rd = 0)
    <3>1. FixedCfBps = 0 => DynamicCfOk(v, amount, total_debt)
      BY <1>1, <1>3, <2>1, <2>2, <2>4 DEF MaxDebt, MathError
    <3>2. FixedCfBps = 0 => DynamicCfOk(v, part, total_debt)
      <4> DEFINE base == CalculateAmountIn(v.x, v.y, total_debt)
      <4>1. DynamicCfOk(v, amount, total_debt) => base \in Nat /\ base + amount <= MaxU64
        BY NumbersU64 DEF DynamicCfOk, AmountInOk
      <4>2. DynamicCfOk(v, amount, total_debt) => base + part <= MaxU64
        <5> HIDE DEF base
        <5> QED
          BY <4>1, WidthAssumption
      <4> QED
        BY <3>1, <4>2 DEF DynamicCfOk
    <3>3. ~(FixedCfBps = 0 /\ ~DynamicCfOk(v, part, total_debt))
      BY <3>2
    <3> QED
      BY <1>1, <1>3, <2>2, <2>4, <3>3 DEF MaxDebt
  <2> QED
    BY <2>3, <2>4
<1> QED
  BY <1>2, <1>3

\* a part of the shares is written off for no more than the whole debt
LEMMA WrittenAtMost ==
  ASSUME NEW k \in Ledger, NEW shares \in Nat, NEW debt \in Nat
  PROVE  DebtToWriteOff(k, shares, debt) \in Nat /\ DebtToWriteOff(k, shares, debt) <= debt
<1>1. CASE k.total_debt_shares = 0
  BY <1>1 DEF DebtToWriteOff
<1>2. CASE k.total_debt_shares # 0
  <2>1. shares * k.total_debt \in Nat /\ k.total_debt_shares \in Nat \ {0}
    BY <1>2, LedgerFields, MulNat
  <2>2. (shares * k.total_debt) \div k.total_debt_shares \in Nat
    BY <2>1, DivFloor
  <2> QED
    BY <1>2, <2>2, LesserRange DEF DebtToWriteOff
<1> QED
  BY <1>1, <1>2

\* Every unhealthy position is liquidated, whatever the pool and the others
\* have come to: an insolvent one keeps no collateral that would have to be
\* priced, and a part of collateral that can be priced can.
THEOREM UnhealthyIsLiquidated == Spec => []UnhealthyCanBeLiquidated
<1>1. ASSUME PairInv, PledgesInv, NEW u \in Users, NEW c \in Token, NEW l \in UpdatedPairs,
             Undercollateralized(u, c, l), ~l[Other(c)].clipped, LiquidationFits(u, c, l),
             AmountOutOk(LiquidationReserves(l, c).x, position[u][c].collateral),
             AmountInOk(LiquidationReserves(l, c).x, LiquidationReserves(l, c).y,
                        CalculateDebt(position[u][Other(c)].debt_shares, l[Other(c)])),
             \/ CalculateDebt(position[u][Other(c)].debt_shares, l[Other(c)])
                  > CollateralValue(l, c, position[u][c].collateral) + 1
             \/ MaxDebtForCollateral(l, c, position[u][c].collateral).ok
      PROVE  LiquidateOk(u, c, l)
  <2> DEFINE d         == Other(c)
             held      == position[u][d].debt_shares
             pledged   == position[u][c].collateral
             x         == LiquidationReserves(l, c).x
             y         == LiquidationReserves(l, c).y
             debt      == CalculateDebt(held, l[d])
             value     == CollateralValue(l, c, pledged)
             insolvent == debt > value
             shares    == SharesToWriteOff(held, insolvent)
             written   == DebtToWriteOff(l[d], shares, debt)
             base      == CalculateAmountIn(x, y, written)
             seized    == SeizedCollateral(base, pledged)
             gain      == seized - CallerIncentive(base, seized)
  <2>1. Sound(l) /\ PledgesSum(l, position) /\ d \in Token /\ c # d
    BY <1>1, UpdateSound, UpdateKeepsPledges, Tokens DEF PairInv
  <2>2. /\ l \in [Token -> Ledger] /\ l[d] \in Ledger /\ l[c] \in Ledger
        /\ position \in [Users -> [Token -> Holding]]
    BY <2>1 DEF Sound, SoundPair
  <2>3. /\ held > 0 /\ debt >= BpsFloor(value, position[u][c].liquidation_cf)
        /\ LiquidationReservesOk(l, c) /\ AmountOutOk(x, pledged) /\ AmountInOk(x, y, debt)
        /\ DebtFits(l[d]) /\ MulFits(held, CLOSE_FACTOR_BPS)
        /\ l[c].reserve + pledged <= MaxU64 /\ reserve_vault[c] + pledged <= MaxU64
    BY <1>1 DEF Undercollateralized, LiquidationFits
  <2>4. held \in Nat /\ held <= l[d].total_debt_shares /\ pledged \in Nat
    BY <1>1, <2>1, <2>2, SharesNat, SharesWithinTotal, SharesOf, NumbersU64
  <2>5. pledged <= l[c].total_collateral /\ pledged <= collateral_vault[c]
    <3>1. Pledges(position, c) \in [Users -> Nat] /\ Pledges(position, c)[u] = pledged
      BY <2>2, PledgesTyped
    <3>2. SumsTo(Pledges(position, c), l[c].total_collateral)
      BY <2>1 DEF PledgesSum
    <3>3. pledged <= l[c].total_collateral
      BY <3>1, <3>2, PartOfSum
    <3> QED
      BY <2>1, <2>4, <3>3, SoundParts
  <2>6. x \in Nat /\ y \in Nat
    BY <2>2, <2>3, LiquidationCurve
  <2>7. value = CalculateAmountOut(x, y, pledged) /\ value \in Nat
    <3> HIDE DEF x, y
    <3>1. CalculateAmountOut(x, y, pledged) \in Nat
      BY <2>3, <2>4, <2>6, AmountOutNat
    <3> QED
      BY <3>1 DEF CollateralValue, x, y
  <2>8. \/ debt > value + 1
        \/ MaxDebtForCollateral(l, c, pledged).ok
    BY <1>1
  <2> HIDE DEF held, pledged, x, y, value
  <2>9. CalculateDebtOk(held, l[d]) /\ debt \in Nat /\ debt < y
    BY <2>2, <2>3, <2>4, DebtIsComputed, DebtNat DEF AmountInOk
  <2>10. shares \in Nat /\ shares <= held
    <3>1. BpsCeil(held, CLOSE_FACTOR_BPS) \in Nat
      <4>1. CLOSE_FACTOR_BPS \in Nat
        BY DEF CLOSE_FACTOR_BPS
      <4> QED
        BY <2>4, <4>1, BpsCeilNat
    <3> QED
      BY <2>4, <3>1, LesserRange DEF SharesToWriteOff
  <2>11. MulFits(shares, l[d].total_debt)
    <3>1. MulFits(held, l[d].total_debt)
      <4>1. l[d].total_debt_shares > 0
        BY <2>2, <2>3, <2>4, LedgerFields
      <4> QED
        BY <2>9, <4>1 DEF CalculateDebtOk
    <3>2. l[d].total_debt \in Nat /\ MaxU128 \in Nat
      BY <2>2, LedgerFields
    <3>3. l[d].total_debt > 0 => MaxU128 \div l[d].total_debt \in Nat
      BY <3>2, DivFloor
    <3> QED
      BY <2>4, <2>10, <3>1, <3>2, <3>3 DEF MulFits
  <2> HIDE DEF shares, debt
  <2>12. written \in Nat /\ written <= debt
    BY <2>2, <2>9, <2>10, WrittenAtMost
  <2> HIDE DEF written
  <2>13. base \in U64 /\ base \in Nat /\ written < y
    <3>1. CalculateAmountIn(x, y, debt) \in U64
      BY <2>3 DEF AmountInOk
    <3>2. base \in Nat /\ base <= CalculateAmountIn(x, y, debt) /\ CalculateAmountIn(x, y, debt) \in Nat
      BY <2>6, <2>9, <2>12, AmountInMonotone
    <3>3. written < y
      BY <2>6, <2>9, <2>12
    <3> HIDE DEF base
    <3> QED
      BY <3>1, <3>2, <3>3, WidthAssumption DEF U64
  <2>14. seized \in Nat /\ seized <= pledged
    <3> HIDE DEF base
    <3> QED
      BY <2>4, <2>13, SeizedRange
  <2>15. gain \in Nat /\ gain <= pledged
    <3> HIDE DEF seized, base
    <3>1. BpsFloor(base, LIQUIDATION_INCENTIVE_BPS) \in Nat
      BY <2>13, BpsFloorNat DEF LIQUIDATION_INCENTIVE_BPS
    <3>2. CallerIncentive(base, seized) \in Nat /\ CallerIncentive(base, seized) <= seized
      BY <2>14, <3>1, LesserRange DEF CallerIncentive
    <3> QED
      BY <2>4, <2>14, <3>2
  <2>16. MaxDebtForCollateral(l, c, pledged - seized).ok
    <3>1. CASE debt > value + 1
      <4>1. debt > value /\ debt > 0
        BY <2>7, <2>9, <3>1
      <4>2. shares = held
        BY <4>1 DEF SharesToWriteOff, shares
      <4>3. written + 1 >= debt
        BY <2>2, <2>4, <4>1, <4>2, WholeDebtWritten DEF written, debt
      <4>4. written > CalculateAmountOut(x, y, pledged)
        BY <2>7, <2>9, <2>12, <3>1, <4>3
      <4>5. seized = pledged
        BY <2>3, <2>4, <2>6, <2>12, <2>13, <4>4, AllIsSeized
      <4> HIDE DEF seized
      <4>6. pledged - seized = 0
        BY <2>4, <4>5
      <4> QED
        BY <4>6 DEF MaxDebtForCollateral, MaxDebt, NoDebtAllowed
    <3>2. CASE MaxDebtForCollateral(l, c, pledged).ok
      <4> HIDE DEF seized
      <4>1. pledged - seized \in Nat /\ pledged - seized <= pledged
        BY <2>4, <2>14
      <4> QED
        BY <2>2, <2>4, <3>2, <4>1, PartIsPriced
    <3> QED
      BY <2>8, <3>1, <3>2
  <2> HIDE DEF base, seized
  <2>17. seized <= collateral_vault[c] /\ seized <= l[c].total_collateral
    BY <2>1, <2>4, <2>5, <2>14, SoundParts
  <2> HIDE DEF gain
  <2>18. l[c].reserve + gain <= MaxU64 /\ reserve_vault[c] + gain <= MaxU64
    BY <2>1, <2>3, <2>4, <2>15, SoundParts, WidthAssumption
  <2>19. AmountInOk(x, y, written)
    BY <2>13 DEF AmountInOk, base
  <2> QED
    BY <1>1, <2>3, <2>9, <2>11, <2>16, <2>17, <2>18, <2>19
    DEF LiquidateOk, d, held, pledged, x, y, debt, value, shares, written, base, seized, gain
<1>2. PairInv /\ PledgesInv => UnhealthyCanBeLiquidated
  BY <1>1 DEF UnhealthyCanBeLiquidated
<1> QED
  BY <1>2, PairAlwaysSound, PledgesAlwaysSum, PTL

----------------------------------------------------------------------------
(* The circuit breaker keeps credit and liquidity apart, for transactions  *)
(* of every length and every pair.                                         *)

\* the running transaction has a liquidity instruction of the pair at top level
Lists(names) == \E i \in DOMAIN instructions : IsSamePair(instructions[i], names)

DeltaNames == {"add_liquidity", "remove_liquidity"}
CreditNames == {"borrow", "remove_collateral"}

SupplyMovesByListed == total_supply # saved.total_supply => Lists(DeltaNames)
CreditIsAlone       == done \cap CreditNames # {} => ~Lists(DeltaNames)
AddIsListed         == "add_liquidity" \in done => Lists({"add_liquidity"})
RemoveIsAlone       == "remove_liquidity" \in done => ~Lists({"add_liquidity"})

BreakerInv ==
  /\ SupplyMovesByListed
  /\ CreditIsAlone
  /\ AddIsListed
  /\ RemoveIsAlone

\* the runtime's part: a list and an index, nothing pending between transactions
ListOK         == instructions \in Seq(TopLevel) /\ current \in Nat
BetweenIsClean == current = 0 => total_supply = saved.total_supply /\ done = {}

RuntimeInv == ListOK /\ BetweenIsClean /\ BreakerInv

----------------------------------------------------------------------------
(* The breaker's guards in terms of the list. *)

\* The two scans of the whole transaction say that it lists no such instruction.
LEMMA ScansTheList ==
  /\ RequireNoSameTxLiquidityDelta <=> ~Lists(DeltaNames)
  /\ RequireNoSameTxAddLiquidity <=> ~Lists({"add_liquidity"})
BY DEF RequireNoSameTxLiquidityDelta, RequireNoSameTxAddLiquidity, RequireNone, Lists, DeltaNames

\* An instruction that must be at top level and runs is listed.
LEMMA TopLevelIsListed ==
  ASSUME NEW name, NEW names, name \in names, Runs(name), RequireTopLevel(name)
  PROVE  Lists(names)
BY DEF Runs, RequireTopLevel, Lists, IsSamePair

\* The list does not change while an instruction runs, nor does what was saved.
LEMMA RunsKeepsList ==
  ASSUME NEW name, Runs(name)
  PROVE  /\ instructions' = instructions /\ saved' = saved
         /\ done' = done \cup {name}
         /\ \A names : Lists(names)' <=> Lists(names)
BY DEF Runs, Lists, IsSamePair

----------------------------------------------------------------------------
(* Every step keeps the invariant. *)

\* An instruction that neither moves the supply nor is looked at by the breaker.
LEMMA OtherKeepsBreaker ==
  ASSUME BreakerInv, NEW name, Runs(name), UNCHANGED total_supply,
         name \notin DeltaNames, name \notin CreditNames
  PROVE  BreakerInv'
<1>1. /\ saved' = saved /\ done' = done \cup {name}
      /\ Lists(DeltaNames)' <=> Lists(DeltaNames)
      /\ Lists({"add_liquidity"})' <=> Lists({"add_liquidity"})
  BY RunsKeepsList
<1> QED
  BY <1>1 DEF BreakerInv, SupplyMovesByListed, CreditIsAlone, AddIsListed, RemoveIsAlone,
              DeltaNames, CreditNames

\* Borrowing and withdrawing collateral leave the supply alone and find no
\* liquidity instruction in the list.
LEMMA CreditKeepsBreaker ==
  ASSUME BreakerInv, NEW name \in CreditNames, Runs(name), UNCHANGED total_supply,
         RequireNoSameTxLiquidityDelta
  PROVE  BreakerInv'
<1>1. /\ saved' = saved /\ done' = done \cup {name}
      /\ Lists(DeltaNames)' <=> Lists(DeltaNames)
      /\ Lists({"add_liquidity"})' <=> Lists({"add_liquidity"})
  BY RunsKeepsList
<1>2. ~Lists(DeltaNames)
  BY ScansTheList
<1> QED
  BY <1>1, <1>2 DEF BreakerInv, SupplyMovesByListed, CreditIsAlone, AddIsListed,
                    RemoveIsAlone, DeltaNames, CreditNames

\* Adding liquidity is itself in the list, so there was no credit before.
LEMMA AddKeepsBreaker ==
  ASSUME BreakerInv, Runs("add_liquidity"), RequireTopLevel("add_liquidity")
  PROVE  BreakerInv'
<1>1. /\ saved' = saved /\ done' = done \cup {"add_liquidity"}
      /\ Lists(DeltaNames)' <=> Lists(DeltaNames)
      /\ Lists({"add_liquidity"})' <=> Lists({"add_liquidity"})
  BY RunsKeepsList
<1>2. Lists(DeltaNames) /\ Lists({"add_liquidity"})
  BY TopLevelIsListed DEF DeltaNames
<1> QED
  BY <1>1, <1>2 DEF BreakerInv, SupplyMovesByListed, CreditIsAlone, AddIsListed,
                    RemoveIsAlone, CreditNames

\* Removing liquidity is in the list, and no addition is.
LEMMA RemoveKeepsBreaker ==
  ASSUME BreakerInv, Runs("remove_liquidity"), RequireTopLevel("remove_liquidity"),
         RequireNoSameTxAddLiquidity
  PROVE  BreakerInv'
<1>1. /\ saved' = saved /\ done' = done \cup {"remove_liquidity"}
      /\ Lists(DeltaNames)' <=> Lists(DeltaNames)
      /\ Lists({"add_liquidity"})' <=> Lists({"add_liquidity"})
  BY RunsKeepsList
<1>2. Lists(DeltaNames) /\ ~Lists({"add_liquidity"})
  BY TopLevelIsListed, ScansTheList DEF DeltaNames
<1> QED
  BY <1>1, <1>2 DEF BreakerInv, SupplyMovesByListed, CreditIsAlone, AddIsListed,
                    RemoveIsAlone, CreditNames

\* Every instruction of the pair.
LEMMA InstructionKeepsBreaker ==
  ASSUME BreakerInv, PairInstruction
  PROVE  BreakerInv'
<1> PICK l \in UpdatedPairs :
      \/ TxAddLiquidity(l)
      \/ TxRemoveLiquidity(l)
      \/ TxSwap(l)
      \/ TxFlashloan(l)
      \/ TxClaimProtocolFees(l)
      \/ \E u \in Users : TxBorrow(u, l)
      \/ \E u \in Users : TxRemoveCollateral(u, l)
      \/ \E u \in Users : TxAddCollateral(u, l)
      \/ \E u \in Users : TxRepay(u, l)
      \/ \E u \in Users : TxLiquidate(u, l)
  BY DEF PairInstruction
<1>1. CASE TxAddLiquidity(l)
  BY <1>1, AddKeepsBreaker DEF TxAddLiquidity
<1>2. CASE TxRemoveLiquidity(l)
  BY <1>2, RemoveKeepsBreaker DEF TxRemoveLiquidity
<1>3. CASE TxSwap(l)
  <2>1. Runs("swap") /\ UNCHANGED total_supply
    BY <1>3 DEF TxSwap, Swap, lpVars
  <2> QED
    BY <2>1, OtherKeepsBreaker DEF DeltaNames, CreditNames
<1>4. CASE TxFlashloan(l)
  <2>1. Runs("flashloan") /\ UNCHANGED total_supply
    BY <1>4 DEF TxFlashloan, Flashloan, lpVars
  <2> QED
    BY <2>1, OtherKeepsBreaker DEF DeltaNames, CreditNames
<1>5. CASE TxClaimProtocolFees(l)
  <2>1. Runs("claim_protocol_fees") /\ UNCHANGED total_supply
    BY <1>5 DEF TxClaimProtocolFees, ClaimProtocolFees, lpVars
  <2> QED
    BY <2>1, OtherKeepsBreaker DEF DeltaNames, CreditNames
<1>6. ASSUME NEW u \in Users, TxBorrow(u, l) PROVE BreakerInv'
  <2>1. Runs("borrow") /\ RequireNoSameTxLiquidityDelta /\ UNCHANGED total_supply
    BY <1>6 DEF TxBorrow, Borrow, lpVars
  <2> QED
    BY <2>1, CreditKeepsBreaker DEF CreditNames
<1>7. ASSUME NEW u \in Users, TxRemoveCollateral(u, l) PROVE BreakerInv'
  <2>1. /\ Runs("remove_collateral") /\ RequireNoSameTxLiquidityDelta
        /\ UNCHANGED total_supply
    BY <1>7 DEF TxRemoveCollateral, RemoveCollateral, lpVars
  <2> QED
    BY <2>1, CreditKeepsBreaker DEF CreditNames
<1>8. ASSUME NEW u \in Users, TxAddCollateral(u, l) PROVE BreakerInv'
  <2>1. Runs("add_collateral") /\ UNCHANGED total_supply
    BY <1>8 DEF TxAddCollateral, AddCollateral, lpVars
  <2> QED
    BY <2>1, OtherKeepsBreaker DEF DeltaNames, CreditNames
<1>9. ASSUME NEW u \in Users, TxRepay(u, l) PROVE BreakerInv'
  <2>1. Runs("repay") /\ UNCHANGED total_supply
    BY <1>9 DEF TxRepay, Repay, lpVars
  <2> QED
    BY <2>1, OtherKeepsBreaker DEF DeltaNames, CreditNames
<1>10. ASSUME NEW u \in Users, TxLiquidate(u, l) PROVE BreakerInv'
  <2>1. Runs("liquidate") /\ UNCHANGED total_supply
    BY <1>10 DEF TxLiquidate, Liquidate, lpVars
  <2> QED
    BY <2>1, OtherKeepsBreaker DEF DeltaNames, CreditNames
<1> QED
  BY <1>1, <1>2, <1>3, <1>4, <1>5, <1>6, <1>7, <1>8, <1>9, <1>10

\* While an instruction of the pair runs, a transaction runs.
LEMMA RunsKeepsRuntime ==
  ASSUME ListOK, NEW name, Runs(name)
  PROVE  ListOK' /\ current' # 0
<1>1. current \in 1 .. Len(instructions) /\ instructions' = instructions
  BY DEF ListOK, Runs
<1>2. current' = current \/ current' = current + 1
  BY DEF Runs
<1> QED
  BY <1>1, <1>2 DEF ListOK

\* The steps of the runtime: a new list before anything ran, a return, the
\* end of a transaction either way, and what happens between two.
LEMMA RuntimeKeepsBreaker ==
  ASSUME RuntimeInv, Begin \/ Return \/ Commit \/ Abort \/ Between
  PROVE  RuntimeInv'
<1> USE DEF RuntimeInv, BetweenIsClean, BreakerInv, SupplyMovesByListed, CreditIsAlone,
            AddIsListed, RemoveIsAlone
<1>1. CASE Begin
  <2>1. /\ current' = 1 /\ total_supply' = total_supply /\ saved' = saved /\ done' = done
        /\ done = {} /\ total_supply = saved.total_supply
    BY <1>1 DEF Begin, vars, lpVars
  <2>2. instructions' \in Seq(TopLevel)
    <3>1. PICK n \in 1 .. MaxLength : instructions' \in [1 .. n -> TopLevel]
      BY <1>1 DEF Begin
    <3> QED
      BY <3>1, MaxLengthAssumption
  <2> QED
    BY <2>1, <2>2 DEF ListOK
<1>2. CASE Return
  <2>1. /\ total_supply' = total_supply /\ saved' = saved /\ done' = done
        /\ instructions' = instructions /\ current' = current + 1
        /\ current \in DOMAIN instructions
    BY <1>2 DEF Return, vars, lpVars
  <2>2. (Lists(DeltaNames)' <=> Lists(DeltaNames))
        /\ (Lists({"add_liquidity"})' <=> Lists({"add_liquidity"}))
    BY <2>1 DEF Lists, IsSamePair, DeltaNames
  <2>3. ListOK' /\ current' # 0
    BY <2>1 DEF ListOK
  <2> QED
    BY <2>1, <2>2, <2>3
<1>3. CASE Commit
  <2>1. /\ total_supply' = total_supply /\ saved'.total_supply = total_supply
        /\ done' = {} /\ instructions' = << >> /\ current' = 0
    BY <1>3 DEF Commit, EndTransaction, Pair, vars, lpVars
  <2> QED
    BY <2>1 DEF ListOK
<1>4. CASE Abort
  <2>1. /\ total_supply' = saved.total_supply /\ saved' = saved
        /\ done' = {} /\ instructions' = << >> /\ current' = 0
    BY <1>4 DEF Abort, EndTransaction
  <2> QED
    BY <2>1 DEF ListOK
<1>5. CASE Between
  <2>1. /\ total_supply' = total_supply /\ saved'.total_supply = total_supply'
        /\ done' = done /\ instructions' = instructions /\ current' = current
        /\ current = 0
    BY <1>5 DEF Between, Environment, Tick, Donate, SetPairReduceOnly, SetGlobalReduceOnly,
                Pair, lpVars
  <2> QED
    BY <2>1 DEF ListOK
<1> QED
  BY <1>1, <1>2, <1>3, <1>4, <1>5

\* An instruction of the pair is one that Runs.
LEMMA InstructionRuns ==
  ASSUME PairInstruction
  PROVE  \E name : Runs(name)
BY DEF PairInstruction, TxAddLiquidity, TxRemoveLiquidity, TxSwap, TxFlashloan,
       TxClaimProtocolFees, TxBorrow, TxRemoveCollateral, TxAddCollateral, TxRepay, TxLiquidate

----------------------------------------------------------------------------
\* The invariant holds in every state of every execution.
THEOREM BreakerInvariant == TxSpec => []RuntimeInv
<1>1. TxInit => RuntimeInv
  BY DEF TxInit, RuntimeInv, ListOK, BetweenIsClean, BreakerInv, SupplyMovesByListed,
         CreditIsAlone, AddIsListed, RemoveIsAlone, Pair
<1>2. RuntimeInv /\ [TxNext]_<<vars, txVars>> => RuntimeInv'
  <2> SUFFICES ASSUME RuntimeInv, [TxNext]_<<vars, txVars>> PROVE RuntimeInv'
    OBVIOUS
  <2>1. CASE PairInstruction
    <3>1. BreakerInv'
      BY <2>1, InstructionKeepsBreaker DEF RuntimeInv
    <3>2. ListOK' /\ current' # 0
      BY <2>1, InstructionRuns, RunsKeepsRuntime DEF RuntimeInv
    <3> QED
      BY <3>1, <3>2 DEF RuntimeInv, BetweenIsClean
  <2>2. CASE Begin \/ Return \/ Commit \/ Abort \/ Between
    BY <2>2, RuntimeKeepsBreaker
  <2>3. CASE UNCHANGED <<vars, txVars>>
    BY <2>3 DEF vars, lpVars, txVars, RuntimeInv, ListOK, BetweenIsClean, BreakerInv,
                SupplyMovesByListed, CreditIsAlone, AddIsListed, RemoveIsAlone, Lists,
                IsSamePair, DeltaNames
  <2> QED
    BY <2>1, <2>2, <2>3 DEF TxNext
<1> QED
  BY <1>1, <1>2, PTL DEF TxSpec

\* Credit is extended on liquidity that nobody moves in the same transaction,
\* for every list of instructions.
THEOREM CreditOnUnmovedLiquidityHolds == TxSpec => []CreditOnUnmovedLiquidity
<1>1. RuntimeInv => CreditOnUnmovedLiquidity
  BY DEF RuntimeInv, BreakerInv, SupplyMovesByListed, CreditIsAlone,
         CreditOnUnmovedLiquidity, CreditNames
<1> QED
  BY <1>1, BreakerInvariant, PTL

\* No transaction adds and removes liquidity of the pair.
THEOREM NoLiquidityRoundTripHolds == TxSpec => []NoLiquidityRoundTrip
<1>1. RuntimeInv => NoLiquidityRoundTrip
  BY DEF RuntimeInv, BreakerInv, AddIsListed, RemoveIsAlone, NoLiquidityRoundTrip
<1> QED
  BY <1>1, BreakerInvariant, PTL

----------------------------------------------------------------------------
(* Transactions keep the pair sound: each instruction is one of the pair's, *)
(* and what a failure puts back was sound when it was committed.            *)

SavedSound ==
  /\ SoundPair(saved.ledger, saved.position, saved.reserve_vault, saved.collateral_vault)
  /\ saved.total_supply \in U64 /\ saved.lp_supply \in U64
  /\ saved.total_supply = MIN_LIQUIDITY + saved.lp_supply
  /\ saved.last_update \in 0 .. slot

\* A sound pair is soundly saved.
LEMMA PairIsSavedSound ==
  ASSUME PairInv, saved = Pair
  PROVE  SavedSound
BY DEF PairInv, Sound, Supplies, Clock, Pair, SavedSound

\* What a transaction runs is an instruction of the pair.
LEMMA InstructionIsNext ==
  ASSUME PairInstruction
  PROVE  Next /\ saved' = saved /\ slot' = slot
<1> PICK l \in UpdatedPairs :
      \/ TxAddLiquidity(l)
      \/ TxRemoveLiquidity(l)
      \/ TxSwap(l)
      \/ TxFlashloan(l)
      \/ TxClaimProtocolFees(l)
      \/ \E u \in Users : TxBorrow(u, l)
      \/ \E u \in Users : TxRemoveCollateral(u, l)
      \/ \E u \in Users : TxAddCollateral(u, l)
      \/ \E u \in Users : TxRepay(u, l)
      \/ \E u \in Users : TxLiquidate(u, l)
  BY DEF PairInstruction
<1>1. saved' = saved
  BY InstructionRuns, RunsKeepsList
<1>2. PoolInstruction(l) \/ \E u \in Users : LendingInstruction(u, l)
  BY Zenon DEF PoolInstruction, LendingInstruction, TxAddLiquidity, TxRemoveLiquidity, TxSwap,
        TxFlashloan, TxClaimProtocolFees, TxBorrow, TxRemoveCollateral, TxAddCollateral,
        TxRepay, TxLiquidate
<1>3. slot' = slot
  <2>1. CASE PoolInstruction(l)
    BY <2>1 DEF PoolInstruction, Swap, AddLiquidity, RemoveLiquidity, Flashloan, ClaimProtocolFees
  <2>2. CASE \E u \in Users : LendingInstruction(u, l)
    <3>1. PICK u \in Users : LendingInstruction(u, l)
      BY <2>2
    <3>2. ASSUME NEW t \in Token, NEW amount,
                 \/ AddCollateral(u, t, amount, l) \/ RemoveCollateral(u, t, amount, l)
                 \/ Borrow(u, t, amount, l) \/ Repay(u, t, amount, l) \/ Liquidate(u, t, l)
          PROVE  slot' = slot
      BY <3>2 DEF AddCollateral, RemoveCollateral, Borrow, Repay, Liquidate
    <3> QED
      BY <3>1, <3>2, Zenon DEF LendingInstruction
  <2> QED
    BY <1>2, <2>1, <2>2
<1> QED
  BY <1>1, <1>2, <1>3 DEF Next

\* Every step of a transaction but a failure is a step of the pair or none.
LEMMA TxStepIsStep ==
  ASSUME [TxNext]_<<vars, txVars>>, ~Abort
  PROVE  [Next]_vars
<1>1. CASE PairInstruction
  BY <1>1, InstructionIsNext
<1>2. CASE Between
  BY <1>2 DEF Between, Next
<1>3. CASE Begin \/ Return \/ Commit
  BY <1>3 DEF Begin, Return, Commit
<1> QED
  BY <1>1, <1>2, <1>3 DEF TxNext

\* What was committed is a sound pair, after a failure the pair is what was
\* committed, and so every transaction, of any length and from any program,
\* leaves a sound pair whether or not it fails.
THEOREM TransactionsKeepPair == TxSpec => [](PairInv /\ SavedSound)
<1>1. TxInit => PairInv /\ SavedSound
  BY InitInv, PairIsSavedSound DEF TxInit
<1>2. PairInv /\ SavedSound /\ [TxNext]_<<vars, txVars>> => PairInv' /\ SavedSound'
  <2> SUFFICES ASSUME PairInv, SavedSound, [TxNext]_<<vars, txVars>>
               PROVE  PairInv' /\ SavedSound'
    OBVIOUS
  <2>1. CASE Abort
    <3>1. /\ ledger' = saved.ledger /\ last_update' = saved.last_update
          /\ position' = saved.position
          /\ total_supply' = saved.total_supply /\ lp_supply' = saved.lp_supply
          /\ reserve_vault' = saved.reserve_vault /\ collateral_vault' = saved.collateral_vault
          /\ saved' = saved /\ slot' = slot
          /\ reduce_only' = reduce_only /\ global_reduce_only' = global_reduce_only
      BY <2>1 DEF Abort, modeVars
    <3>2. Sound(ledger)'
      BY <3>1 DEF SavedSound, Sound
    <3>3. Supplies' /\ Modes' /\ Clock'
      BY <3>1 DEF SavedSound, Supplies, Modes, Clock, PairInv
    <3>4. SavedSound'
      BY <3>1 DEF SavedSound
    <3> QED
      BY <3>2, <3>3, <3>4 DEF PairInv
  <2>2. CASE ~Abort
    <3>1. PairInv'
      <4>1. [Next]_vars
        BY <2>2, TxStepIsStep
      <4> QED
        BY <4>1, NextInv
    <3>2. CASE saved' = saved /\ slot' \in {slot, slot + 1}
      <4>1. saved'.last_update \in 0 .. slot'
        BY <3>2 DEF SavedSound, PairInv, Clock
      <4> QED
        BY <3>1, <3>2, <4>1 DEF SavedSound
    <3>3. CASE saved' = Pair'
      <4>1. /\ saved'.ledger = ledger' /\ saved'.last_update = last_update'
            /\ saved'.position = position'
            /\ saved'.total_supply = total_supply' /\ saved'.lp_supply = lp_supply'
            /\ saved'.reserve_vault = reserve_vault'
            /\ saved'.collateral_vault = collateral_vault'
        BY <3>3 DEF Pair
      <4> QED
        BY <3>1, <4>1 DEF PairInv, Sound, Supplies, Clock, SavedSound
    <3>4. (saved' = saved /\ slot' = slot) \/ saved' = Pair'
      <4>1. CASE PairInstruction
        BY <4>1, InstructionIsNext
      <4>2. CASE Commit
        <5>1. Pair' = Pair
          BY <4>2 DEF Commit, vars, pairVars, lpVars, vaultVars, Pair
        <5> QED
          BY <4>2, <5>1 DEF Commit
      <4>3. CASE Begin \/ Return \/ UNCHANGED <<vars, txVars>>
        BY <4>3 DEF Begin, Return, vars, txVars
      <4>4. CASE Between
        BY <4>4 DEF Between
      <4> QED
        BY <2>2, <4>1, <4>2, <4>3, <4>4 DEF TxNext
    <3> QED
      BY <3>1, <3>2, <3>3, <3>4
  <2> QED
    BY <2>1, <2>2
<1> QED
  BY <1>1, <1>2, PTL DEF TxSpec

\* Hence no transaction, committed or rolled back, leaves a vault short or the
\* ledger identity broken.
THEOREM TransactionsKeepBooks == TxSpec => []VaultsBackAccounts /\ []LedgerIdentity
<1>1. PairInv => VaultsBackAccounts /\ LedgerIdentity
  BY DEF PairInv, Sound, SoundPair, TokenInv, Balanced, VaultsBackAccounts, LedgerIdentity
<1> QED
  BY <1>1, TransactionsKeepPair, PTL

=============================================================================
