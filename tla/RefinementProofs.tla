--------------------------- MODULE RefinementProofs ---------------------------
(***************************************************************************)
(* What the pair implements and what implements it, for every number of    *)
(* users, width of the integers and choice of the inputs.                  *)
(*                                                                         *)
(* First, the pair implements the balance sheet.  A step of the pair is    *)
(* the update, whose ledgers are l, and an instruction on l.               *)
(* ChargeIsCharged maps the update to the charges of the sheet, and one    *)
(* lemma per instruction the rest to an operation.  Each needs the         *)
(* invariant of PairProofs in both states: it is because both ledgers are  *)
(* balanced that equity moves with cash and debt.                          *)
(*                                                                         *)
(* Second, the pair with its interest-rate controller implements the pair: *)
(* every computed charge is one Omnipair admits, for every rate model that *)
(* can be created and every moment governance may switch models.  What is  *)
(* proved of Omnipair therefore holds with computed rates.  The assumption *)
(* Integrals = U64 says that Omnipair leaves the charge of a period open:  *)
(* calculate_rate returns a u64.                                           *)
(***************************************************************************)
EXTENDS Books, PairRates, PairProofs, RateLemmas

Sheets(l, vaults) == [t \in Token |-> SheetOf(l[t], vaults[t])]

Unclipped(l) == \A t \in Token : ~l[t].clipped

\* what an instruction on l must do to the books
BooksStep(l) ==
  Unclipped(ledger') =>
    /\ Unclipped(l)
    /\ Accounts!Operation(Sheets(l, reserve_vault), Sheets(ledger', reserve_vault'))

----------------------------------------------------------------------------
(* One sheet. *)

\* the numbers of a token's sheet
LEMMA SheetNumbers ==
  ASSUME NEW k, NEW shares, NEW reserves, NEW pledges, TokenInv(k, shares, reserves, pledges),
         ~k.clipped
  PROVE  /\ k \in Ledger
         /\ k.cash_reserve \in Nat /\ k.total_debt \in Nat /\ k.reserve \in Nat
         /\ reserves \in Nat /\ reserves <= MaxU64 /\ MaxU64 \in Nat
         /\ k.cash_reserve <= reserves
         /\ k.reserve = k.cash_reserve + k.total_debt
         /\ SheetOf(k, reserves) \in Accounts!Sheet
<1>1. k \in Ledger /\ reserves \in U64 /\ k.cash_reserve <= reserves /\ Balanced(k)
  BY DEF TokenInv
<1>2. /\ k.cash_reserve \in Nat /\ k.total_debt \in Nat /\ k.reserve \in Nat
      /\ reserves \in Nat /\ reserves <= MaxU64 /\ MaxU64 \in Nat
  BY <1>1, LedgerFields, NumbersU64
<1>3. k.reserve = k.cash_reserve + k.total_debt
  BY <1>1 DEF Balanced
<1>4. SheetOf(k, reserves) \in Accounts!Sheet
  BY <1>1, <1>2 DEF SheetOf, Accounts!Sheet
<1> QED
  BY <1>1, <1>2, <1>3, <1>4

\* balanced ledgers k before and next after, with their vaults
Balances(k, v, next, h) ==
  /\ k.cash_reserve \in Nat /\ k.total_debt \in Nat /\ v \in Nat
  /\ next.cash_reserve \in Nat /\ next.total_debt \in Nat /\ h \in Nat
  /\ k.reserve = k.cash_reserve + k.total_debt
  /\ next.reserve = next.cash_reserve + next.total_debt

\* cash that comes in, all of it for the LPs or a part for the protocol
LEMMA EarnedWhen ==
  ASSUME NEW k, NEW v, NEW next, NEW h, Balances(k, v, next, h),
         next.total_debt = k.total_debt, next.cash_reserve >= k.cash_reserve,
         h - v >= next.cash_reserve - k.cash_reserve
  PROVE  /\ Accounts!Earned(SheetOf(k, v), SheetOf(next, h))
         /\ SheetOf(next, h).fees >= SheetOf(k, v).fees
         /\ h - v = next.cash_reserve - k.cash_reserve =>
              SheetOf(next, h).fees = SheetOf(k, v).fees
BY DEF Balances, SheetOf, Accounts!Earned, Accounts!EquityFollowsCash

\* cash that goes out
LEMMA SpentWhen ==
  ASSUME NEW k, NEW v, NEW next, NEW h, Balances(k, v, next, h),
         next.total_debt = k.total_debt, next.cash_reserve <= k.cash_reserve,
         h - v = next.cash_reserve - k.cash_reserve
  PROVE  Accounts!Spent(SheetOf(k, v), SheetOf(next, h))
BY DEF Balances, SheetOf, Accounts!Spent, Accounts!EquityFollowsCash

\* cash that becomes debt, or debt that becomes cash
LEMMA ExchangedWhen ==
  ASSUME NEW k, NEW v, NEW next, NEW h, Balances(k, v, next, h),
         next.reserve = k.reserve, h - v = next.cash_reserve - k.cash_reserve
  PROVE  /\ next.cash_reserve <= k.cash_reserve =>
              Accounts!Lent(SheetOf(k, v), SheetOf(next, h))
         /\ next.cash_reserve >= k.cash_reserve =>
              Accounts!Recovered(SheetOf(k, v), SheetOf(next, h))
BY DEF Balances, SheetOf, Accounts!Lent, Accounts!Recovered, Accounts!Exchanged

\* debt that is lost
LEMMA LostWhen ==
  ASSUME NEW k, NEW v, NEW next, NEW h, Balances(k, v, next, h),
         next.total_debt <= k.total_debt, next.cash_reserve = k.cash_reserve, h = v
  PROVE  Accounts!Lost(SheetOf(k, v), SheetOf(next, h))
BY DEF Balances, SheetOf, Accounts!Lost

\* both states of an instruction that clips nothing are balanced
LEMMA BothBalanced ==
  ASSUME NEW l, Sound(l), SoundNext, NEW t \in Token, ~l[t].clipped, ~ledger'[t].clipped
  PROVE  /\ Balances(l[t], reserve_vault[t], ledger'[t], reserve_vault'[t])
         /\ l[t].cash_reserve <= reserve_vault[t]
         /\ reserve_vault'[t] <= MaxU64
         /\ MaxU64 \in Nat
<1>1. /\ TokenInv(l[t], Shares(position, t), reserve_vault[t], collateral_vault[t])
      /\ TokenInv(ledger'[t], Shares(position', t), reserve_vault'[t], collateral_vault'[t])
  BY DEF Sound, SoundNext, SoundPair
<1> QED
  BY <1>1, SheetNumbers DEF Balances

\* the sheets, token by token
LEMMA SheetAt ==
  ASSUME NEW l, NEW vaults, NEW t \in Token
  PROVE  Sheets(l, vaults)[t] = SheetOf(l[t], vaults[t])
BY DEF Sheets

----------------------------------------------------------------------------
(* Pair::update charges the sheet. *)

\* the interest and the fee of a period are those of the balance sheet
LEMMA AccrualCharges ==
  ASSUME NEW k \in Ledger, Balanced(k), NEW integral \in Nat, AccrueOk(k, integral),
         ~AccrueInterest(k, integral).clipped, NEW v \in Nat
  PROVE  /\ ~k.clipped
         /\ SheetOf(AccrueInterest(k, integral), v) = Accounts!Charged(SheetOf(k, v), integral)
<1> DEFINE interest == Interest(k, integral)
           fee      == ProtocolFee(k, integral)
           covered  == CoveredFee(k, integral)
           next     == AccrueInterest(k, integral)
           s        == SheetOf(k, v)
<1>1. next \in Ledger /\ Balanced(next) /\ ~k.clipped
  BY AccrueInterestKeeps
<1>2. next.cash_reserve = k.cash_reserve - covered /\ next.total_debt = k.total_debt + interest + fee
  BY DEF AccrueInterest, Ledger
<1>3. /\ interest = Accounts!InterestOf(s.owed, integral)
      /\ fee = Accounts!FeeOf(interest)
      /\ covered = Accounts!PaidNow(fee, s.cash)
  BY DEF SheetOf, Interest, CeilDiv, ProtocolFee, CoveredFee, Lesser, BPS_DENOMINATOR,
         Accounts!InterestOf, Accounts!FeeOf, Accounts!PaidNow, Accounts!BPS_DENOMINATOR
<1>4. /\ interest \in Nat /\ fee \in Nat /\ covered \in Nat
      /\ k.cash_reserve \in Nat /\ k.total_debt \in Nat
  <2>1. k.cash_reserve \in Nat /\ k.total_debt \in Nat
    BY LedgerFields
  <2>2. interest \in Nat
    BY <2>1, ScaleAssumption, MulNat, CeilDivNat DEF Interest
  <2>3. fee \in Nat
    BY <2>2, BpsFacts, InterestBpsAssumption, MulNat, DivFloor DEF ProtocolFee
  <2>4. covered \in Nat
    BY <2>1, <2>3, LesserRange DEF CoveredFee
  <2> QED
    BY <2>1, <2>2, <2>3, <2>4
<1>5. /\ k.reserve = k.cash_reserve + k.total_debt
      /\ next.reserve = next.cash_reserve + next.total_debt
  BY <1>1 DEF Balanced
<1>6. Accounts!Charged(s, integral) =
        [cash   |-> k.cash_reserve - covered,
         owed   |-> k.total_debt + interest + fee,
         equity |-> k.reserve + interest + (fee - covered),
         fees   |-> (v - k.cash_reserve) + covered]
  BY <1>3 DEF Accounts!Charged, SheetOf
<1> HIDE DEF interest, fee, covered, next, s
<1>7. next.reserve = k.reserve + interest + (fee - covered)
  BY <1>2, <1>4, <1>5
<1>8. v - next.cash_reserve = (v - k.cash_reserve) + covered
  BY <1>2, <1>4
<1>9. SheetOf(next, v) =
        [cash   |-> k.cash_reserve - covered,
         owed   |-> k.total_debt + interest + fee,
         equity |-> k.reserve + interest + (fee - covered),
         fees   |-> (v - k.cash_reserve) + covered]
  BY <1>2, <1>7, <1>8 DEF SheetOf
<1> QED
  BY <1>1, <1>6, <1>9 DEF next, s

\* no time, no charge
LEMMA NothingCharged ==
  ASSUME NEW k, NEW v \in Nat,
         k.cash_reserve \in Nat, k.total_debt \in Nat, k.reserve \in Nat
  PROVE  Accounts!Charged(SheetOf(k, v), 0) = SheetOf(k, v)
<1> DEFINE s == SheetOf(k, v)
<1>1. /\ s.cash \in Nat /\ s.owed \in Nat /\ s.equity \in Nat /\ s.fees \in Int
      /\ s = [cash |-> s.cash, owed |-> s.owed, equity |-> s.equity, fees |-> s.fees]
  BY DEF SheetOf
<1> HIDE DEF s
<1>2. NAD \in Nat \ {0} /\ InterestBps \in Nat
  BY ScaleAssumption, InterestBpsAssumption
<1>3. Accounts!InterestOf(s.owed, 0) = 0
  <2>1. s.owed * 0 + NAD - 1 = NAD - 1
    BY <1>1, <1>2
  <2>2. (NAD - 1) \div NAD = 0
    BY <1>2
  <2> QED
    BY <2>1, <2>2 DEF Accounts!InterestOf
<1>4. Accounts!FeeOf(0) = 0
  BY <1>2 DEF Accounts!FeeOf, Accounts!BPS_DENOMINATOR
<1>5. Accounts!PaidNow(0, s.cash) = 0
  BY <1>1 DEF Accounts!PaidNow
<1>6. Accounts!Charged(s, 0) =
        [cash |-> s.cash - 0, owed |-> s.owed + 0 + 0, equity |-> s.equity + 0 + (0 - 0),
         fees |-> s.fees + 0]
  BY <1>3, <1>4, <1>5 DEF Accounts!Charged
<1> QED
  BY <1>1, <1>6 DEF s

\* so is the update of one token, which charges nothing within a slot
LEMMA UpdateCharges ==
  ASSUME NEW k \in Ledger, Balanced(k), NEW reserve_other \in U64, NEW dt \in Nat,
         NEW integral \in Nat, dt = 0 => integral = 0, UpdateTokenOk(k, dt, integral),
         ~UpdateToken(k, reserve_other, dt, integral).clipped, NEW v \in Nat
  PROVE  /\ ~k.clipped
         /\ SheetOf(UpdateToken(k, reserve_other, dt, integral), v)
              = Accounts!Charged(SheetOf(k, v), integral)
<1> DEFINE priced == UpdatePrices(k, SpotPrice(k.reserve, reserve_other), dt)
           next   == UpdateToken(k, reserve_other, dt, integral)
<1>1. k.reserve \in U64
  BY DEF Ledger
<1>2. next = IF dt = 0 THEN priced ELSE AccrueInterest(priced, integral)
  BY DEF UpdateToken
<1>3. /\ priced \in Ledger
      /\ priced.reserve = k.reserve /\ priced.cash_reserve = k.cash_reserve
      /\ priced.total_debt = k.total_debt /\ priced.clipped = k.clipped
  BY <1>1, SpotPriceInU64, UpdatePricesKeeps
<1> HIDE DEF priced
<1>4. SheetOf(priced, v) = SheetOf(k, v) /\ Balanced(priced)
  BY <1>3 DEF SheetOf, Balanced
<1>5. CASE dt = 0
  <2>1. integral = 0 /\ next = priced
    BY <1>2, <1>5
  <2>2. ~k.clipped /\ SheetOf(next, v) = SheetOf(k, v)
    BY <1>3, <1>4, <2>1
  <2>3. k.cash_reserve \in Nat /\ k.total_debt \in Nat /\ k.reserve \in Nat
    BY LedgerFields
  <2>4. Accounts!Charged(SheetOf(k, v), 0) = SheetOf(k, v)
    BY <2>3, NothingCharged
  <2> QED
    BY <2>1, <2>2, <2>4 DEF next
<1>6. CASE dt # 0
  <2>1. AccrueOk(k, integral)
    BY <1>6 DEF UpdateTokenOk
  <2>2. AccrueOk(priced, integral)
    BY <1>3, <2>1 DEF AccrueOk, Interest, ProtocolFee
  <2> QED
    BY <1>2, <1>3, <1>4, <1>6, <2>2, AccrualCharges DEF next
<1> QED
  BY <1>5, <1>6

\* so is the update of the pair
LEMMA ChargeIsCharged ==
  ASSUME Sound(ledger), Clock, NEW l \in UpdatedPairs, Unclipped(l)
  PROVE  /\ Unclipped(ledger)
         /\ \E integral \in [Token -> Integrals] :
              Sheets(l, reserve_vault) = Accounts!ChargedSheets(integral)
<1>1. PICK ig \in Accruals : UpdateOk(ig) /\ l = Update(ig)
  BY DEF UpdatedPairs
<1>2. ElapsedMs \in Nat
  <2>1. slot - last_update \in Nat /\ TARGET_MS_PER_SLOT \in Nat
    BY MaxSlotAssumption, ScaleAssumption DEF Clock
  <2> QED
    BY <2>1, MulNat DEF ElapsedMs, SlotsToMs
<1>3. \A t \in Token : ig[t] \in Integrals /\ ig[t] \in Nat /\ (ElapsedMs = 0 => ig[t] = 0)
  BY IntegralsAssumption DEF Accruals
<1>4. ASSUME NEW t \in Token
      PROVE  /\ ~ledger[t].clipped
             /\ SheetOf(l[t], reserve_vault[t])
                  = Accounts!Charged(SheetOf(ledger[t], reserve_vault[t]), ig[t])
  <2>1. l[t] = UpdateToken(ledger[t], ledger[Other(t)].reserve, ElapsedMs, ig[t])
    BY <1>1, Tokens DEF Update, Updated, Sound, SoundPair, Token
  <2>2. /\ ledger[t] \in Ledger /\ ledger[Other(t)].reserve \in U64
        /\ Balanced(ledger[t]) /\ reserve_vault[t] \in Nat
    BY Tokens, SoundParts DEF TokenInv, Sound, SoundPair, Ledger
  <2>3. UpdateTokenOk(ledger[t], ElapsedMs, ig[t])
    BY <1>1 DEF UpdateOk
  <2>4. ~l[t].clipped
    BY DEF Unclipped
  <2> QED
    BY <1>2, <1>3, <2>1, <2>2, <2>3, <2>4, UpdateCharges
<1> DEFINE integral == [t \in Token |-> ig[t]]
<1>5. integral \in [Token -> Integrals]
  BY <1>3
<1>6. Sheets(l, reserve_vault) = Accounts!ChargedSheets(integral)
  BY <1>4 DEF Sheets, Accounts!ChargedSheets
<1> QED
  BY <1>4, <1>5, <1>6 DEF Unclipped

----------------------------------------------------------------------------
(* The pool's instructions. *)

\* swap is a trade: a part of the fee becomes the protocol's
LEMMA SwapBooks ==
  ASSUME NEW l, Sound(l), SoundNext, NEW t \in Token, NEW amount \in U64, Swap(t, amount, l)
  PROVE  BooksStep(l)
<1> SUFFICES ASSUME Unclipped(ledger')
             PROVE  /\ Unclipped(l)
                    /\ Accounts!Operation(Sheets(l, reserve_vault),
                                          Sheets(ledger', reserve_vault'))
  BY DEF BooksStep
<1> DEFINE o            == Other(t)
           swap_fee     == BpsCeil(amount, SwapFeeBps)
           futarchy_fee == BpsCeil(swap_fee, SwapShareBps)
           rest         == amount - swap_fee
           out          == CalculateAmountOut(l[t].reserve, l[o].reserve, rest)
           in_lp        == amount - futarchy_fee
           next         == [l EXCEPT ![t] = Credit(@, in_lp), ![o] = Debit(@, out)]
<1>1. o \in Token /\ o # t /\ \A s \in Token : s = t \/ s = o
  BY Tokens
<1>2. amount \in Nat /\ swap_fee \in Nat /\ futarchy_fee \in Nat
  <2>1. amount \in Nat /\ SwapFeeBps \in Nat /\ SwapShareBps \in Nat
    BY NumbersU64, FeesAssumption
  <2>2. swap_fee \in Nat
    BY <2>1, BpsCeilNat
  <2> QED
    BY <2>1, <2>2, BpsCeilNat
<1>3. /\ swap_fee <= amount /\ futarchy_fee <= amount
      /\ AmountOutOk(l[t].reserve, rest)
      /\ reserve_vault[t] + amount <= MaxU64
      /\ next[0].reserve * next[1].reserve >= l[0].reserve * l[1].reserve
      /\ ledger' = next
      /\ reserve_vault' = [reserve_vault EXCEPT ![t] = @ + amount, ![o] = @ - out]
  BY DEF Swap, CommitPair
<1> HIDE DEF swap_fee, futarchy_fee
<1>4. rest \in Nat /\ in_lp \in Nat /\ in_lp <= amount
  BY <1>2, <1>3
<1> HIDE DEF rest, in_lp
<1>5. out \in Nat
  BY <1>1, <1>3, <1>4, AmountOutNat, SoundParts
<1> HIDE DEF out
<1>6. /\ l \in [Token -> Ledger] /\ l[t] \in Ledger /\ l[o] \in Ledger
      /\ reserve_vault \in [Token -> U64]
      /\ l[t].cash_reserve \in Nat /\ l[t].cash_reserve <= reserve_vault[t]
      /\ reserve_vault[t] \in Nat /\ l[o].cash_reserve \in Nat /\ MaxU64 \in Nat
  BY <1>1, SoundParts, WidthAssumption DEF Sound, SoundPair
<1>7. /\ ledger'[t] = Credit(l[t], in_lp) /\ ledger'[o] = Debit(l[o], out)
      /\ reserve_vault'[t] = reserve_vault[t] + amount
      /\ reserve_vault'[o] = reserve_vault[o] - out
  BY <1>1, <1>3, <1>6
<1>8. /\ ledger'[t].clipped = l[t].clipped /\ ledger'[o].clipped = l[o].clipped
      /\ ledger'[t].total_debt = l[t].total_debt /\ ledger'[o].total_debt = l[o].total_debt
      /\ ledger'[t].cash_reserve = SatAdd(l[t].cash_reserve, in_lp)
      /\ ledger'[o].cash_reserve = l[o].cash_reserve - out
  BY <1>6, <1>7 DEF Credit, Debit, Ledger
<1>9. Unclipped(l)
  BY <1>1, <1>8 DEF Unclipped
<1>10. /\ Balances(l[t], reserve_vault[t], ledger'[t], reserve_vault'[t])
       /\ Balances(l[o], reserve_vault[o], ledger'[o], reserve_vault'[o])
  BY <1>1, <1>9, BothBalanced DEF Unclipped
<1>11. ledger'[t].cash_reserve = l[t].cash_reserve + in_lp
  BY <1>2, <1>3, <1>4, <1>6, <1>8 DEF SatAdd, Lesser
<1> DEFINE a == Sheets(l, reserve_vault)
           b == Sheets(ledger', reserve_vault')
<1>12. Accounts!Earned(a[t], b[t]) /\ b[t].fees >= a[t].fees
  <2>1. reserve_vault'[t] - reserve_vault[t] >= ledger'[t].cash_reserve - l[t].cash_reserve
    BY <1>2, <1>4, <1>6, <1>7, <1>11
  <2> QED
    BY <1>4, <1>6, <1>8, <1>10, <1>11, <2>1, EarnedWhen, SheetAt
<1>13. Accounts!Spent(a[o], b[o])
  <2>1. reserve_vault'[o] - reserve_vault[o] = ledger'[o].cash_reserve - l[o].cash_reserve
    BY <1>1, <1>5, <1>6, <1>7, <1>8, SoundParts
  <2> QED
    BY <1>1, <1>5, <1>6, <1>8, <1>10, <2>1, SpentWhen, SheetAt
<1>14. b[t].equity * b[o].equity >= a[t].equity * a[o].equity
  <2>1. /\ b[t].equity = next[t].reserve /\ b[o].equity = next[o].reserve
        /\ a[t].equity = l[t].reserve /\ a[o].equity = l[o].reserve
    <3>1. ledger' = next
      BY <1>3
    <3> HIDE DEF next, o
    <3> QED
      BY <1>1, <3>1 DEF Sheets, SheetOf
  <2>2. /\ l[t].reserve \in Nat /\ l[o].reserve \in Nat
        /\ next[t].reserve \in Nat /\ next[o].reserve \in Nat
    BY <1>1, <1>3, <1>10 DEF Balances
  <2>3. (t = 0 /\ o = 1) \/ (t = 1 /\ o = 0)
    BY DEF Token, Other
  <2>4. next[0].reserve * next[1].reserve >= l[0].reserve * l[1].reserve
    BY <1>3
  <2> HIDE DEF a, b, next, o
  <2>5. CASE t = 0 /\ o = 1
    BY <2>1, <2>4, <2>5
  <2>6. CASE t = 1 /\ o = 0
    <3>1. /\ next[t].reserve * next[o].reserve = next[0].reserve * next[1].reserve
          /\ l[t].reserve * l[o].reserve = l[0].reserve * l[1].reserve
      BY <2>2, <2>6
    <3> QED
      BY <2>1, <2>4, <3>1
  <2> QED
    BY <2>3, <2>5, <2>6
<1>15. Accounts!Trade(a, b)
  BY <1>1, <1>12, <1>13, <1>14 DEF Accounts!Trade
<1> QED
  BY <1>9, <1>15 DEF Accounts!Operation

\* both tokens' cash and vaults grow alike
LEMMA ContributeStep ==
  ASSUME NEW l, Sound(l), SoundNext, NEW x,
         \A t \in Token : /\ x[t] \in Nat
                          /\ reserve_vault'[t] = reserve_vault[t] + x[t]
                          /\ ledger'[t].cash_reserve = SatAdd(l[t].cash_reserve, x[t])
                          /\ ledger'[t].total_debt = l[t].total_debt
                          /\ l[t].clipped => ledger'[t].clipped
  PROVE  BooksStep(l)
<1> SUFFICES ASSUME Unclipped(ledger')
             PROVE  /\ Unclipped(l)
                    /\ Accounts!Operation(Sheets(l, reserve_vault),
                                          Sheets(ledger', reserve_vault'))
  BY DEF BooksStep
<1> DEFINE a == Sheets(l, reserve_vault)
           b == Sheets(ledger', reserve_vault')
<1>1. Unclipped(l)
  BY DEF Unclipped
<1>2. ASSUME NEW t \in Token
      PROVE  Accounts!Earned(a[t], b[t]) /\ b[t].fees = a[t].fees
  <2>1. /\ Balances(l[t], reserve_vault[t], ledger'[t], reserve_vault'[t])
        /\ l[t].cash_reserve <= reserve_vault[t] /\ reserve_vault'[t] <= MaxU64
        /\ MaxU64 \in Nat
    BY <1>1, BothBalanced DEF Unclipped
  <2>2. /\ x[t] \in Nat
        /\ l[t].cash_reserve \in Nat /\ reserve_vault[t] \in Nat
        /\ reserve_vault'[t] = reserve_vault[t] + x[t]
    BY <2>1 DEF Balances
  <2>3. ledger'[t].cash_reserve = l[t].cash_reserve + x[t]
    <3>1. l[t].cash_reserve + x[t] <= MaxU64
      BY <2>1, <2>2
    <3>2. SatAdd(l[t].cash_reserve, x[t]) = l[t].cash_reserve + x[t]
      BY <2>2, <3>1, SatAddRange
    <3> QED
      BY <3>2
  <2>4. /\ ledger'[t].cash_reserve >= l[t].cash_reserve
        /\ reserve_vault'[t] - reserve_vault[t] = ledger'[t].cash_reserve - l[t].cash_reserve
        /\ reserve_vault'[t] - reserve_vault[t] >= ledger'[t].cash_reserve - l[t].cash_reserve
    BY <2>2, <2>3
  <2> QED
    BY <2>1, <2>4, EarnedWhen, SheetAt
<1>3. Accounts!Contribute(a, b)
  BY <1>2 DEF Accounts!Contribute
<1> QED
  BY <1>1, <1>3 DEF Accounts!Operation

\* add_liquidity contributes what it takes
LEMMA AddLiquidityBooks ==
  ASSUME NEW l, Sound(l), SoundNext, Supplies, NEW a \in [Token -> U64], AddLiquidity(a, l)
  PROVE  BooksStep(l)
<1> DEFINE liquidity == LiquidityFor(l, a)
           used      == [t \in Token |-> CeilDiv(liquidity * l[t].reserve, total_supply)]
<1>1. total_supply \in Nat \ {0}
  BY NumbersU64, MinLiquidityAssumption DEF Supplies
<1>2. /\ \A t \in Token : l[t].reserve > 0
      /\ ledger' = [t \in Token |-> Credit(l[t], used[t])]
      /\ reserve_vault' = [t \in Token |-> reserve_vault[t] + used[t]]
  BY DEF AddLiquidity, CommitPair
<1>3. liquidity \in Nat
  <2>1. \A t \in Token : (a[t] * total_supply) \div l[t].reserve \in Nat
    BY <1>1, <1>2, NumbersU64, MulNat, DivFloor, SoundParts
  <2> QED
    BY <2>1, Tokens, LesserRange DEF LiquidityFor
<1> HIDE DEF liquidity
<1>4. \A t \in Token : used[t] \in Nat
  BY <1>1, <1>3, MulNat, CeilDivNat, SoundParts
<1> HIDE DEF used
<1>5. \A t \in Token : /\ reserve_vault'[t] = reserve_vault[t] + used[t]
                       /\ ledger'[t].cash_reserve = SatAdd(l[t].cash_reserve, used[t])
                       /\ ledger'[t].total_debt = l[t].total_debt
                       /\ ledger'[t].clipped = l[t].clipped
  BY <1>2, SoundParts DEF Credit, Ledger
<1> QED
  BY <1>4, <1>5, ContributeStep

\* flashloan contributes its fee
LEMMA FlashloanBooks ==
  ASSUME NEW l, Sound(l), SoundNext, NEW a \in [Token -> U64], Flashloan(a, l)
  PROVE  BooksStep(l)
<1> DEFINE fee == [t \in Token |-> FlashloanFee(a[t])]
<1>1. /\ ledger' = [t \in Token |-> EarnFee(l[t], fee[t])]
      /\ reserve_vault' = [t \in Token |-> reserve_vault[t] + fee[t]]
  BY DEF Flashloan, CommitPair
<1>2. \A t \in Token : fee[t] \in Nat
  BY NumbersU64, BpsCeilNat DEF FlashloanFee, FLASHLOAN_FEE_BPS
<1> HIDE DEF fee
<1>3. \A t \in Token : /\ reserve_vault'[t] = reserve_vault[t] + fee[t]
                       /\ ledger'[t].cash_reserve = SatAdd(l[t].cash_reserve, fee[t])
                       /\ ledger'[t].total_debt = l[t].total_debt
                       /\ l[t].clipped => ledger'[t].clipped
  BY <1>1, SoundParts DEF EarnFee, Ledger
<1> QED
  BY <1>2, <1>3, ContributeStep

\* remove_liquidity is a withdrawal
LEMMA RemoveLiquidityBooks ==
  ASSUME NEW l, Sound(l), SoundNext, Supplies, NEW liquidity \in U64,
         RemoveLiquidity(liquidity, l)
  PROVE  BooksStep(l)
<1> SUFFICES ASSUME Unclipped(ledger')
             PROVE  /\ Unclipped(l)
                    /\ Accounts!Operation(Sheets(l, reserve_vault),
                                          Sheets(ledger', reserve_vault'))
  BY DEF BooksStep
<1> DEFINE out == [t \in Token |-> WithdrawAmount(l[t].reserve, liquidity)]
           a   == Sheets(l, reserve_vault)
           b   == Sheets(ledger', reserve_vault')
<1>1. total_supply \in Nat \ {0} /\ liquidity \in Nat
  BY NumbersU64, MinLiquidityAssumption DEF Supplies
<1>2. /\ ledger' = [t \in Token |-> Debit(l[t], out[t])]
      /\ reserve_vault' = [t \in Token |-> reserve_vault[t] - out[t]]
  BY DEF RemoveLiquidity, CommitPair
<1>3. \A t \in Token : out[t] \in Nat
  BY <1>1, WithdrawAmountNat, SoundParts
<1> HIDE DEF out
<1>4. \A t \in Token : /\ reserve_vault'[t] = reserve_vault[t] - out[t]
                       /\ ledger'[t].cash_reserve = l[t].cash_reserve - out[t]
                       /\ ledger'[t].total_debt = l[t].total_debt
                       /\ ledger'[t].clipped = l[t].clipped
  BY <1>2, SoundParts DEF Debit, Ledger
<1>5. Unclipped(l)
  BY <1>4 DEF Unclipped
<1>6. ASSUME NEW t \in Token PROVE Accounts!Spent(a[t], b[t])
  <2>1. Balances(l[t], reserve_vault[t], ledger'[t], reserve_vault'[t])
    BY <1>5, BothBalanced DEF Unclipped
  <2>2. /\ ledger'[t].cash_reserve <= l[t].cash_reserve
        /\ reserve_vault'[t] - reserve_vault[t] = ledger'[t].cash_reserve - l[t].cash_reserve
    BY <1>3, <1>4, SoundParts
  <2> QED
    BY <1>4, <2>1, <2>2, SpentWhen, SheetAt
<1>7. Accounts!Withdraw(a, b)
  BY <1>6 DEF Accounts!Withdraw
<1> QED
  BY <1>5, <1>7 DEF Accounts!Operation

\* claim_protocol_fees collects all the fees
LEMMA ClaimBooks ==
  ASSUME NEW l, Sound(l), SoundNext, ClaimProtocolFees(l)
  PROVE  BooksStep(l)
<1> DEFINE a == Sheets(l, reserve_vault)
           b == Sheets(ledger', reserve_vault')
<1>1. /\ ledger' = l
      /\ \A t \in Token : reserve_vault'[t] =
           reserve_vault[t] - Distributed(Claimable(reserve_vault[t], l[t]))
  BY DEF ClaimProtocolFees, CommitPair
<1>2. ASSUME NEW t \in Token PROVE Accounts!Claimed(a[t], b[t])
  <2> DEFINE claimable == Claimable(reserve_vault[t], l[t])
  <2>1. reserve_vault[t] \in Nat /\ l[t].cash_reserve \in Nat
        /\ l[t].cash_reserve <= reserve_vault[t]
    BY SoundParts
  <2>2. claimable = reserve_vault[t] - l[t].cash_reserve
    BY <2>1, SatSubRange DEF Claimable
  <2>3. reserve_vault'[t] = reserve_vault[t] - Distributed(claimable)
    BY <1>1
  <2> HIDE DEF claimable
  <2>4. reserve_vault'[t] - l[t].cash_reserve = 0
    BY <2>1, <2>2, <2>3, DistributesAll
  <2> QED
    BY <1>1, <2>4 DEF Sheets, SheetOf, Accounts!Claimed
<1>3. Accounts!Collect(a, b)
  BY <1>2 DEF Accounts!Collect
<1> QED
  BY <1>1, <1>3 DEF BooksStep, Accounts!Operation

----------------------------------------------------------------------------
(* The lending instructions. *)

\* collateral is not in the books
LEMMA CollateralBooks ==
  ASSUME NEW l, Sound(l), NEW c \in Token, NEW total,
         ledger' = [l EXCEPT ![c].total_collateral = total], reserve_vault' = reserve_vault
  PROVE  BooksStep(l)
<1> DEFINE a == Sheets(l, reserve_vault)
           b == Sheets(ledger', reserve_vault')
<1>1. ASSUME NEW t \in Token
      PROVE  /\ ledger'[t].clipped = l[t].clipped
             /\ Accounts!Same(a[t], b[t])
  <2>1. l \in [Token -> Ledger]
    BY DEF Sound, SoundPair
  <2>2. /\ ledger'[t].clipped = l[t].clipped
        /\ ledger'[t].total_debt = l[t].total_debt
        /\ ledger'[t].cash_reserve = l[t].cash_reserve
        /\ ledger'[t].reserve = l[t].reserve
    <3>1. CASE t = c
      <4>1. ledger'[t] = [l[t] EXCEPT !.total_collateral = total]
        BY <2>1, <3>1
      <4>2. l[t] \in Ledger
        BY <2>1
      <4> QED
        BY <4>1, <4>2 DEF Ledger
    <3>2. CASE t # c
      BY <2>1, <3>2
    <3> QED
      BY <3>1, <3>2
  <2> QED
    BY <2>2 DEF Sheets, SheetOf, Accounts!Same
<1>2. Accounts!Nothing(a, b)
  BY <1>1 DEF Accounts!Nothing
<1> QED
  BY <1>1, <1>2 DEF BooksStep, Unclipped, Accounts!Operation

\* one token's cash becomes debt or debt cash
LEMMA ExchangeStep ==
  ASSUME NEW l, Sound(l), SoundNext, NEW d \in Token, NEW next, NEW held,
         ledger' = [l EXCEPT ![d] = next], reserve_vault' = [reserve_vault EXCEPT ![d] = held],
         next.reserve = l[d].reserve, l[d].clipped => next.clipped,
         held - reserve_vault[d] = next.cash_reserve - l[d].cash_reserve
  PROVE  BooksStep(l)
<1> SUFFICES ASSUME Unclipped(ledger')
             PROVE  /\ Unclipped(l)
                    /\ Accounts!Operation(Sheets(l, reserve_vault),
                                          Sheets(ledger', reserve_vault'))
  BY DEF BooksStep
<1> DEFINE a == Sheets(l, reserve_vault)
           b == Sheets(ledger', reserve_vault')
<1>1. /\ l \in [Token -> Ledger] /\ reserve_vault \in [Token -> U64]
      /\ ledger'[d] = next /\ reserve_vault'[d] = held
      /\ \A t \in Token \ {d} : ledger'[t] = l[t] /\ reserve_vault'[t] = reserve_vault[t]
  BY DEF Sound, SoundPair
<1>2. Unclipped(l)
  BY <1>1 DEF Unclipped
<1>3. \A t \in Token \ {d} : Accounts!Same(a[t], b[t])
  BY <1>1 DEF Sheets, SheetOf, Accounts!Same
<1>4. Balances(l[d], reserve_vault[d], next, held)
  BY <1>1, <1>2, BothBalanced DEF Unclipped
<1>5. a[d] = SheetOf(l[d], reserve_vault[d]) /\ b[d] = SheetOf(next, held)
  BY <1>1 DEF Sheets
<1>6. Accounts!Lent(a[d], b[d]) \/ Accounts!Recovered(a[d], b[d])
  <2>1. next.cash_reserve <= l[d].cash_reserve \/ next.cash_reserve >= l[d].cash_reserve
    BY <1>4 DEF Balances
  <2> QED
    BY <1>4, <1>5, <2>1, ExchangedWhen
<1>7. Accounts!Lend(a, b) \/ Accounts!Recover(a, b)
  BY <1>3, <1>6 DEF Accounts!Lend, Accounts!Recover
<1> QED
  BY <1>2, <1>7 DEF Accounts!Operation

\* borrow lends
LEMMA BorrowBooks ==
  ASSUME NEW l, Sound(l), SoundNext, NEW u \in Users, NEW d \in Token, NEW amount \in U64,
         Borrow(u, d, amount, l)
  PROVE  BooksStep(l)
<1> DEFINE debt   == CalculateDebt(position[u][d].debt_shares, l[d])
           max    == MaxDebtForCollateral(l, Other(d), position[u][Other(d)].collateral)
           borrow == IF amount = MaxU64 THEN max.limit - debt ELSE amount
           shares == BorrowShares(l[d], borrow)
           next   == IncreaseDebt(l[d], shares, borrow)
           held   == reserve_vault[d] - borrow
<1>1. /\ l \in [Token -> Ledger] /\ l[d] \in Ledger /\ reserve_vault \in [Token -> U64]
      /\ reserve_vault[d] \in Nat /\ l[d].cash_reserve \in Nat /\ l[d].clipped \in BOOLEAN
      /\ position \in [Users -> [Token -> Holding]]
  BY SoundParts, LedgerFields DEF Sound, SoundPair
<1>2. /\ CalculateDebtOk(position[u][d].debt_shares, l[d])
      /\ ledger' = [l EXCEPT ![d] = next]
      /\ reserve_vault' = [reserve_vault EXCEPT ![d] = held]
  BY <1>1 DEF Borrow, CommitPair
<1>3. borrow \in Nat
  <2>1. max.limit \in U64
    <3>1. Other(d) \in Token
      BY Tokens
    <3> QED
      BY <1>1, <3>1, SharesOf, PostCf
  <2>2. debt \in U64
    <3>1. position[u][d].debt_shares \in Nat
      BY <1>1, SharesOf, WidthAssumption DEF U128
    <3> QED
      BY <1>1, <1>2, <3>1, CalculateDebtRange
  <2>3. borrow > 0
    BY DEF Borrow
  <2> HIDE DEF max, debt
  <2> QED
    BY <2>1, <2>2, <2>3, NumbersU64
<1> HIDE DEF borrow
<1>4. /\ next.reserve = l[d].reserve
      /\ next.cash_reserve = l[d].cash_reserve - borrow
      /\ l[d].clipped => next.clipped
  BY <1>1 DEF IncreaseDebt, Ledger
<1>5. held - reserve_vault[d] = next.cash_reserve - l[d].cash_reserve
  BY <1>1, <1>3, <1>4
<1> HIDE DEF next, held
<1> QED
  BY <1>2, <1>4, <1>5, ExchangeStep

\* repay recovers
LEMMA RepayBooks ==
  ASSUME NEW l, Sound(l), SoundNext, NEW u \in Users, NEW d \in Token, NEW amount \in U64,
         Repay(u, d, amount, l)
  PROVE  BooksStep(l)
<1> DEFINE debt   == CalculateDebt(position[u][d].debt_shares, l[d])
           repaid == IF amount = MaxU64 THEN debt ELSE amount
           shares == RepaidShares(l[d], position[u][d].debt_shares, repaid)
           next   == Repayment(l[d], shares, repaid)
           held   == reserve_vault[d] + repaid
           mid    == [l[d] EXCEPT !.total_debt_shares = SatSub(@, shares),
                                  !.total_debt        = SatSub(@, repaid),
                                  !.cash_reserve      = SatAdd(@, repaid)]
<1>1. /\ l \in [Token -> Ledger] /\ l[d] \in Ledger /\ reserve_vault \in [Token -> U64]
      /\ reserve_vault[d] \in Nat /\ l[d].cash_reserve \in Nat
      /\ l[d].cash_reserve <= reserve_vault[d] /\ MaxU64 \in Nat
      /\ position \in [Users -> [Token -> Holding]]
  BY SoundParts, LedgerFields DEF Sound, SoundPair
<1>2. /\ CalculateDebtOk(position[u][d].debt_shares, l[d])
      /\ held <= MaxU64
      /\ ledger' = [l EXCEPT ![d] = next]
      /\ reserve_vault' = [reserve_vault EXCEPT ![d] = held]
  BY <1>1 DEF Repay, RepayOk, CommitPair
<1>3. repaid \in Nat
  <2>1. position[u][d].debt_shares \in Nat
    BY <1>1, SharesOf, WidthAssumption DEF U128
  <2>2. debt \in U64
    BY <1>1, <1>2, <2>1, CalculateDebtRange
  <2> HIDE DEF debt
  <2> QED
    BY <2>2, NumbersU64
<1> HIDE DEF repaid, shares
<1>4. /\ mid.reserve = l[d].reserve /\ mid.clipped = l[d].clipped
      /\ mid.cash_reserve = SatAdd(l[d].cash_reserve, repaid)
  BY <1>1 DEF Ledger
<1>5. next = SyncEmpty(mid)
  BY DEF Repayment
<1>6. next = mid \/ next = [mid EXCEPT !.total_debt = 0]
  BY <1>5 DEF SyncEmpty
<1>7. /\ next.reserve = l[d].reserve /\ next.clipped = l[d].clipped
      /\ next.cash_reserve = l[d].cash_reserve + repaid
  <2>1. SatAdd(l[d].cash_reserve, repaid) = l[d].cash_reserve + repaid
    BY <1>1, <1>2, <1>3 DEF SatAdd, Lesser
  <2> HIDE DEF next
  <2> QED
    BY <1>1, <1>4, <1>6, <2>1 DEF Ledger
<1>8. held - reserve_vault[d] = next.cash_reserve - l[d].cash_reserve
  BY <1>1, <1>3, <1>7
<1> HIDE DEF next, held
<1> QED
  BY <1>2, <1>7, <1>8, ExchangeStep

\* liquidate loses debt and earns collateral
LEMMA LiquidateBooks ==
  ASSUME NEW l, Sound(l), SoundNext, NEW u \in Users, NEW c \in Token, Liquidate(u, c, l)
  PROVE  BooksStep(l)
<1> SUFFICES ASSUME Unclipped(ledger')
             PROVE  /\ Unclipped(l)
                    /\ Accounts!Operation(Sheets(l, reserve_vault),
                                          Sheets(ledger', reserve_vault'))
  BY DEF BooksStep
<1> DEFINE d         == Other(c)
           held      == position[u][d].debt_shares
           pledged   == position[u][c].collateral
           v         == LiquidationReserves(l, c)
           debt      == CalculateDebt(held, l[d])
           insolvent == debt > CollateralValue(l, c, pledged)
           shares    == SharesToWriteOff(held, insolvent)
           written   == DebtToWriteOff(l[d], shares, debt)
           base      == CalculateAmountIn(v.x, v.y, written)
           seized    == SeizedCollateral(base, pledged)
           incentive == CallerIncentive(base, seized)
           gain      == seized - incentive
           after     == WriteOff(l[d], shares, written)
           richer    == Seize(l[c], seized, incentive)
           a         == Sheets(l, reserve_vault)
           b         == Sheets(ledger', reserve_vault')
<1>1. d \in Token /\ c # d /\ \A t \in Token : t = c \/ t = d
  BY Tokens
<1>2. /\ l \in [Token -> Ledger] /\ l[d] \in Ledger /\ l[c] \in Ledger
      /\ reserve_vault \in [Token -> U64]
      /\ reserve_vault[c] \in Nat /\ MaxU64 \in Nat
      /\ l[c].cash_reserve \in Nat /\ l[c].cash_reserve <= reserve_vault[c]
      /\ position \in [Users -> [Token -> Holding]]
  BY <1>1, SoundParts, WidthAssumption DEF Sound, SoundPair
<1>3. /\ CalculateDebtOk(held, l[d])
      /\ AmountInOk(v.x, v.y, written)
      /\ reserve_vault[c] + gain <= MaxU64
      /\ reserve_vault' = [reserve_vault EXCEPT ![c] = @ + gain]
  BY DEF Liquidate, LiquidateOk
<1>4. ledger' = [l EXCEPT ![d] = after, ![c] = richer]
  BY <1>1, <1>2 DEF Liquidate, CommitPair
<1>5. held \in Nat /\ pledged \in Nat
  <2>1. held \in U128 /\ pledged \in U64
    BY <1>1, <1>2, SharesOf
  <2> HIDE DEF held, pledged
  <2> QED
    BY <2>1, WidthAssumption DEF U64, U128
<1>6. base \in Nat
  BY <1>3 DEF AmountInOk, U64
<1> HIDE DEF d, held, pledged, base, insolvent
<1>7. gain \in Nat
  <2>1. BpsCeil(base, BPS_DENOMINATOR + LIQUIDATION_PENALTY_BPS) \in Nat
    <3>1. BPS_DENOMINATOR + LIQUIDATION_PENALTY_BPS \in Nat
      BY BpsFacts DEF LIQUIDATION_PENALTY_BPS
    <3> QED
      BY <1>6, <3>1, BpsCeilNat
  <2>2. seized \in Nat
    BY <1>5, <2>1, LesserRange DEF SeizedCollateral
  <2>3. BpsFloor(base, LIQUIDATION_INCENTIVE_BPS) \in Nat
    BY <1>6, BpsFloorNat DEF LIQUIDATION_INCENTIVE_BPS
  <2>4. incentive \in Nat /\ incentive <= seized
    BY <2>2, <2>3, LesserRange DEF CallerIncentive
  <2> HIDE DEF seized, incentive
  <2> QED
    BY <2>2, <2>4
<1>8. written \in Nat
  <2>1. shares \in Nat /\ shares <= held
    <3>1. CLOSE_FACTOR_BPS \in Nat
      BY DEF CLOSE_FACTOR_BPS
    <3>2. BpsCeil(held, CLOSE_FACTOR_BPS) \in Nat
      BY <1>5, <3>1, BpsCeilNat
    <3> QED
      BY <1>5, <3>2, LesserRange DEF SharesToWriteOff
  <2> HIDE DEF shares
  <2>2. held > 0 /\ Shares(position, d)[u] = held
    BY <1>1, <1>2, SharesOf DEF Liquidate, LiquidateOk, Undercollateralized, d, held
  <2> QED
    BY <1>1, <1>3, <1>5, <2>1, <2>2, WriteOffInv, SoundParts
<1> HIDE DEF written, shares
<1>9. /\ after.clipped = l[d].clipped
      /\ after.cash_reserve = l[d].cash_reserve
      /\ after.total_debt <= l[d].total_debt
  <2> DEFINE all  == SatSub(l[d].total_debt_shares, shares)
             left == SatSub(l[d].total_debt, written)
             res  == IF l[d].reserve < written THEN 1 ELSE l[d].reserve - written
             mid  == [l[d] EXCEPT !.total_debt_shares = all, !.total_debt = left,
                                  !.reserve = res]
  <2>1. after = SyncEmpty(mid)
    BY DEF WriteOff
  <2>2. left \in Nat /\ left <= l[d].total_debt /\ l[d].total_debt \in Nat
    BY <1>2, <1>8, LedgerFields, SatSubRange
  <2> HIDE DEF all, left, res
  <2>3. /\ mid.clipped = l[d].clipped /\ mid.cash_reserve = l[d].cash_reserve
        /\ mid.total_debt = left
    BY <1>2 DEF Ledger
  <2>4. after = mid \/ after = [mid EXCEPT !.total_debt = 0]
    BY <2>1 DEF SyncEmpty
  <2>5. after = mid \/ (after.total_debt = 0 /\ after.clipped = mid.clipped
                        /\ after.cash_reserve = mid.cash_reserve)
    BY <1>2, <2>4 DEF Ledger
  <2> HIDE DEF mid, after
  <2> QED
    BY <2>2, <2>3, <2>5
<1>10. /\ richer.clipped = l[c].clipped
       /\ richer.total_debt = l[c].total_debt
       /\ richer.cash_reserve = SatAdd(l[c].cash_reserve, gain)
  BY <1>2 DEF Seize, Credit, Ledger
<1> HIDE DEF after, richer, gain
<1>11. /\ ledger'[d] = after /\ ledger'[c] = richer
       /\ reserve_vault'[d] = reserve_vault[d]
       /\ reserve_vault'[c] = reserve_vault[c] + gain
  BY <1>1, <1>2, <1>3, <1>4
<1>12. Unclipped(l)
  BY <1>1, <1>9, <1>10, <1>11 DEF Unclipped
<1>13. /\ Balances(l[d], reserve_vault[d], after, reserve_vault[d])
       /\ Balances(l[c], reserve_vault[c], richer, reserve_vault[c] + gain)
  <2>1. /\ ~l[d].clipped /\ ~ledger'[d].clipped /\ ~l[c].clipped /\ ~ledger'[c].clipped
    BY <1>1, <1>12 DEF Unclipped
  <2> QED
    BY <1>1, <1>11, <2>1, BothBalanced
<1>14. Accounts!Lost(a[d], b[d])
  <2>1. a[d] = SheetOf(l[d], reserve_vault[d]) /\ b[d] = SheetOf(after, reserve_vault[d])
    BY <1>1, <1>11 DEF Sheets
  <2> QED
    BY <1>9, <1>13, <2>1, LostWhen
<1>15. Accounts!Earned(a[c], b[c]) /\ b[c].fees = a[c].fees
  <2>1. /\ a[c] = SheetOf(l[c], reserve_vault[c])
        /\ b[c] = SheetOf(richer, reserve_vault[c] + gain)
    BY <1>11 DEF Sheets
  <2>2. richer.cash_reserve = l[c].cash_reserve + gain
    BY <1>2, <1>3, <1>7, <1>10 DEF SatAdd, Lesser
  <2>3. /\ richer.cash_reserve >= l[c].cash_reserve
        /\ (reserve_vault[c] + gain) - reserve_vault[c] = richer.cash_reserve - l[c].cash_reserve
        /\ (reserve_vault[c] + gain) - reserve_vault[c] >= richer.cash_reserve - l[c].cash_reserve
    BY <1>2, <1>7, <2>2
  <2> QED
    BY <1>10, <1>13, <2>1, <2>3, EarnedWhen
<1>16. Accounts!WriteOff(a, b)
  BY <1>1, <1>14, <1>15 DEF Accounts!WriteOff
<1> QED
  BY <1>12, <1>16 DEF Accounts!Operation

----------------------------------------------------------------------------
(* The refinement. *)

\* every instruction on sound ledgers does to the books what it may
LEMMA InstructionBooks ==
  ASSUME PairInv, PairInv', NEW l, Sound(l),
         PoolInstruction(l) \/ \E u \in Users : LendingInstruction(u, l)
  PROVE  BooksStep(l)
<1>1. SoundNext /\ Supplies
  BY DEF PairInv, Sound, SoundNext
<1>2. CASE \E t \in Token : \E amount \in Inputs.swap[t] : Swap(t, amount, l)
  <2>0. PICK t \in Token : \E amount \in Inputs.swap[t] : Swap(t, amount, l)
    BY <1>2
  <2>1. PICK amount \in Inputs.swap[t] : Swap(t, amount, l)
    BY <2>0
  <2> QED
    BY <1>1, <2>1, InputsAssumption, SwapBooks
<1>3. CASE \E a \in Inputs.liquidity : AddLiquidity(a, l)
  <2>1. PICK a \in Inputs.liquidity : AddLiquidity(a, l)
    BY <1>3
  <2> QED
    BY <1>1, <2>1, InputsAssumption, AddLiquidityBooks
<1>4. CASE \E liquidity \in Inputs.burn : RemoveLiquidity(liquidity, l)
  <2>1. PICK liquidity \in Inputs.burn : RemoveLiquidity(liquidity, l)
    BY <1>4
  <2> QED
    BY <1>1, <2>1, InputsAssumption, RemoveLiquidityBooks
<1>5. CASE \E a \in Inputs.flash : Flashloan(a, l)
  <2>1. PICK a \in Inputs.flash : Flashloan(a, l)
    BY <1>5
  <2> QED
    BY <1>1, <2>1, InputsAssumption, FlashloanBooks
<1>6. CASE ClaimProtocolFees(l)
  BY <1>1, <1>6, ClaimBooks
<1>7. CASE \E u \in Users : LendingInstruction(u, l)
  <2>1. PICK u \in Users : LendingInstruction(u, l)
    BY <1>7
  <2>2. CASE \E c \in Token : \E amount \in Inputs.collateral[c] : AddCollateral(u, c, amount, l)
    <3>0. PICK c \in Token : \E amount \in Inputs.collateral[c] : AddCollateral(u, c, amount, l)
      BY <2>2
    <3>1. PICK amount \in Inputs.collateral[c] : AddCollateral(u, c, amount, l)
      BY <3>0
    <3>2. ledger' = [l EXCEPT ![c].total_collateral = l[c].total_collateral + amount]
          /\ reserve_vault' = reserve_vault
      BY <3>1 DEF AddCollateral, CommitPair
    <3> QED
      BY <3>2, CollateralBooks
  <2>3. CASE \E c \in Token : \E amount \in Inputs.withdraw[c] : RemoveCollateral(u, c, amount, l)
    <3>0. PICK c \in Token : \E amount \in Inputs.withdraw[c] : RemoveCollateral(u, c, amount, l)
      BY <2>3
    <3>1. PICK amount \in Inputs.withdraw[c] : RemoveCollateral(u, c, amount, l)
      BY <3>0
    <3>2. (\E total : ledger' = [l EXCEPT ![c].total_collateral = total])
          /\ reserve_vault' = reserve_vault
      BY <3>1 DEF RemoveCollateral, CommitPair
    <3> QED
      BY <3>2, CollateralBooks
  <2>4. CASE \E d \in Token : \E amount \in Inputs.debt[d] : Borrow(u, d, amount, l)
    <3>0. PICK d \in Token : \E amount \in Inputs.debt[d] : Borrow(u, d, amount, l)
      BY <2>4
    <3>1. PICK amount \in Inputs.debt[d] : Borrow(u, d, amount, l)
      BY <3>0
    <3> QED
      BY <1>1, <2>1, <3>1, InputsAssumption, BorrowBooks
  <2>5. CASE \E d \in Token : \E amount \in Inputs.debt[d] : Repay(u, d, amount, l)
    <3>0. PICK d \in Token : \E amount \in Inputs.debt[d] : Repay(u, d, amount, l)
      BY <2>5
    <3>1. PICK amount \in Inputs.debt[d] : Repay(u, d, amount, l)
      BY <3>0
    <3> QED
      BY <1>1, <2>1, <3>1, InputsAssumption, RepayBooks
  <2>6. CASE \E c \in Token : Liquidate(u, c, l)
    BY <1>1, <2>1, <2>6, LiquidateBooks
  <2> QED
    BY <2>1, <2>2, <2>3, <2>4, <2>5, <2>6 DEF LendingInstruction
<1> QED
  BY <1>2, <1>3, <1>4, <1>5, <1>6, <1>7 DEF PoolInstruction

\* the bootstrapped pool: all cash is the LPs', nothing is owed
LEMMA InitBooks == Init => Accounts!Init
<1> SUFFICES ASSUME Init PROVE Accounts!Init
  OBVIOUS
<1>1. PairInv
  BY InitInv
<1>2. PICK a \in Bootstrap : /\ ledger = [t \in Token |-> BootstrapLedger(a[t], a[Other(t)])]
                             /\ reserve_vault = a
  BY DEF Init
<1>3. \A t \in Token : /\ ledger[t].reserve = a[t] /\ ledger[t].cash_reserve = a[t]
                       /\ ledger[t].total_debt = 0 /\ ~ledger[t].clipped
                       /\ reserve_vault[t] = a[t] /\ a[t] \in Nat
  BY <1>2, BootstrapAssumption, WidthAssumption DEF BootstrapLedger, U64
<1> DEFINE sheet == [t \in Token |-> SheetOf(ledger[t], reserve_vault[t])]
<1>4. \A t \in Token : sheet[t] = [cash |-> a[t], owed |-> 0, equity |-> a[t], fees |-> 0]
  BY <1>3 DEF SheetOf
<1>5. \A t \in Token : sheet[t] \in Accounts!Sheet
  <2> SUFFICES ASSUME NEW t \in Token PROVE sheet[t] \in Accounts!Sheet
    OBVIOUS
  <2>1. sheet[t] = [cash |-> a[t], owed |-> 0, equity |-> a[t], fees |-> 0] /\ a[t] \in Nat
    BY <1>3, <1>4
  <2> HIDE DEF sheet
  <2> QED
    BY <2>1 DEF Accounts!Sheet
<1>6. sheet \in [Token -> Accounts!Sheet]
  BY <1>5
<1>7. \A t \in Token : sheet[t].owed = 0 /\ sheet[t].fees = 0 /\ sheet[t].equity = sheet[t].cash
  <2> SUFFICES ASSUME NEW t \in Token
               PROVE  sheet[t].owed = 0 /\ sheet[t].fees = 0 /\ sheet[t].equity = sheet[t].cash
    OBVIOUS
  <2>1. sheet[t] = [cash |-> a[t], owed |-> 0, equity |-> a[t], fees |-> 0]
    BY <1>4
  <2> HIDE DEF sheet
  <2> QED
    BY <2>1
<1>8. (\E t \in Token : ledger[t].clipped) = FALSE
  BY <1>3
<1> QED
  BY <1>6, <1>7, <1>8 DEF Accounts!Init

\* a donation is a gift
LEMMA DonateBooks ==
  ASSUME PairInv, NEW t \in Token, NEW amount \in U64, Donate(t, amount)
  PROVE  Accounts!Present(Sheets(ledger, reserve_vault), Sheets(ledger', reserve_vault'))
<1> DEFINE a == Sheets(ledger, reserve_vault)
           b == Sheets(ledger', reserve_vault')
<1>1. /\ ledger' = ledger
      /\ reserve_vault' = [reserve_vault EXCEPT ![t] = @ + amount]
      /\ reserve_vault \in [Token -> U64]
  BY DEF Donate, pairVars, PairInv, Sound, SoundPair
<1>2. amount \in Nat /\ reserve_vault[t] \in Nat /\ ledger[t].cash_reserve \in Nat
  BY NumbersU64, SoundParts DEF PairInv
<1>3. \A s \in Token \ {t} : Accounts!Same(a[s], b[s])
  BY <1>1 DEF Sheets, SheetOf, Accounts!Same
<1>4. Accounts!Claimed([a[t] EXCEPT !.fees = 0], [b[t] EXCEPT !.fees = 0])
  BY <1>1 DEF Sheets, SheetOf, Accounts!Claimed
<1>5. b[t].fees >= a[t].fees
  <2>1. /\ a[t].fees = reserve_vault[t] - ledger[t].cash_reserve
        /\ b[t].fees = (reserve_vault[t] + amount) - ledger[t].cash_reserve
    BY <1>1 DEF Sheets, SheetOf
  <2> HIDE DEF a, b
  <2> QED
    BY <1>2, <2>1
<1> QED
  BY <1>3, <1>4, <1>5 DEF Accounts!Present

\* every step of the pair is a step of the books or a stutter
LEMMA NextBooks == PairInv /\ PairInv' /\ [Next]_vars => [Accounts!Next]_(Accounts!books)
<1> SUFFICES ASSUME PairInv, PairInv', [Next]_vars PROVE [Accounts!Next]_(Accounts!books)
  OBVIOUS
<1>1. CASE ~Unclipped(ledger')
  BY <1>1 DEF Unclipped, Accounts!Next
<1>2. ASSUME Unclipped(ledger'), NEW l \in UpdatedPairs,
             PoolInstruction(l) \/ \E u \in Users : LendingInstruction(u, l)
      PROVE  Accounts!Next
  <2>1. Sound(l)
    BY UpdateSound DEF PairInv
  <2>2. /\ Unclipped(l)
        /\ Accounts!Operation(Sheets(l, reserve_vault), Sheets(ledger', reserve_vault'))
    BY <1>2, <2>1, InstructionBooks DEF BooksStep
  <2>3. \E integral \in [Token -> Integrals] :
          Sheets(l, reserve_vault) = Accounts!ChargedSheets(integral)
    BY <2>2, ChargeIsCharged DEF PairInv
  <2> QED
    BY <2>2, <2>3 DEF Accounts!Next, Sheets
<1>3. CASE Environment
  <2>1. CASE \E t \in Token : \E amount \in Inputs.donation[t] : Donate(t, amount)
    <3>1. PICK t \in Token : \E amount \in Inputs.donation[t] : Donate(t, amount)
      BY <2>1
    <3>2. PICK amount \in Inputs.donation[t] : Donate(t, amount)
      BY <3>1
    <3>3. Accounts!Present(Sheets(ledger, reserve_vault), Sheets(ledger', reserve_vault'))
      BY <3>2, InputsAssumption, DonateBooks
    <3> QED
      BY <3>3 DEF Accounts!Next, Sheets
  <2>2. CASE ~\E t \in Token : \E amount \in Inputs.donation[t] : Donate(t, amount)
    <3>1. ledger' = ledger /\ reserve_vault' = reserve_vault
      BY <1>3, <2>2 DEF Environment, Tick, SetPairReduceOnly, SetGlobalReduceOnly,
                        pairVars, vaultVars
    <3> QED
      BY <3>1 DEF Accounts!books
  <2> QED
    BY <2>1, <2>2
<1>4. CASE UNCHANGED vars
  BY <1>4 DEF vars, pairVars, vaultVars, Accounts!books
<1> QED
  BY <1>1, <1>2, <1>3, <1>4 DEF Next

\* The pair implements the balance sheet: whatever the interleaving of users,
\* prices and interest, each instruction charges what it should and moves value
\* between cash, debt, equity and fees in one of the ways the balance sheet
\* has, as long as no addition clips at u64::MAX.
THEOREM BooksAreKept == Spec => BooksKept
<1>1. Init => Accounts!Init
  BY InitBooks
<1>2. PairInv /\ PairInv' /\ [Next]_vars => [Accounts!Next]_(Accounts!books)
  BY NextBooks
<1> QED
  BY <1>1, <1>2, PairAlwaysSound, PTL DEF Spec, BooksKept, Accounts!Spec

----------------------------------------------------------------------------
(* The controller. *)

\* the inductive invariant of what the controller adds
RatedInv ==
  /\ IsRateModel(rate_model)
  /\ last_rate \in [Token -> U64]

\* a token's utilization is a u64
LEMMA UtilizationInU64 ==
  ASSUME PairInv, NEW t \in Token
  PROVE  Utilization(ledger[t]) \in U64
<1>1. ledger[t].reserve \in Nat /\ ledger[t].total_debt \in Nat /\ NAD \in Nat
  BY SoundParts, ScaleAssumption, NumbersU64 DEF PairInv, Ledger
<1>2. CASE ledger[t].reserve = 0
  BY <1>2, WidthAssumption DEF Utilization, U64
<1>3. CASE ledger[t].reserve # 0
  <2>1. (ledger[t].total_debt * NAD) \div ledger[t].reserve \in Nat
    BY <1>1, <1>3, MulNat, DivFloor
  <2> QED
    BY <1>3, <2>1, CutInU64 DEF Utilization
<1> QED
  BY <1>2, <1>3

\* the controller's answers: one of Omnipair's charges, and a u64 rate
LEMMA AnswersInRange ==
  ASSUME Integrals = U64, PairInv, RatedInv, RatesOk
  PROVE  /\ RateCharges \in Accruals
         /\ [t \in Token |-> RateAnswer(t).rate] \in [Token -> U64]
<1>1. ElapsedMs \in Nat
  BY ElapsedNat DEF PairInv
<1>2. CASE ElapsedMs = 0
  <2>1. \A t \in Token : RateAnswer(t) = [rate |-> last_rate[t], integral |-> 0]
    BY <1>2 DEF RateAnswer, CalculateRate
  <2>2. RateCharges \in [Token -> {0}]
    BY <2>1 DEF RateCharges
  <2> QED
    BY <1>2, <2>1, <2>2 DEF Accruals, RatedInv
<1>3. CASE ElapsedMs > 0
  <2>1. \A t \in Token : /\ RateAnswer(t).integral \in U64
                         /\ RateAnswer(t).rate \in U64
    <3> SUFFICES ASSUME NEW t \in Token
                 PROVE  RateAnswer(t).integral \in U64 /\ RateAnswer(t).rate \in U64
      OBVIOUS
    <3>1. /\ CalculateRateOk(rate_model, last_rate[t], ElapsedMs, Utilization(ledger[t]))
          /\ Utilization(ledger[t]) \in U64
          /\ last_rate[t] \in U64
          /\ IsRateModel(rate_model)
      BY UtilizationInU64 DEF RatesOk, RatedInv
    <3>2. RateAnswer(t).integral \in U64
      BY <1>1, <3>1, IntegralInU64 DEF RateAnswer
    <3>3. NewRate(rate_model, last_rate[t], ElapsedMs, Utilization(ledger[t])) \in U64
      BY <1>1, <1>3, <3>1, RateWithinLimits
    <3> QED
      BY <3>2, <3>3 DEF RateAnswer, NewRate
  <2>2. RateCharges \in [Token -> U64]
    BY <2>1 DEF RateCharges
  <2>3. ElapsedMs # 0
    BY <1>1, <1>3
  <2> QED
    BY <2>1, <2>2, <2>3 DEF Accruals
<1> QED
  BY <1>1, <1>2, <1>3

\* an instruction on the rated pair is one on the pair
LEMMA RatedInstructionIsNext ==
  ASSUME Integrals = U64, PairInv, RatedInv, RatedInstruction
  PROVE  Next /\ RatedInv'
<1>1. /\ RateCharges \in Accruals
      /\ [t \in Token |-> RateAnswer(t).rate] \in [Token -> U64]
  BY AnswersInRange DEF RatedInstruction
<1>2. RatedPair \in UpdatedPairs
  BY <1>1 DEF RatedInstruction, UpdatedPairs, RatedPair
<1>3. Next
  BY <1>2 DEF RatedInstruction, Next
<1>4. last_rate' \in [Token -> U64] /\ IsRateModel(rate_model')
  BY <1>1 DEF RatedInstruction, RatedInv
<1> QED
  BY <1>3, <1>4 DEF RatedInv

\* a new pair's rates are its model's initial rate
LEMMA InitRatedInv == RatedInit => RatedInv
BY RatedModelsAssumption, NewIsRateModel DEF RatedInit, RatedInv

\* every step of the rated pair is a step of the pair or leaves it alone
LEMMA RatedNextIsNext ==
  ASSUME Integrals = U64, PairInv, RatedInv, [RatedNext]_ratedVars
  PROVE  [Next]_vars /\ RatedInv'
<1>1. CASE RatedInstruction
  BY <1>1, RatedInstructionIsNext
<1>2. CASE Environment /\ UNCHANGED rateVars
  BY <1>2 DEF Next, rateVars, RatedInv
<1>3. ASSUME NEW a \in Models, SetPairRateModel(a) PROVE [Next]_vars /\ RatedInv'
  BY <1>3, RatedModelsAssumption, NewIsRateModel DEF SetPairRateModel, RatedInv
<1>4. CASE UNCHANGED ratedVars
  BY <1>4 DEF ratedVars, rateVars, RatedInv
<1> QED
  BY <1>1, <1>2, <1>3, <1>4 DEF RatedNext

\* The pair with the interest-rate controller implements the pair: whatever
\* models governance creates and switches to, every update charges what
\* Omnipair admits, and nothing else of the pair depends on the controller.
THEOREM RatedPairImplementsPair ==
  ASSUME Integrals = U64
  PROVE  RatedSpec => ImplementsPair
<1>1. RatedInit => Init /\ PairInv /\ RatedInv
  BY InitInv, InitRatedInv DEF RatedInit
<1>2. PairInv /\ RatedInv /\ [RatedNext]_ratedVars => [Next]_vars /\ PairInv' /\ RatedInv'
  BY RatedNextIsNext, NextInv
<1> QED
  BY <1>1, <1>2, PTL DEF RatedSpec, ImplementsPair, Spec

\* With computed rates the vaults back the accounts, the ledger identity
\* holds and every instruction keeps the books, as they do with arbitrary
\* ones.
THEOREM RatedPairKeepsBooks ==
  ASSUME Integrals = U64
  PROVE  RatedSpec => BooksKept /\ []VaultsBackAccounts /\ []LedgerIdentity
BY RatedPairImplementsPair, BooksAreKept, VaultsAlwaysBack, IdentityHolds, PTL DEF ImplementsPair

----------------------------------------------------------------------------
(* Which way a rate moves. *)

\* one answer: up only above the band or from below the floor, down only
\* below the band or from above the ceiling
LEMMA AnswerFollowsUtilization ==
  ASSUME NEW m, IsRateModel(m), NEW last_r \in U64, NEW dt \in Nat, dt > 0, NEW util \in U64,
         CalculateRateOk(m, last_r, dt, util)
  PROVE  LET rate == NewRate(m, last_r, dt, util)
         IN  /\ rate > last_r => util > m.target_util_end \/ last_r < m.min_rate
             /\ rate < last_r => \/ util < m.target_util_start
                                 \/ m.max_rate > 0 /\ last_r > m.max_rate
<1> DEFINE last == Greater(last_r, m.min_rate)
           up   == Grown(m, last, dt)
           down == Decayed(m, last, dt)
           rate == NewRate(m, last_r, dt, util)
           Follows(r) == /\ r > last_r => util > m.target_util_end \/ last_r < m.min_rate
                         /\ r < last_r => \/ util < m.target_util_start
                                          \/ m.max_rate > 0 /\ last_r > m.max_rate
<1> SUFFICES Follows(rate)
  OBVIOUS
<1>1. /\ MaxU64 \in Nat /\ m.min_rate \in Nat /\ m.max_rate \in Nat /\ last_r \in Nat
      /\ m.max_rate <= MaxU64 /\ m.min_rate <= MaxU64 /\ last_r <= MaxU64
      /\ last \in Nat /\ last \in U64 /\ last_r <= last /\ last <= MaxU64
      /\ last = last_r \/ (last_r < m.min_rate /\ last = m.min_rate)
      /\ m.target_util_start \in Nat /\ m.target_util_end \in Nat
      /\ m.target_util_start <= m.target_util_end /\ util \in Nat
  <2>1. /\ MaxU64 \in Nat /\ m.min_rate \in Nat /\ m.max_rate \in Nat /\ last_r \in Nat
        /\ m.max_rate <= MaxU64 /\ m.min_rate <= MaxU64 /\ last_r <= MaxU64
        /\ m.target_util_start \in Nat /\ m.target_util_end \in Nat
        /\ m.target_util_start <= m.target_util_end /\ util \in Nat
    BY OneInU64 DEF U64, IsRateModel
  <2>2. last = last_r \/ (last_r < m.min_rate /\ last = m.min_rate)
    BY <2>1 DEF Greater
  <2> HIDE DEF last
  <2>3. last \in Nat /\ last <= MaxU64 /\ last_r <= last
    BY <2>1, <2>2
  <2>4. last \in U64
    BY <2>1, <2>3 DEF U64
  <2> QED
    BY <2>1, <2>2, <2>3, <2>4
<1>2. /\ util > m.target_util_end =>
             rate = Lesser(IF HitsMax(m, last, dt) THEN m.max_rate ELSE up, MaxU64)
      /\ ~(util > m.target_util_end) /\ util < m.target_util_start =>
             rate = Lesser(IF HitsMin(m, last, dt) THEN m.min_rate ELSE down, MaxU64)
      /\ ~(util > m.target_util_end) /\ ~(util < m.target_util_start) =>
             rate = Lesser(last, MaxU64)
  BY RateBranches
<1>3. /\ util > m.target_util_end /\ ~HitsMax(m, last, dt) => m.exp_rate > 0
      /\ util < m.target_util_start /\ ~HitsMin(m, last, dt) => m.exp_rate > 0
  <2>1. /\ util > m.target_util_end => ~(util \in m.target_util_start .. m.target_util_end)
        /\ util > m.target_util_end => ~(util < m.target_util_start)
        /\ util < m.target_util_start => ~(util \in m.target_util_start .. m.target_util_end)
        /\ util < m.target_util_start => ~(util > m.target_util_end)
    BY <1>1
  <2>2. dt # 0
    OBVIOUS
  <2> QED
    BY <2>1, <2>2, Zenon DEF CalculateRateOk
<1>4. CASE util > m.target_util_end
  <2>1. CASE HitsMax(m, last, dt)
    <3>1. rate = m.max_rate /\ m.max_rate > 0
      BY <1>1, <1>2, <1>4, <2>1 DEF HitsMax, Lesser
    <3> HIDE DEF rate
    <3> QED
      BY <1>1, <1>4, <3>1
  <2>2. CASE ~HitsMax(m, last, dt)
    <3>1. up \in Nat /\ up >= last
      BY <1>1, <1>3, <1>4, <2>2, GrownAtLeast
    <3>2. rate = Lesser(up, MaxU64)
      BY <1>2, <1>4, <2>2
    <3> HIDE DEF up, rate, last
    <3>3. rate >= last_r /\ rate \in Nat
      BY <1>1, <3>1, <3>2 DEF Lesser
    <3> QED
      BY <1>1, <1>4, <3>3
  <2> QED
    BY <2>1, <2>2
<1>5. CASE ~(util > m.target_util_end) /\ util < m.target_util_start
  <2>1. CASE HitsMin(m, last, dt)
    <3>1. rate = m.min_rate
      BY <1>1, <1>2, <1>5, <2>1 DEF Lesser
    <3> HIDE DEF rate
    <3> QED
      BY <1>1, <1>5, <3>1
  <2>2. CASE ~HitsMin(m, last, dt)
    <3>1. down \in Nat /\ down <= last
      BY <1>1, <1>3, <1>5, <2>2, DecayedAtMost
    <3>2. rate = Lesser(down, MaxU64)
      BY <1>2, <1>5, <2>2
    <3> HIDE DEF down, rate, last
    <3>3. rate <= last /\ rate \in Nat
      BY <1>1, <3>1, <3>2 DEF Lesser
    <3> QED
      BY <1>1, <1>5, <3>3
  <2> QED
    BY <2>1, <2>2
<1>6. CASE ~(util > m.target_util_end) /\ ~(util < m.target_util_start)
  <2>1. rate = last
    BY <1>1, <1>2, <1>6 DEF Lesser
  <2> HIDE DEF rate, last
  <2> QED
    BY <1>1, <1>6, <2>1
<1> QED
  BY <1>4, <1>5, <1>6

\* The price of borrowing a token moves against the use of that token only:
\* up while more of it is lent out than the band, down while less is, or to
\* a limit of a model the pair was switched to.
THEOREM RatesFollow ==
  ASSUME Integrals = U64
  PROVE  RatedSpec => RatesFollowUtilization
<1> DEFINE Follows ==
      \A t \in Token :
        LET util == Utilization(ledger[t])
        IN  /\ last_rate'[t] > last_rate[t] =>
                 util > rate_model.target_util_end \/ last_rate[t] < rate_model.min_rate
            /\ last_rate'[t] < last_rate[t] =>
                 \/ util < rate_model.target_util_start
                 \/ rate_model.max_rate > 0 /\ last_rate[t] > rate_model.max_rate
<1>1. RatedInit => Init /\ PairInv /\ RatedInv
  BY InitInv, InitRatedInv DEF RatedInit
<1>2. PairInv /\ RatedInv /\ [RatedNext]_ratedVars => PairInv' /\ RatedInv'
  BY RatedNextIsNext, NextInv
<1>3. PairInv /\ RatedInv /\ [RatedNext]_ratedVars => [Follows]_ratedVars
  <2> SUFFICES ASSUME PairInv, RatedInv, RatedNext PROVE Follows
    OBVIOUS
  <2>1. CASE RatedInstruction
    <3> SUFFICES ASSUME NEW t \in Token
                 PROVE  LET util == Utilization(ledger[t])
                        IN  /\ last_rate'[t] > last_rate[t] =>
                                 \/ util > rate_model.target_util_end
                                 \/ last_rate[t] < rate_model.min_rate
                            /\ last_rate'[t] < last_rate[t] =>
                                 \/ util < rate_model.target_util_start
                                 \/ rate_model.max_rate > 0 /\ last_rate[t] > rate_model.max_rate
      OBVIOUS
    <3>1. last_rate'[t] = RateAnswer(t).rate
      BY <2>1 DEF RatedInstruction
    <3>2. /\ CalculateRateOk(rate_model, last_rate[t], ElapsedMs, Utilization(ledger[t]))
          /\ Utilization(ledger[t]) \in U64
          /\ last_rate[t] \in U64 /\ last_rate[t] \in Nat
          /\ IsRateModel(rate_model)
      BY <2>1, UtilizationInU64 DEF RatedInstruction, RatesOk, RatedInv, U64
    <3>3. ElapsedMs \in Nat
      BY ElapsedNat DEF PairInv
    <3>4. CASE ElapsedMs = 0
      <4>1. last_rate'[t] = last_rate[t]
        BY <3>1, <3>4 DEF RateAnswer, CalculateRate
      <4> QED
        BY <3>2, <4>1
    <3>5. CASE ElapsedMs > 0
      <4>1. last_rate'[t] = NewRate(rate_model, last_rate[t], ElapsedMs, Utilization(ledger[t]))
        BY <3>1 DEF RateAnswer, NewRate
      <4> QED
        BY <3>2, <3>3, <3>5, <4>1, AnswerFollowsUtilization
    <3> QED
      BY <3>3, <3>4, <3>5
  <2>2. CASE last_rate' = last_rate
    BY <2>2 DEF RatedInv, U64
  <2> QED
    BY <2>1, <2>2 DEF RatedNext, rateVars, SetPairRateModel
<1> QED
  BY <1>1, <1>2, <1>3, PTL DEF RatedSpec, RatesFollowUtilization

=============================================================================
