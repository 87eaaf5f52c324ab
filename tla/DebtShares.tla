----------------------------- MODULE DebtShares -----------------------------
(***************************************************************************)
(* Debt accounting by shares: state/user_position.rs.                      *)
(*                                                                         *)
(* The program keeps each field twice, for token0 and token1, and branches *)
(* on the mint.  Here the fields of one token form a record, its ledger k, *)
(* and an operator takes the ledger of the token it is about:              *)
(*   reserve            virtual reserve, r_virtual                         *)
(*   cash_reserve       r_cash                                             *)
(*   total_debt         r_debt                                             *)
(*   total_debt_shares  the shares total_debt is divided into              *)
(*   total_collateral   collateral of this token in all positions          *)
(*   symmetric, directional   last_price_ema of this token                 *)
(*   clipped            history: some saturating_add of this ledger clipped *)
(***************************************************************************)
EXTENDS GammMath

CONSTANT DEBT_SHARE_SCALE       \* shares created per unit by the first borrow

ASSUME DebtShareScaleAssumption == DEBT_SHARE_SCALE \in Nat \ {0}

Ledger == [reserve : U64, cash_reserve : U64, total_debt : U64,
           total_debt_shares : U128, total_collateral : U64,
           symmetric : U64, directional : U64, clipped : BOOLEAN]

SatAddShares(a, b) == Lesser(a + b, MaxU128)

----------------------------------------------------------------------------
(* calculate_debt: the shares' part of total_debt, rounded up. *)

CalculateDebt(shares, k) ==
  IF k.total_debt_shares = 0 THEN 0
  ELSE CeilDiv(shares * k.total_debt, k.total_debt_shares)

CalculateDebtOk(shares, k) ==
  k.total_debt_shares > 0 =>
    /\ MulFits(shares, k.total_debt)
    /\ shares * k.total_debt + k.total_debt_shares - 1 <= MaxU128
    /\ CalculateDebt(shares, k) \in U64

----------------------------------------------------------------------------
(* increase_debt: shares rounded up, cash leaves the pool. *)

\* Variant: shares rounded down, in the borrower's favour.
BorrowSharesDown(k, amount) ==
  IF k.total_debt_shares = 0 THEN amount * DEBT_SHARE_SCALE
  ELSE (amount * k.total_debt_shares) \div k.total_debt

BorrowShares(k, amount) ==
  IF k.total_debt_shares = 0 THEN amount * DEBT_SHARE_SCALE
  ELSE CeilDiv(amount * k.total_debt_shares, k.total_debt)

BorrowSharesOk(k, amount) ==
  IF k.total_debt_shares = 0 THEN MulFits(amount, DEBT_SHARE_SCALE)
  ELSE /\ MulFits(amount, k.total_debt_shares)
       /\ k.total_debt > 0
       /\ amount * k.total_debt_shares + k.total_debt - 1 <= MaxU128

\* the borrower's shares: assigned when they are the first, else added
SharesAfterBorrow(k, held, shares) ==
  IF k.total_debt_shares = 0 THEN shares ELSE SatAddShares(held, shares)

IncreaseDebt(k, shares, amount) ==
  [k EXCEPT !.total_debt_shares = SharesAfterBorrow(k, @, shares),
            !.total_debt        = SatAdd(@, amount),
            !.cash_reserve      = @ - amount,
            !.clipped           = @ \/ k.total_debt_shares + shares > MaxU128]

----------------------------------------------------------------------------
(* decrease_debt.  A repayment takes the shares the amount is worth,        *)
(* rounded down, and the cash comes back; a write-off takes exact shares    *)
(* and shrinks the virtual reserve.  Debt left without shares is dropped.   *)

RepaidShares(k, held, amount) ==
  Lesser((amount * k.total_debt_shares) \div k.total_debt, held)

\* Variant: the last unit of a token's debt is not accepted.
RepaidSharesNotLast(k, amount) ==
  MulFits(amount, k.total_debt_shares) /\ k.total_debt > amount

RepaidSharesOk(k, amount) ==
  MulFits(amount, k.total_debt_shares) /\ k.total_debt > 0

SyncEmpty(k) ==
  IF k.total_debt_shares = 0 THEN [k EXCEPT !.total_debt = 0] ELSE k

\* Variant: the cap at the position's shares is forgotten for the pair's total.
RepaymentUncapped(k, shares, amount) ==
  SyncEmpty([k EXCEPT !.total_debt_shares =
                        SatSub(@, (amount * k.total_debt_shares) \div k.total_debt),
                      !.total_debt        = SatSub(@, amount),
                      !.cash_reserve      = SatAdd(@, amount)])

Repayment(k, shares, amount) ==
  SyncEmpty([k EXCEPT !.total_debt_shares = SatSub(@, shares),
                      !.total_debt        = SatSub(@, amount),
                      !.cash_reserve      = SatAdd(@, amount)])

\* Variant: a write-off treated as a repayment, the virtual reserve kept.
WriteOffKeepsReserve(k, shares, amount) ==
  SyncEmpty([k EXCEPT !.total_debt_shares = SatSub(@, shares),
                      !.total_debt        = SatSub(@, amount)])

WriteOff(k, shares, amount) ==
  SyncEmpty([k EXCEPT !.total_debt_shares = SatSub(@, shares),
                      !.total_debt        = SatSub(@, amount),
                      !.reserve           = IF @ < amount THEN 1 ELSE @ - amount])

=============================================================================
