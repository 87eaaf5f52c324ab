----------------------------- MODULE BalanceSheet -----------------------------
(***************************************************************************)
(* What the pair promises as the accountant of its pool, without prices,   *)
(* shares, positions or rounding: one sheet per token,                     *)
(*   cash     what the LPs own of the reserve vault                        *)
(*   owed     what the borrowers owe the pool                              *)
(*   equity   the LPs' claim, which the curve trades on                    *)
(*   fees     what the protocol owns of the reserve vault                  *)
(* and the only ways in which an instruction may move value between them.  *)
(***************************************************************************)
EXTENDS Integers

CONSTANTS
  Token,
  Integrals,            \* the rates a period may be charged, NAD-scaled
  NAD,
  InterestBps           \* protocol fee, in basis points of the interest

BPS_DENOMINATOR == 10000

VARIABLES
  sheet,
  overflowed            \* a sum has left the integers' width: no promise holds

books == <<sheet, overflowed>>

Sheet == [cash : Nat, owed : Nat, equity : Nat, fees : Nat]

Init ==
  /\ sheet \in [Token -> Sheet]
  /\ \A t \in Token :
       sheet[t].owed = 0 /\ sheet[t].fees = 0 /\ sheet[t].equity = sheet[t].cash
  /\ overflowed = FALSE

----------------------------------------------------------------------------
(* Interest: the borrowers owe it to the LPs, and a fee on top of it to the *)
(* protocol, which takes the fee from cash now; what cash cannot pay the    *)
(* LPs keep.                                                                *)

InterestOf(owed, integral) == (owed * integral + NAD - 1) \div NAD

FeeOf(interest) == (interest * InterestBps) \div BPS_DENOMINATOR

PaidNow(fee, cash) == IF fee < cash THEN fee ELSE cash

Charged(s, integral) ==
  LET interest == InterestOf(s.owed, integral)
      fee      == FeeOf(interest)
      paid     == PaidNow(fee, s.cash)
  IN  [cash   |-> s.cash - paid,
       owed   |-> s.owed + interest + fee,
       equity |-> s.equity + interest + (fee - paid),
       fees   |-> s.fees + paid]

----------------------------------------------------------------------------
(* How one sheet becomes another: a before, b after. *)

Same(a, b)     == b.cash = a.cash /\ b.owed = a.owed /\ b.equity = a.equity /\ b.fees = a.fees

EquityFollowsCash(a, b) == b.owed = a.owed /\ b.equity - a.equity = b.cash - a.cash

Earned(a, b)   == b.cash >= a.cash /\ EquityFollowsCash(a, b)
Spent(a, b)    == b.cash <= a.cash /\ EquityFollowsCash(a, b) /\ b.fees = a.fees

Exchanged(a, b) == b.owed - a.owed = a.cash - b.cash /\ b.equity = a.equity /\ b.fees = a.fees

Lent(a, b)      == b.owed >= a.owed /\ Exchanged(a, b)
Recovered(a, b) == b.owed <= a.owed /\ Exchanged(a, b)

Lost(a, b) ==
  /\ b.owed <= a.owed
  /\ b.equity - a.equity = b.owed - a.owed
  /\ b.cash = a.cash
  /\ b.fees = a.fees

Claimed(a, b)  == b.fees = 0 /\ b.cash = a.cash /\ b.owed = a.owed /\ b.equity = a.equity

----------------------------------------------------------------------------
(* The operations of a pool, on the charged sheets a. *)

Trade(a, b) ==
  \E in \in Token, out \in Token :
    /\ in # out
    /\ Earned(a[in], b[in]) /\ b[in].fees >= a[in].fees
    /\ Spent(a[out], b[out])
    /\ b[in].equity * b[out].equity >= a[in].equity * a[out].equity

Contribute(a, b) == \A t \in Token : Earned(a[t], b[t]) /\ b[t].fees = a[t].fees

Withdraw(a, b) == \A t \in Token : Spent(a[t], b[t])

Lend(a, b) ==
  \E d \in Token : Lent(a[d], b[d]) /\ \A t \in Token \ {d} : Same(a[t], b[t])

Recover(a, b) ==
  \E d \in Token : Recovered(a[d], b[d]) /\ \A t \in Token \ {d} : Same(a[t], b[t])

\* the debt is lost in one token, the collateral earned in the others
WriteOff(a, b) ==
  \E d \in Token :
    /\ Lost(a[d], b[d])
    /\ \A t \in Token \ {d} : Earned(a[t], b[t]) /\ b[t].fees = a[t].fees

Collect(a, b) == \A t \in Token : Claimed(a[t], b[t])

Nothing(a, b) == \A t \in Token : Same(a[t], b[t])

Operation(a, b) ==
  \/ Trade(a, b)
  \/ Contribute(a, b)
  \/ Withdraw(a, b)
  \/ Lend(a, b)
  \/ Recover(a, b)
  \/ WriteOff(a, b)
  \/ Collect(a, b)
  \/ Nothing(a, b)

\* tokens sent to the vault by anyone become the protocol's
Present(a, b) ==
  \E t \in Token :
    /\ Claimed([a[t] EXCEPT !.fees = 0], [b[t] EXCEPT !.fees = 0])
    /\ b[t].fees >= a[t].fees
    /\ \A s \in Token \ {t} : Same(a[s], b[s])

ChargedSheets(integral) == [t \in Token |-> Charged(sheet[t], integral[t])]

Next ==
  \/ overflowed'
  \/ \E integral \in [Token -> Integrals] : Operation(ChargedSheets(integral), sheet')
  \/ Present(sheet, sheet')

Spec == Init /\ [][Next]_books

=============================================================================
