------------------------------ MODULE PairState ------------------------------
(***************************************************************************)
(* The pair account between two instructions: state/pair.rs.  Everything   *)
(* Pair::update does to one token's ledger when an instruction begins, and *)
(* the queries instructions make of the pair.                              *)
(*                                                                         *)
(* The interest-rate controller is abstracted to its result: `integral`,   *)
(* the NAD-scaled rate integrated over the elapsed time, is an input.      *)
(***************************************************************************)
EXTENDS DebtShares

CONSTANTS
  HalfLifeMs,                    \* half_life of the symmetric EMA
  DIRECTIONAL_EMA_HALF_LIFE_MS,
  InterestBps                    \* revenue_share.interest_bps

ASSUME HalfLifeAssumption ==
  HalfLifeMs \in Nat \ {0} /\ DIRECTIONAL_EMA_HALF_LIFE_MS \in Nat \ {0}
ASSUME InterestBpsAssumption == InterestBps \in Nat

Token    == {0, 1}
Other(t) == 1 - t

----------------------------------------------------------------------------
(* Prices. *)

SpotPrice(reserve, reserve_other) ==
  IF reserve = 0 THEN 0 ELSE Lesser((reserve_other * NAD) \div reserve, MaxU64)

\* Variant: within a slot the directional price follows spot both ways.
UpdatePricesToSpot(k, spot, dt) ==
  IF dt = 0 THEN [k EXCEPT !.directional = spot]
  ELSE [k EXCEPT
          !.symmetric   = ComputeEma(@, dt, spot, HalfLifeMs),
          !.directional = Lesser(spot, ComputeEma(@, dt, spot,
                                                  DIRECTIONAL_EMA_HALF_LIFE_MS))]

\* directional follows a fall at once, on every instruction, and a rise slowly
UpdatePrices(k, spot, dt) ==
  LET lowered == Lesser(k.directional, spot)
  IN  IF dt = 0 THEN [k EXCEPT !.directional = lowered]
      ELSE [k EXCEPT
              !.symmetric   = ComputeEma(@, dt, spot, HalfLifeMs),
              !.directional = Lesser(spot, ComputeEma(lowered, dt, spot,
                                                      DIRECTIONAL_EMA_HALF_LIFE_MS))]

----------------------------------------------------------------------------
(* Interest.  Borrowers owe the interest and, on top, the protocol's fee;   *)
(* the fee leaves r_cash as far as there is cash and stays in r_virtual     *)
(* for the rest, so that r_virtual = r_cash + r_debt is kept.               *)

Interest(k, integral)    == CeilDiv(k.total_debt * integral, NAD)
ProtocolFee(k, integral) == (Interest(k, integral) * InterestBps) \div BPS_DENOMINATOR
CoveredFee(k, integral)  == Lesser(ProtocolFee(k, integral), k.cash_reserve)

\* total_debt may not leave u64: the update panics and the instruction fails
AccrueOk(k, integral) ==
  k.total_debt + Interest(k, integral) + ProtocolFee(k, integral) <= MaxU64

\* Variant: the whole protocol fee stays in r_virtual, covered by cash or not.
AccrueInterestTwice(k, integral) ==
  LET interest == Interest(k, integral)
      fee      == ProtocolFee(k, integral)
  IN  [k EXCEPT !.total_debt   = @ + interest + fee,
                !.reserve      = SatAdd(@, interest + fee),
                !.cash_reserve = @ - CoveredFee(k, integral),
                !.clipped      = @ \/ k.reserve + interest + fee > MaxU64]

AccrueInterest(k, integral) ==
  LET interest == Interest(k, integral)
      fee      == ProtocolFee(k, integral)
      covered  == CoveredFee(k, integral)
  IN  [k EXCEPT !.total_debt   = @ + interest + fee,
                !.reserve      = SatAdd(@, interest + (fee - covered)),
                !.cash_reserve = @ - covered,
                !.clipped      = @ \/ k.reserve + interest + (fee - covered) > MaxU64]

----------------------------------------------------------------------------
(* Pair::update for one token, dt milliseconds after the last; the spot     *)
(* price is taken before the interest is added.                             *)

UpdateToken(k, reserve_other, dt, integral) ==
  LET priced == UpdatePrices(k, SpotPrice(k.reserve, reserve_other), dt)
  IN  IF dt = 0 THEN priced ELSE AccrueInterest(priced, integral)

UpdateTokenOk(k, dt, integral) == dt > 0 => AccrueOk(k, integral)

----------------------------------------------------------------------------
(* Queries, after update: compute_ema over no time is the stored value. *)

\* Variant: collateral valued at the price that follows a fall at once.
EmaPriceOfLow(k)       == IF k.reserve = 0 THEN 0 ELSE k.directional

EmaPrice(k)            == IF k.reserve = 0 THEN 0 ELSE k.symmetric
DirectionalEmaPrice(k) == IF k.reserve = 0 THEN 0 ELSE k.directional

\* get_max_debt_and_cf_bps_for_collateral; l is the function of both ledgers
MaxDebtForCollateral(l, c, amount) ==
  MaxDebt(amount, EmaPrice(l[c]), DirectionalEmaPrice(l[c]),
          l[c].reserve, l[Other(c)].reserve, l[Other(c)].total_debt)

=============================================================================
