------------------------------- MODULE MCRate -------------------------------
(***************************************************************************)
(* Rate models over one utilization band: every combination of half-life,  *)
(* floor and ceiling that the program's validation accepts.                *)
(***************************************************************************)
EXTENDS RateControl

CONSTANTS HalfLives, MinRates, MaxRates, InitialRates

MCModels ==
  {a \in [target_util_start : {3000}, target_util_end : {5000},
          half_life_ms : HalfLives, min_rate : MinRates, max_rate : MaxRates,
          initial_rate : InitialRates] :
     ValidRateParams(a)}

=============================================================================
