------------------------------ MODULE MCFactory ------------------------------
(***************************************************************************)
(* Two tokens and two pairs, every combination of a floor, a ceiling and   *)
(* an initial rate given or not, and offers that the validation refuses.   *)
(***************************************************************************)
EXTENDS Factory

CONSTANTS FixedCfs, MinRates, MaxRates, InitialRates

MCOffers ==
  [swap_fee : {30}, half_life : {60}, fixed_cf : FixedCfs,
   target_util_start : {NotGiven}, target_util_end : {NotGiven},
   rate_half_life : {NotGiven}, min_rate : MinRates, max_rate : MaxRates,
   initial_rate : InitialRates]

MCModelOffers ==
  [target_util_start : {3000, 6000}, target_util_end : {5000}, half_life_ms : {86},
   min_rate : {0}, max_rate : {0}, initial_rate : {200}]

=============================================================================
