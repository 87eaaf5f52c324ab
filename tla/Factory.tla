------------------------------- MODULE Factory -------------------------------
(***************************************************************************)
(* Creation of pairs and rate models, and the addresses they live at: a    *)
(* pair's address is derived from its two tokens and a hash of its         *)
(* parameters, its own rate model's from the pair's address, and governance *)
(* adds rate models of its own and assigns them to pairs.                  *)
(*                                                                         *)
(* The hash is the tuple of its inputs, an optional argument that is not   *)
(* given is NotGiven, and the bootstrap of the reserves is Omnipair's Init. *)
(***************************************************************************)
EXTENDS RateModel, FiniteSets

CONSTANTS
  Tokens,                    \* mint addresses, which are compared as numbers
  Mints,                     \* accounts offered as LP mint
  ModelKeys,                 \* accounts offered to create_rate_model
  Offers,                    \* arguments of initialize, see OfferType
  ModelOffers,               \* and of create_rate_model
  NotGiven, Outsider,
  DEFAULT_RATE_HALF_LIFE_MS,
  MIN_HALF_LIFE_MS, MAX_HALF_LIFE_MS,
  MaxPairs                   \* bound

MAX_SWAP_FEE_BPS         == 5000     \* BPS_DENOMINATOR / 2
MIN_FIXED_CF_BPS         == 100
TARGET_UTIL_START_BPS    == 3000
TARGET_UTIL_END_BPS      == 5000
DEFAULT_MIN_RATE_BPS     == 100
DEFAULT_MAX_RATE_BPS     == 0
DEFAULT_INITIAL_RATE_BPS == 200

Optional  == Nat \cup {NotGiven}
OfferType == [swap_fee : Nat, half_life : Nat, fixed_cf : Optional,
              target_util_start : Optional, target_util_end : Optional,
              rate_half_life : Optional, min_rate : Optional, max_rate : Optional,
              initial_rate : Optional]

ASSUME FactoryAssumption ==
  /\ Tokens \subseteq Nat
  /\ NotGiven \notin Nat
  /\ Offers \subseteq OfferType
  /\ ModelOffers \subseteq RateArgs
  /\ MaxPairs \in Nat

VARIABLES
  pairs,                     \* at each address in use: the pair's parameters
  models,                    \* at each address in use: the rate model
  mint_authority             \* of each mint that is initialized

vars == <<pairs, models, mint_authority>>

Or(x, default) == IF x = NotGiven THEN default ELSE x

RateArgsOf(o) ==
  [target_util_start |-> Or(o.target_util_start, TARGET_UTIL_START_BPS),
   target_util_end   |-> Or(o.target_util_end, TARGET_UTIL_END_BPS),
   half_life_ms      |-> Or(o.rate_half_life, DEFAULT_RATE_HALF_LIFE_MS),
   min_rate          |-> Or(o.min_rate, DEFAULT_MIN_RATE_BPS),
   max_rate          |-> Or(o.max_rate, DEFAULT_MAX_RATE_BPS),
   initial_rate      |-> Or(o.initial_rate, DEFAULT_INITIAL_RATE_BPS)]

\* Variant: the ceiling is not hashed.
HashWithoutCeiling(o) ==
  <<o.swap_fee, o.half_life, Or(o.fixed_cf, 0), Or(o.target_util_start, 0),
    Or(o.target_util_end, 0), Or(o.rate_half_life, 0), Or(o.min_rate, 0)>>

\* the initial rate is not hashed, and an argument not given counts as 0
ParamsHash(o) ==
  <<o.swap_fee, o.half_life, Or(o.fixed_cf, 0), Or(o.target_util_start, 0),
    Or(o.target_util_end, 0), Or(o.rate_half_life, 0), Or(o.min_rate, 0), Or(o.max_rate, 0)>>

PairAddress(t0, t1, o) == [token0 |-> t0, token1 |-> t1, params_hash |-> ParamsHash(o)]

\* Variant: one model for all pairs of two tokens.
ModelByTokens(p) == [token0 |-> p.token0, token1 |-> p.token1]

ModelAddress(p) == [pair |-> p]

\* an account that signs is never at an address derived by a program
ASSUME ModelKeysAssumption ==
  \A key \in ModelKeys, t0, t1 \in Tokens, o \in Offers :
    key # ModelAddress(PairAddress(t0, t1, o))

\* Variant: the two tokens only have to differ.
TokensDiffer(t0, t1) == t0 # t1

CanonicalOrder(t0, t1) == t0 < t1

ValidOffer(o) ==
  /\ o.swap_fee <= MAX_SWAP_FEE_BPS
  /\ o.half_life \in MIN_HALF_LIFE_MS .. MAX_HALF_LIFE_MS
  /\ o.fixed_cf # NotGiven => o.fixed_cf \in MIN_FIXED_CF_BPS .. RATE_BPS
  /\ ValidUtilBounds(RateArgsOf(o))
  /\ ValidRateParams(RateArgsOf(o))

\* Variant: a mint that exists is taken as it is.
AnyMint(m) == TRUE

UninitializedMint(m) == m \notin DOMAIN mint_authority

\* f with an account more
Extended(f, address, account) ==
  [a \in DOMAIN f \cup {address} |-> IF a = address THEN account ELSE f[a]]

----------------------------------------------------------------------------
Init ==
  /\ pairs = << >>
  /\ models = << >>
  /\ mint_authority = << >>

InitializeAndBootstrap(t0, t1, lp_mint, o) ==
  LET address == PairAddress(t0, t1, o)
  IN  /\ Cardinality(DOMAIN pairs) < MaxPairs
      /\ address \notin DOMAIN pairs
      /\ ModelAddress(address) \notin DOMAIN models
      /\ CanonicalOrder(t0, t1)
      /\ ValidOffer(o)
      /\ UninitializedMint(lp_mint)
      /\ pairs' = Extended(pairs, address,
                           [swap_fee |-> o.swap_fee, half_life |-> o.half_life,
                            fixed_cf |-> o.fixed_cf, lp_mint |-> lp_mint,
                            rate_model |-> ModelAddress(address)])
      /\ models' = Extended(models, ModelAddress(address), New(RateArgsOf(o)))
      /\ mint_authority' = Extended(mint_authority, lp_mint, address)

\* the futarchy authority's
CreateRateModel(key, a) ==
  /\ key \notin DOMAIN models
  /\ ValidUtilBounds(a)
  /\ ValidRateParams(a)
  /\ models' = Extended(models, key, New(a))
  /\ UNCHANGED <<pairs, mint_authority>>

\* the futarchy authority's
SetPairRateModel(p, m) ==
  /\ pairs' = [pairs EXCEPT ![p].rate_model = m]
  /\ UNCHANGED <<models, mint_authority>>

\* anyone may have used a mint's account for a mint of their own
InitializeMint(m) ==
  /\ m \notin DOMAIN mint_authority
  /\ mint_authority' = Extended(mint_authority, m, Outsider)
  /\ UNCHANGED <<pairs, models>>

Next ==
  \/ \E t0, t1 \in Tokens, m \in Mints, o \in Offers : InitializeAndBootstrap(t0, t1, m, o)
  \/ \E key \in ModelKeys, a \in ModelOffers : CreateRateModel(key, a)
  \/ \E p \in DOMAIN pairs, m \in DOMAIN models : SetPairRateModel(p, m)
  \/ \E m \in Mints : InitializeMint(m)

Spec == Init /\ [][Next]_vars

----------------------------------------------------------------------------
\* The two ways round, two tokens and one hash make one pair, never two: the
\* markets of a token pair cannot be split by the order of its tokens
\* ("prevents the same token pair from having two valid addresses").
OneAddressPerMarket ==
  \A p, q \in DOMAIN pairs :
    p # q => \/ {p.token0, p.token1} # {q.token0, q.token1}
             \/ p.params_hash # q.params_hash

\* A market nobody has created can be created, whatever pairs with other
\* parameters and whatever models governance has made for the same tokens:
\* the rate model it needs is never taken ("one pair owns one rate model").
FreeMarketsStayOpen ==
  \A t0, t1 \in Tokens, o \in Offers :
    LET p == PairAddress(t0, t1, o) IN
    p \notin DOMAIN pairs => ModelAddress(p) \notin DOMAIN models

\* Only the pair mints its LP token: no other pair and nobody who prepared
\* the account before the pair was created.
OwnLpMint == \A p \in DOMAIN pairs : mint_authority[pairs[p].lp_mint] = p

\* Whoever creates a market first settles its parameters for all, so an
\* address has to fix them: any arguments that lead to the address of a pair
\* describe that pair, but for the initial rate, which is not hashed, and the
\* floor: one not given, which means 1%, hashes like a floor of 0.
AddressFixesParameters ==
  \A p \in DOMAIN pairs, o \in Offers :
    ValidOffer(o) /\ PairAddress(p.token0, p.token1, o) = p =>
      LET created == models[ModelAddress(p)]
          offered == New(RateArgsOf(o))
      IN  /\ pairs[p].swap_fee = o.swap_fee
          /\ pairs[p].half_life = o.half_life
          /\ pairs[p].fixed_cf = o.fixed_cf
          /\ \A field \in DOMAIN offered \ {"min_rate", "initial_rate"} :
               created[field] = offered[field]

=============================================================================
