---------------------------- MODULE FactoryProofs ----------------------------
(***************************************************************************)
(* Proofs about the addresses of pairs, for any tokens, offers and number  *)
(* of pairs.                                                               *)
(*                                                                         *)
(* The inductive invariant remembers of every pair the arguments that      *)
(* created it, as long as any account exists: its address, its parameters, *)
(* its mint and the rate model at its own address follow from them; and it *)
(* says where a rate model can be: at a key, or at the address of the      *)
(* model of a pair that exists.                                            *)
(***************************************************************************)
EXTENDS Factory, TLAPS

\* What a pair's account holds, created with the arguments o.
Account(o, mint, m) ==
  [swap_fee |-> o.swap_fee, half_life |-> o.half_life, fixed_cf |-> o.fixed_cf,
   lp_mint |-> mint, rate_model |-> m]

\* The pair at p was created for t0 and t1 with o and the mint.
CreatedWith(p, t0, t1, o, mint) ==
  /\ CanonicalOrder(t0, t1)
  /\ ValidOffer(o)
  /\ p = PairAddress(t0, t1, o)
  /\ \E m \in DOMAIN models : pairs[p] = Account(o, mint, m)
  /\ mint_authority[mint] = p
  /\ ModelAddress(p) \in DOMAIN models
  /\ models[ModelAddress(p)] = New(RateArgsOf(o))

PairsAreCreated ==
  \A p \in DOMAIN pairs :
    \E t0, t1 \in Tokens, o \in Offers, mint \in DOMAIN mint_authority :
      CreatedWith(p, t0, t1, o, mint)

ModelsAreCreated ==
  \A m \in DOMAIN models : m \in ModelKeys \/ \E p \in DOMAIN pairs : m = ModelAddress(p)

FactoryInv == PairsAreCreated /\ ModelsAreCreated

----------------------------------------------------------------------------
\* A pair that no step touches stays the pair it was created as, when models
\* and mints are only added.
LEMMA CreatedStays ==
  ASSUME NEW p, NEW t0, NEW t1, NEW o, NEW mint \in DOMAIN mint_authority,
         CreatedWith(p, t0, t1, o, mint),
         pairs'[p] = pairs[p],
         \A m \in DOMAIN models : m \in DOMAIN models' /\ models'[m] = models[m],
         \A x \in DOMAIN mint_authority :
           x \in DOMAIN mint_authority' /\ mint_authority'[x] = mint_authority[x]
  PROVE  CreatedWith(p, t0, t1, o, mint)'
<1>1. PICK m \in DOMAIN models : pairs[p] = Account(o, mint, m)
  BY DEF CreatedWith
<1>2. m \in DOMAIN models' /\ pairs'[p] = Account(o, mint, m)
  BY <1>1
<1>3. \E n \in DOMAIN models' : pairs'[p] = Account(o, mint, n)
  BY <1>2
<1>4. mint_authority'[mint] = p
  BY DEF CreatedWith
<1>5. ModelAddress(p) \in DOMAIN models' /\ models'[ModelAddress(p)] = New(RateArgsOf(o))
  BY DEF CreatedWith
<1> QED BY <1>3, <1>4, <1>5 DEF CreatedWith, Account

\* The same for all pairs at once.
LEMMA PairsStay ==
  ASSUME PairsAreCreated,
         NEW p \in DOMAIN pairs, pairs'[p] = pairs[p],
         \A m \in DOMAIN models : m \in DOMAIN models' /\ models'[m] = models[m],
         \A x \in DOMAIN mint_authority :
           x \in DOMAIN mint_authority' /\ mint_authority'[x] = mint_authority[x]
  PROVE  \E t0, t1 \in Tokens, o \in Offers, mint \in DOMAIN mint_authority' :
           CreatedWith(p, t0, t1, o, mint)'
<1>1. PICK t0 \in Tokens, t1 \in Tokens, o \in Offers, mint \in DOMAIN mint_authority :
        CreatedWith(p, t0, t1, o, mint)
  BY DEF PairsAreCreated
<1>2. CreatedWith(p, t0, t1, o, mint)'
  BY <1>1, CreatedStays
<1>3. mint \in DOMAIN mint_authority'
  OBVIOUS
<1> QED BY <1>2, <1>3

----------------------------------------------------------------------------
\* Without accounts there is nothing to show.
LEMMA FactoryInit == Init => FactoryInv
<1> SUFFICES ASSUME Init PROVE FactoryInv OBVIOUS
<1>1. DOMAIN pairs = {} /\ DOMAIN models = {}
  BY DEF Init
<1> QED BY <1>1 DEF FactoryInv, PairsAreCreated, ModelsAreCreated

\* The new pair's arguments are at hand; no older account changes, because
\* the new ones are where none was.
LEMMA InitializeKeeps ==
  ASSUME FactoryInv, NEW t0 \in Tokens, NEW t1 \in Tokens, NEW mint \in Mints, NEW o \in Offers,
         InitializeAndBootstrap(t0, t1, mint, o),
         NEW address, address = PairAddress(t0, t1, o),
         NEW own, own = ModelAddress(address)
  PROVE  FactoryInv'
<1>1. /\ address \notin DOMAIN pairs
      /\ own \notin DOMAIN models
      /\ mint \notin DOMAIN mint_authority
      /\ CanonicalOrder(t0, t1) /\ ValidOffer(o)
      /\ pairs' = Extended(pairs, address, Account(o, mint, own))
      /\ models' = Extended(models, own, New(RateArgsOf(o)))
      /\ mint_authority' = Extended(mint_authority, mint, address)
  BY DEF InitializeAndBootstrap, UninitializedMint, Account
<1>2. /\ DOMAIN pairs' = DOMAIN pairs \cup {address}
      /\ pairs'[address] = Account(o, mint, own)
      /\ \A p \in DOMAIN pairs : pairs'[p] = pairs[p]
  BY <1>1 DEF Extended
<1>3. /\ DOMAIN models' = DOMAIN models \cup {own}
      /\ models'[own] = New(RateArgsOf(o))
      /\ \A m \in DOMAIN models : models'[m] = models[m]
  BY <1>1 DEF Extended
<1>4. /\ DOMAIN mint_authority' = DOMAIN mint_authority \cup {mint}
      /\ mint_authority'[mint] = address
      /\ \A x \in DOMAIN mint_authority : mint_authority'[x] = mint_authority[x]
  BY <1>1 DEF Extended
<1>5. CreatedWith(address, t0, t1, o, mint)'
  <2>1. \E m \in DOMAIN models' : pairs'[address] = Account(o, mint, m)
    BY <1>2, <1>3
  <2> QED BY <1>1, <1>3, <1>4, <2>1 DEF CreatedWith, Account
<1>6. PairsAreCreated'
  <2> SUFFICES ASSUME NEW p \in DOMAIN pairs'
               PROVE  \E a, b \in Tokens, r \in Offers, x \in DOMAIN mint_authority' :
                        CreatedWith(p, a, b, r, x)'
    BY DEF PairsAreCreated
  <2>1. CASE p = address
    <3>1. mint \in DOMAIN mint_authority'
      BY <1>4
    <3> QED BY <1>5, <2>1, <3>1
  <2>2. CASE p # address
    <3>1. p \in DOMAIN pairs /\ pairs'[p] = pairs[p]
      BY <1>2, <2>2
    <3> QED BY <1>3, <1>4, <3>1, PairsStay DEF FactoryInv
  <2> QED BY <2>1, <2>2
<1>7. ModelsAreCreated'
  <2> SUFFICES ASSUME NEW m \in DOMAIN models'
               PROVE  m \in ModelKeys \/ \E p \in DOMAIN pairs' : m = ModelAddress(p)
    BY DEF ModelsAreCreated, ModelAddress
  <2>1. CASE m = own
    BY <1>2, <2>1
  <2>2. CASE m \in DOMAIN models
    BY <1>2, <2>2 DEF FactoryInv, ModelsAreCreated
  <2> QED BY <1>3, <2>1, <2>2
<1> QED BY <1>6, <1>7 DEF FactoryInv

\* Governance adds a model at a key.
LEMMA CreateRateModelKeeps ==
  ASSUME FactoryInv, NEW key \in ModelKeys, NEW a \in ModelOffers, CreateRateModel(key, a)
  PROVE  FactoryInv'
<1>1. /\ key \notin DOMAIN models
      /\ models' = Extended(models, key, New(a))
      /\ pairs' = pairs /\ mint_authority' = mint_authority
  BY DEF CreateRateModel
<1>2. /\ DOMAIN models' = DOMAIN models \cup {key}
      /\ \A m \in DOMAIN models : models'[m] = models[m]
  BY <1>1 DEF Extended
<1>3. PairsAreCreated'
  <2> SUFFICES ASSUME NEW p \in DOMAIN pairs'
               PROVE  \E t0, t1 \in Tokens, o \in Offers, mint \in DOMAIN mint_authority' :
                        CreatedWith(p, t0, t1, o, mint)'
    BY DEF PairsAreCreated
  <2> QED BY <1>1, <1>2, PairsStay DEF FactoryInv
<1>4. ModelsAreCreated'
  BY <1>1, <1>2 DEF FactoryInv, ModelsAreCreated, ModelAddress
<1> QED BY <1>3, <1>4 DEF FactoryInv

\* A pair's model may be exchanged for any that exists; its own stays where
\* it is, and so do the parameters it was created with.
LEMMA SetPairRateModelKeeps ==
  ASSUME FactoryInv, NEW q \in DOMAIN pairs, NEW n \in DOMAIN models, SetPairRateModel(q, n)
  PROVE  FactoryInv'
<1>1. /\ pairs' = [pairs EXCEPT ![q].rate_model = n]
      /\ models' = models /\ mint_authority' = mint_authority
  BY DEF SetPairRateModel
<1>2. DOMAIN pairs' = DOMAIN pairs
  BY <1>1
<1>3. PairsAreCreated'
  <2> SUFFICES ASSUME NEW p \in DOMAIN pairs
               PROVE  \E t0, t1 \in Tokens, o \in Offers, mint \in DOMAIN mint_authority' :
                        CreatedWith(p, t0, t1, o, mint)'
    BY <1>2 DEF PairsAreCreated
  <2>1. CASE p # q
    <3>1. pairs'[p] = pairs[p]
      BY <1>1, <2>1
    <3> QED BY <1>1, <3>1, PairsStay DEF FactoryInv
  <2>2. CASE p = q
    <3>1. PICK t0 \in Tokens, t1 \in Tokens, o \in Offers, mint \in DOMAIN mint_authority :
            CreatedWith(p, t0, t1, o, mint)
      BY DEF FactoryInv, PairsAreCreated
    <3>2. PICK m \in DOMAIN models : pairs[p] = Account(o, mint, m)
      BY <3>1 DEF CreatedWith
    <3>3. pairs'[p] = [pairs[p] EXCEPT !.rate_model = n]
      BY <1>1, <2>2
    <3>4. pairs'[p] = Account(o, mint, n)
      BY <3>2, <3>3 DEF Account
    <3>5. \E m2 \in DOMAIN models' : pairs'[p] = Account(o, mint, m2)
      BY <1>1, <3>4
    <3>6. CreatedWith(p, t0, t1, o, mint)'
      BY <1>1, <3>1, <3>5 DEF CreatedWith, Account
    <3> QED BY <1>1, <3>6
  <2> QED BY <2>1, <2>2
<1>4. ModelsAreCreated'
  BY <1>1, <1>2 DEF FactoryInv, ModelsAreCreated, ModelAddress
<1> QED BY <1>3, <1>4 DEF FactoryInv

\* A mint of somebody else's is another than the pairs'.
LEMMA InitializeMintKeeps ==
  ASSUME FactoryInv, NEW x \in Mints, InitializeMint(x)
  PROVE  FactoryInv'
<1>1. /\ x \notin DOMAIN mint_authority
      /\ mint_authority' = Extended(mint_authority, x, Outsider)
      /\ pairs' = pairs /\ models' = models
  BY DEF InitializeMint
<1>2. \A y \in DOMAIN mint_authority :
        y \in DOMAIN mint_authority' /\ mint_authority'[y] = mint_authority[y]
  BY <1>1 DEF Extended
<1>3. PairsAreCreated'
  <2> SUFFICES ASSUME NEW p \in DOMAIN pairs'
               PROVE  \E t0, t1 \in Tokens, o \in Offers, mint \in DOMAIN mint_authority' :
                        CreatedWith(p, t0, t1, o, mint)'
    BY DEF PairsAreCreated
  <2> QED BY <1>1, <1>2, PairsStay DEF FactoryInv
<1>4. ModelsAreCreated'
  BY <1>1 DEF FactoryInv, ModelsAreCreated, ModelAddress
<1> QED BY <1>3, <1>4 DEF FactoryInv

\* FactoryInv is inductive.
LEMMA FactoryStep == FactoryInv /\ [Next]_vars => FactoryInv'
<1> SUFFICES ASSUME FactoryInv, [Next]_vars PROVE FactoryInv' OBVIOUS
<1>1. ASSUME NEW t0 \in Tokens, NEW t1 \in Tokens, NEW m \in Mints, NEW o \in Offers,
             InitializeAndBootstrap(t0, t1, m, o)
      PROVE  FactoryInv'
  BY <1>1, InitializeKeeps
<1>2. ASSUME NEW key \in ModelKeys, NEW a \in ModelOffers, CreateRateModel(key, a)
      PROVE  FactoryInv'
  BY <1>2, CreateRateModelKeeps
<1>3. ASSUME NEW p \in DOMAIN pairs, NEW m \in DOMAIN models, SetPairRateModel(p, m)
      PROVE  FactoryInv'
  BY <1>3, SetPairRateModelKeeps
<1>4. ASSUME NEW m \in Mints, InitializeMint(m)
      PROVE  FactoryInv'
  BY <1>4, InitializeMintKeeps
<1>5. CASE UNCHANGED vars
  BY <1>5 DEF vars, FactoryInv, PairsAreCreated, ModelsAreCreated, CreatedWith, Account,
              ModelAddress
<1> QED BY <1>1, <1>2, <1>3, <1>4, <1>5 DEF Next

\* In every reachable state, each pair is what its arguments made it.
LEMMA FactoryInvariant == Spec => []FactoryInv
<1> QED BY FactoryInit, FactoryStep, PTL DEF Spec

----------------------------------------------------------------------------
\* Two ordered pairs of tokens with the same two tokens are the same, so two
\* addresses that differ differ in their tokens or in their parameters.
LEMMA InvImpliesOneAddress == FactoryInv => OneAddressPerMarket
<1> SUFFICES ASSUME FactoryInv, NEW p \in DOMAIN pairs, NEW q \in DOMAIN pairs,
                    {p.token0, p.token1} = {q.token0, q.token1},
                    p.params_hash = q.params_hash
             PROVE  p = q
  BY DEF OneAddressPerMarket
<1>1. PICK t0 \in Tokens, t1 \in Tokens, o \in Offers, x \in DOMAIN mint_authority :
        CreatedWith(p, t0, t1, o, x)
  BY DEF FactoryInv, PairsAreCreated
<1>2. PICK s0 \in Tokens, s1 \in Tokens, r \in Offers, y \in DOMAIN mint_authority :
        CreatedWith(q, s0, s1, r, y)
  BY DEF FactoryInv, PairsAreCreated
<1>3. p = [token0 |-> t0, token1 |-> t1, params_hash |-> ParamsHash(o)]
  BY <1>1 DEF CreatedWith, PairAddress
<1>4. q = [token0 |-> s0, token1 |-> s1, params_hash |-> ParamsHash(r)]
  BY <1>2 DEF CreatedWith, PairAddress
<1>5. t0 < t1 /\ s0 < s1 /\ t0 \in Nat /\ t1 \in Nat /\ s0 \in Nat /\ s1 \in Nat
  BY <1>1, <1>2, FactoryAssumption DEF CreatedWith, CanonicalOrder
<1>6. t0 = s0 /\ t1 = s1
  <2>1. {t0, t1} = {s0, s1}
    BY <1>3, <1>4
  <2> QED BY <1>5, <2>1
<1> QED BY <1>3, <1>4, <1>6

\* A model is at the address of a free market's model only if a key is there,
\* which no key is, or if the market is not free.
LEMMA InvImpliesMarketsOpen == FactoryInv => FreeMarketsStayOpen
<1> SUFFICES ASSUME FactoryInv, NEW t0 \in Tokens, NEW t1 \in Tokens, NEW o \in Offers,
                    ModelAddress(PairAddress(t0, t1, o)) \in DOMAIN models
             PROVE  PairAddress(t0, t1, o) \in DOMAIN pairs
  BY DEF FreeMarketsStayOpen
<1>1. ModelAddress(PairAddress(t0, t1, o)) \notin ModelKeys
  BY ModelKeysAssumption
<1>2. PICK q \in DOMAIN pairs : ModelAddress(PairAddress(t0, t1, o)) = ModelAddress(q)
  BY <1>1 DEF FactoryInv, ModelsAreCreated
<1>3. PairAddress(t0, t1, o) = q
  BY <1>2 DEF ModelAddress
<1> QED BY <1>3

\* The invariant knows the mint of every pair.
LEMMA InvImpliesOwnMint == FactoryInv => OwnLpMint
<1> SUFFICES ASSUME FactoryInv, NEW p \in DOMAIN pairs
             PROVE  mint_authority[pairs[p].lp_mint] = p
  BY DEF OwnLpMint
<1>1. PICK t0 \in Tokens, t1 \in Tokens, o \in Offers, x \in DOMAIN mint_authority :
        CreatedWith(p, t0, t1, o, x)
  BY DEF FactoryInv, PairsAreCreated
<1>2. pairs[p].lp_mint = x
  BY <1>1 DEF CreatedWith, Account
<1> QED BY <1>1, <1>2 DEF CreatedWith

\* Two valid offers with one hash agree on every argument that is hashed but
\* the floor: no valid argument of the others is 0, which stands for one that
\* is not given, or 0 is what that means.
LEMMA HashFixesArguments ==
  ASSUME NEW o \in Offers, NEW r \in Offers, ValidOffer(o), ValidOffer(r),
         ParamsHash(o) = ParamsHash(r)
  PROVE  /\ o.swap_fee = r.swap_fee
         /\ o.half_life = r.half_life
         /\ o.fixed_cf = r.fixed_cf
         /\ RateArgsOf(o).target_util_start = RateArgsOf(r).target_util_start
         /\ RateArgsOf(o).target_util_end = RateArgsOf(r).target_util_end
         /\ RateArgsOf(o).half_life_ms = RateArgsOf(r).half_life_ms
         /\ RateArgsOf(o).max_rate = RateArgsOf(r).max_rate
<1>1. o \in OfferType /\ r \in OfferType /\ NotGiven \notin Nat
  BY FactoryAssumption
<1>2. /\ o.swap_fee = r.swap_fee
      /\ o.half_life = r.half_life
      /\ Or(o.fixed_cf, 0) = Or(r.fixed_cf, 0)
      /\ Or(o.target_util_start, 0) = Or(r.target_util_start, 0)
      /\ Or(o.target_util_end, 0) = Or(r.target_util_end, 0)
      /\ Or(o.rate_half_life, 0) = Or(r.rate_half_life, 0)
      /\ Or(o.max_rate, 0) = Or(r.max_rate, 0)
  BY DEF ParamsHash
<1>3. o.fixed_cf = r.fixed_cf
  BY <1>1, <1>2 DEF Or, ValidOffer, MIN_FIXED_CF_BPS, OfferType, Optional
<1>4. ASSUME NEW a \in Optional, NEW b \in Optional, NEW d, Or(a, 0) = Or(b, 0),
             Or(a, d) # 0, Or(b, d) # 0
      PROVE  a = b
  BY <1>1, <1>4 DEF Or, Optional
<1>5. ASSUME NEW x \in Offers, ValidOffer(x)
      PROVE  /\ Or(x.target_util_start, TARGET_UTIL_START_BPS) # 0
             /\ Or(x.target_util_end, TARGET_UTIL_END_BPS) # 0
             /\ Or(x.rate_half_life, DEFAULT_RATE_HALF_LIFE_MS) # 0
  <2>1. x \in OfferType
    BY FactoryAssumption
  <2>2. /\ Or(x.target_util_start, TARGET_UTIL_START_BPS) \in Nat
        /\ Or(x.target_util_end, TARGET_UTIL_END_BPS) \in Nat
    BY <2>1 DEF Or, OfferType, Optional, TARGET_UTIL_START_BPS, TARGET_UTIL_END_BPS
  <2>3. /\ Or(x.target_util_start, TARGET_UTIL_START_BPS) >= MIN_TARGET_UTIL_BPS
        /\ Or(x.target_util_start, TARGET_UTIL_START_BPS)
             < Or(x.target_util_end, TARGET_UTIL_END_BPS)
        /\ Or(x.rate_half_life, DEFAULT_RATE_HALF_LIFE_MS)
             \in MIN_RATE_HALF_LIFE_MS .. MAX_RATE_HALF_LIFE_MS
    BY <1>5 DEF ValidOffer, ValidUtilBounds, ValidRateParams, RateArgsOf
  <2> QED BY <2>2, <2>3, RateTimeAssumption DEF MIN_TARGET_UTIL_BPS
<1>6. /\ o.target_util_start = r.target_util_start
      /\ o.target_util_end = r.target_util_end
      /\ o.rate_half_life = r.rate_half_life
  <2>1. ASSUME NEW x \in OfferType
        PROVE  /\ x.target_util_start \in Optional /\ x.target_util_end \in Optional
               /\ x.rate_half_life \in Optional
    BY DEF OfferType
  <2>2. /\ Or(o.target_util_start, TARGET_UTIL_START_BPS) # 0
        /\ Or(o.target_util_end, TARGET_UTIL_END_BPS) # 0
        /\ Or(o.rate_half_life, DEFAULT_RATE_HALF_LIFE_MS) # 0
    BY <1>5
  <2>3. /\ Or(r.target_util_start, TARGET_UTIL_START_BPS) # 0
        /\ Or(r.target_util_end, TARGET_UTIL_END_BPS) # 0
        /\ Or(r.rate_half_life, DEFAULT_RATE_HALF_LIFE_MS) # 0
    BY <1>5
  <2> QED BY <1>1, <1>2, <1>4, <2>1, <2>2, <2>3
<1>7. RateArgsOf(o).max_rate = RateArgsOf(r).max_rate
  BY <1>2 DEF RateArgsOf, DEFAULT_MAX_RATE_BPS
<1> QED BY <1>2, <1>3, <1>6, <1>7 DEF RateArgsOf

\* A pair's address hashes what created it, so what leads to the address
\* again agrees with the pair's parameters and with its own rate model.
LEMMA InvImpliesParameters == FactoryInv => AddressFixesParameters
<1> SUFFICES ASSUME FactoryInv, NEW p \in DOMAIN pairs, NEW r \in Offers,
                    ValidOffer(r), PairAddress(p.token0, p.token1, r) = p
             PROVE  /\ pairs[p].swap_fee = r.swap_fee
                    /\ pairs[p].half_life = r.half_life
                    /\ pairs[p].fixed_cf = r.fixed_cf
                    /\ \A field \in DOMAIN New(RateArgsOf(r)) \ {"min_rate", "initial_rate"} :
                         models[ModelAddress(p)][field] = New(RateArgsOf(r))[field]
  BY DEF AddressFixesParameters
<1>1. PICK t0 \in Tokens, t1 \in Tokens, o \in Offers, x \in DOMAIN mint_authority :
        CreatedWith(p, t0, t1, o, x)
  BY DEF FactoryInv, PairsAreCreated
<1>2. ParamsHash(o) = ParamsHash(r)
  <2>1. p.params_hash = ParamsHash(o)
    BY <1>1 DEF CreatedWith, PairAddress
  <2>2. p.params_hash = ParamsHash(r)
    BY DEF PairAddress
  <2> QED BY <2>1, <2>2
<1>3. /\ o.swap_fee = r.swap_fee
      /\ o.half_life = r.half_life
      /\ o.fixed_cf = r.fixed_cf
      /\ RateArgsOf(o).target_util_start = RateArgsOf(r).target_util_start
      /\ RateArgsOf(o).target_util_end = RateArgsOf(r).target_util_end
      /\ RateArgsOf(o).half_life_ms = RateArgsOf(r).half_life_ms
      /\ RateArgsOf(o).max_rate = RateArgsOf(r).max_rate
  BY <1>1, <1>2, HashFixesArguments DEF CreatedWith
<1>4. pairs[p].swap_fee = r.swap_fee /\ pairs[p].half_life = r.half_life
        /\ pairs[p].fixed_cf = r.fixed_cf
  BY <1>1, <1>3 DEF CreatedWith, Account
<1>5. ASSUME NEW field \in DOMAIN New(RateArgsOf(r)) \ {"min_rate", "initial_rate"}
      PROVE  New(RateArgsOf(o))[field] = New(RateArgsOf(r))[field]
  <2>1. field \in {"exp_rate", "half_life_ms", "target_util_start", "target_util_end", "max_rate"}
    BY DEF New
  <2> QED BY <1>3, <2>1 DEF New
<1>6. models[ModelAddress(p)] = New(RateArgsOf(o))
  BY <1>1 DEF CreatedWith
<1> QED BY <1>4, <1>5, <1>6

----------------------------------------------------------------------------
\* However many pairs are created in whatever order, and whoever creates
\* them: two tokens, either way round, and one hash are one pair
\* (initialize.rs, the order of token0 and token1 in `validate`).
THEOREM MarketsAreNotSplit == Spec => []OneAddressPerMarket
<1> QED BY FactoryInvariant, InvImpliesOneAddress, PTL

\* Nothing that governance or the creators of other pairs do can occupy the
\* address of the rate model that a new pair needs.
THEOREM MarketsStayOpen == Spec => []FreeMarketsStayOpen
<1> QED BY FactoryInvariant, InvImpliesMarketsOpen, PTL

\* No pair shares its LP mint with another or with who made the account.
THEOREM MintsAreOwn == Spec => []OwnLpMint
<1> QED BY FactoryInvariant, InvImpliesOwnMint, PTL

\* Whatever valid arguments lead to the address of an existing pair describe
\* that pair, but for the two arguments that the code does not hash apart.
THEOREM ParametersAreFixed == Spec => []AddressFixesParameters
<1> QED BY FactoryInvariant, InvImpliesParameters, PTL

=============================================================================
