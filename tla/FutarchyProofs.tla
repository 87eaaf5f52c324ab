---------------------------- MODULE FutarchyProofs ----------------------------
(***************************************************************************)
(* Proofs about the protocol's revenue, for any number of wallets and      *)
(* pairs, any shares and distributions that the code accepts, and any      *)
(* sequence of changes and claims.                                         *)
(*                                                                         *)
(* The inductive invariant joins the three properties that the run checks  *)
(* with the types of the counters they compare.  They need each other: the *)
(* three parts of a claim are naturals because the distribution adds up to *)
(* the whole, and only then does a claim take from the pair what it pays.  *)
(***************************************************************************)
EXTENDS Futarchy, FixedPointLemmas

CountersOK ==
  /\ fees \in [Pairs -> Nat]
  /\ earned \in Nat /\ claims \in Nat
  /\ due \in [Recipient -> Nat] /\ paid \in [Recipient -> Nat]

\* Every unit of revenue is in a vault or in a wallet.
Conserved == Total(wallet) + Total(fees) = earned

FutarchyInv == TypeOK /\ CountersOK /\ Conserved /\ SharesWithinDust

----------------------------------------------------------------------------
(* Sums. *)

\* The accounts of a chain are finitely many.
LEMMA FiniteAccounts == IsFiniteSet(Keys) /\ IsFiniteSet(Pairs) /\ IsFiniteSet(Recipient)
<1>1. IsFiniteSet({"futarchy_treasury"})
  BY FS_Singleton
<1>2. IsFiniteSet({"futarchy_treasury"} \cup {"buybacks_vault"})
  BY <1>1, FS_AddElement
<1>3. IsFiniteSet(({"futarchy_treasury"} \cup {"buybacks_vault"}) \cup {"team_treasury"})
  BY <1>2, FS_AddElement
<1>4. Recipient = ({"futarchy_treasury"} \cup {"buybacks_vault"}) \cup {"team_treasury"}
  BY DEF Recipient
<1> QED BY <1>3, <1>4, KeysAssumption

\* f with a more at k.
Added(f, k, a) == [f EXCEPT ![k] = @ + a]

\* The total of naturals is a natural, and what is added to one of them is
\* added to it.
LEMMA TotalAdds ==
  ASSUME NEW S, IsFiniteSet(S), NEW f \in [S -> Nat], NEW k \in S, NEW a \in Int, f[k] + a \in Nat
  PROVE  /\ Total(f) \in Nat
         /\ Added(f, k, a) \in [S -> Nat]
         /\ Total(Added(f, k, a)) = Total(f) + a
<1>1. SumOf(f) \in Nat
  BY SumNat
<1>2. SumOf([f EXCEPT ![k] = f[k] + a]) = SumOf(f) - f[k] + (f[k] + a)
  BY SumReplaced
<1>3. f[k] \in Nat
  OBVIOUS
<1>4. Total(f) = SumOf(f) /\ Total(Added(f, k, a)) = SumOf([f EXCEPT ![k] = f[k] + a])
  BY DEF Total, SumOf, Added
<1>5. Added(f, k, a) \in [S -> Nat]
  BY DEF Added
<1> QED BY <1>1, <1>2, <1>3, <1>4, <1>5

\* The total over the three recipients.
LEMMA TotalOfThree ==
  ASSUME NEW f \in [Recipient -> Nat]
  PROVE  Total(f) = f["futarchy_treasury"] + f["buybacks_vault"] + f["team_treasury"]
<1> DEFINE zero  == [r \in Recipient |-> 0]
           one   == Added(zero, "futarchy_treasury", f["futarchy_treasury"])
           two   == Added(one, "buybacks_vault", f["buybacks_vault"])
           three == Added(two, "team_treasury", f["team_treasury"])
<1>1. /\ f["futarchy_treasury"] \in Nat /\ f["buybacks_vault"] \in Nat /\ f["team_treasury"] \in Nat
      /\ "futarchy_treasury" \in Recipient /\ "buybacks_vault" \in Recipient
      /\ "team_treasury" \in Recipient
  BY DEF Recipient
<1>2. zero \in [Recipient -> Nat] /\ Total(zero) = 0
  BY FiniteAccounts, SumOfZeros DEF Total, SumOf
<1>3. three = f
  BY <1>1 DEF Recipient, Added
<1>4. one \in [Recipient -> Nat] /\ Total(one) = f["futarchy_treasury"]
  <2> HIDE DEF zero
  <2>1. zero["futarchy_treasury"] = 0
    BY <1>1 DEF zero
  <2>2. Total(one) = Total(zero) + f["futarchy_treasury"] /\ one \in [Recipient -> Nat]
    <3>1. zero["futarchy_treasury"] + f["futarchy_treasury"] \in Nat
      BY <1>1, <2>1
    <3>2. f["futarchy_treasury"] \in Int
      BY <1>1
    <3> QED BY <1>1, <1>2, <3>1, <3>2, FiniteAccounts, TotalAdds
  <2> QED BY <1>1, <1>2, <2>2
<1>5. one["buybacks_vault"] = 0
  BY <1>1 DEF Added
<1>6. two["team_treasury"] = 0
  BY <1>1 DEF Added
<1>7. two \in [Recipient -> Nat]
      /\ Total(two) = f["futarchy_treasury"] + f["buybacks_vault"]
  <2> HIDE DEF one
  <2>1. Total(two) = Total(one) + f["buybacks_vault"] /\ two \in [Recipient -> Nat]
    <3>1. one["buybacks_vault"] + f["buybacks_vault"] \in Nat
      BY <1>1, <1>5
    <3>2. f["buybacks_vault"] \in Int
      BY <1>1
    <3> QED BY <1>1, <1>4, <3>1, <3>2, FiniteAccounts, TotalAdds
  <2> QED BY <1>1, <1>4, <2>1
<1>8. Total(three) = f["futarchy_treasury"] + f["buybacks_vault"] + f["team_treasury"]
  <2> HIDE DEF two
  <2>1. Total(three) = Total(two) + f["team_treasury"]
    <3>1. two["team_treasury"] + f["team_treasury"] \in Nat
      BY <1>1, <1>6
    <3>2. f["team_treasury"] \in Int
      BY <1>1
    <3> QED BY <1>1, <1>7, <3>1, <3>2, FiniteAccounts, TotalAdds
  <2> QED BY <1>1, <1>7, <2>1
<1> QED
  <2> HIDE DEF three
  <2> QED BY <1>3, <1>8

\* A share is a number of basis points.
LEMMA WithinWhole ==
  ASSUME NEW x \in Nat, x <= BPS_DENOMINATOR
  PROVE  x \in 0 .. BPS_DENOMINATOR
BY DEF BPS_DENOMINATOR

\* A valid distribution is three shares that add up to the whole.
LEMMA ValidDistribution ==
  ASSUME NEW d \in [Recipient -> Nat], IsValid(d)
  PROVE  d \in [Recipient -> 0 .. BPS_DENOMINATOR] /\ Total(d) = BPS_DENOMINATOR
<1>1. d["futarchy_treasury"] + d["buybacks_vault"] + d["team_treasury"] = BPS_DENOMINATOR
  BY TotalOfThree DEF IsValid
<1>2. \A r \in Recipient : d[r] \in 0 .. BPS_DENOMINATOR
  <2>1. /\ d["futarchy_treasury"] \in Nat /\ d["buybacks_vault"] \in Nat
        /\ d["team_treasury"] \in Nat
    BY DEF Recipient
  <2>2. /\ d["futarchy_treasury"] <= BPS_DENOMINATOR
        /\ d["buybacks_vault"] <= BPS_DENOMINATOR
        /\ d["team_treasury"] <= BPS_DENOMINATOR
    BY <1>1, <2>1 DEF BPS_DENOMINATOR
  <2>3. \A r \in Recipient : d[r] \in Nat /\ d[r] <= BPS_DENOMINATOR
    BY <2>1, <2>2 DEF Recipient
  <2> QED BY <2>3, WithinWhole
<1> QED BY <1>2 DEF IsValid

----------------------------------------------------------------------------
(* The parts of a claim. *)

\* Products of one amount with three shares of a whole.
LEMMA SharesOfAmount ==
  ASSUME NEW a \in Nat, NEW x \in Nat, NEW y \in Nat, NEW z \in Nat, NEW b \in Nat, x + y + z = b
  PROVE  a * x + a * y + a * z = a * b /\ a * x \in Nat /\ a * y \in Nat /\ a * z \in Nat
BY SMT

\* The parts are naturals and add up to the amount; two of them are short of
\* their shares by less than one unit, and the treasury has what they lack.
LEMMA PartsOfClaim ==
  ASSUME TypeOK, Initialized, NEW amount \in Nat
  PROVE  /\ Parts(amount) \in [Recipient -> Nat]
         /\ Total(Parts(amount)) = amount
         /\ \A r \in Recipient : amount * distribution[r] \in Nat
         /\ \A r \in Recipient \ {"futarchy_treasury"} :
              /\ Parts(amount)[r] * BPS_DENOMINATOR <= amount * distribution[r]
              /\ amount * distribution[r] <= (Parts(amount)[r] + 1) * BPS_DENOMINATOR
         /\ LET treasury == Parts(amount)["futarchy_treasury"] * BPS_DENOMINATOR
                share    == amount * distribution["futarchy_treasury"]
            IN  share <= treasury /\ treasury <= share + 2 * BPS_DENOMINATOR
<1> DEFINE df == distribution["futarchy_treasury"]
           db == distribution["buybacks_vault"]
           dt == distribution["team_treasury"]
           b  == (amount * db) \div BPS_DENOMINATOR
           t  == (amount * dt) \div BPS_DENOMINATOR
           parts == Parts(amount)
<1>1. /\ df \in Nat /\ db \in Nat /\ dt \in Nat
      /\ df + db + dt = BPS_DENOMINATOR
  <2>1. distribution \in [Recipient -> Nat]
    <3>1. 0 .. BPS_DENOMINATOR \subseteq Nat
      BY DEF BPS_DENOMINATOR
    <3> QED BY <3>1 DEF TypeOK
  <2> QED BY <2>1, TotalOfThree DEF TypeOK, Recipient
<1>2. /\ amount * df + amount * db + amount * dt = amount * BPS_DENOMINATOR
      /\ amount * df \in Nat /\ amount * db \in Nat /\ amount * dt \in Nat
  <2> HIDE DEF df, db, dt
  <2>1. BPS_DENOMINATOR \in Nat
    BY DEF BPS_DENOMINATOR
  <2> QED BY <1>1, <2>1, SharesOfAmount
<1>3. /\ b \in Nat /\ b * BPS_DENOMINATOR <= amount * db
      /\ amount * db < b * BPS_DENOMINATOR + BPS_DENOMINATOR
      /\ t \in Nat /\ t * BPS_DENOMINATOR <= amount * dt
      /\ amount * dt < t * BPS_DENOMINATOR + BPS_DENOMINATOR
  <2> HIDE DEF df, db, dt
  <2> QED BY <1>2 DEF BPS_DENOMINATOR
<1>4. parts = [r \in Recipient |-> CASE r = "buybacks_vault" -> b
                                     [] r = "team_treasury" -> t
                                     [] OTHER -> amount - b - t]
  BY DEF Parts, PartOf
<1>5. /\ parts["buybacks_vault"] = b /\ parts["team_treasury"] = t
      /\ parts["futarchy_treasury"] = amount - b - t
  BY <1>4 DEF Recipient
<1>6. amount - b - t \in Nat
  <2> HIDE DEF df, db, dt, b, t
  <2> QED BY <1>2, <1>3 DEF BPS_DENOMINATOR
<1>7. parts \in [Recipient -> Nat]
  <2> HIDE DEF b, t
  <2>1. DOMAIN parts = Recipient /\ parts = [r \in Recipient |-> parts[r]]
    BY <1>4
  <2>2. \A r \in Recipient : parts[r] \in Nat
    BY <1>3, <1>5, <1>6 DEF Recipient
  <2> HIDE DEF parts
  <2> QED BY <2>1, <2>2
<1>8. Total(parts) = amount
  <2> HIDE DEF b, t, parts
  <2> QED BY <1>3, <1>5, <1>7, TotalOfThree
<1> HIDE DEF b, t, parts
<1>9. \A r \in Recipient : amount * distribution[r] \in Nat
  BY <1>2 DEF Recipient
<1>10. ASSUME NEW r \in Recipient \ {"futarchy_treasury"}
       PROVE  /\ parts[r] * BPS_DENOMINATOR <= amount * distribution[r]
              /\ amount * distribution[r] <= (parts[r] + 1) * BPS_DENOMINATOR
  <2>1. /\ b * BPS_DENOMINATOR <= amount * db
        /\ amount * db <= (b + 1) * BPS_DENOMINATOR
        /\ t * BPS_DENOMINATOR <= amount * dt
        /\ amount * dt <= (t + 1) * BPS_DENOMINATOR
    <3> HIDE DEF df, db, dt
    <3> QED BY <1>2, <1>3 DEF BPS_DENOMINATOR
  <2>2. CASE r = "buybacks_vault"
    BY <1>5, <2>1, <2>2
  <2>3. CASE r = "team_treasury"
    BY <1>5, <2>1, <2>3
  <2> QED BY <1>10, <2>2, <2>3 DEF Recipient
<1>11. /\ amount * df <= (amount - b - t) * BPS_DENOMINATOR
       /\ (amount - b - t) * BPS_DENOMINATOR <= amount * df + 2 * BPS_DENOMINATOR
  <2> HIDE DEF df, db, dt
  <2> QED BY <1>2, <1>3 DEF BPS_DENOMINATOR
<1> QED BY <1>5, <1>7, <1>8, <1>9, <1>10, <1>11 DEF parts

----------------------------------------------------------------------------
(* The steps. *)

\* Before the account exists there are neither fees nor wallets with any.
LEMMA FutarchyInit == Init => FutarchyInv
<1> SUFFICES ASSUME Init PROVE FutarchyInv OBVIOUS
<1>1. TypeOK
  <2>1. 0 \in 0 .. BPS_DENOMINATOR /\ 0 \in Nat
    BY DEF BPS_DENOMINATOR
  <2>2. revenue_share \in [swap_bps : 0 .. BPS_DENOMINATOR, interest_bps : 0 .. BPS_DENOMINATOR]
    BY <2>1 DEF Init
  <2>3. distribution \in [Recipient -> 0 .. BPS_DENOMINATOR]
    BY <2>1 DEF Init
  <2> QED BY <2>1, <2>2, <2>3 DEF Init, TypeOK, Initialized
<1>2. CountersOK
  BY DEF Init, CountersOK
<1>3. Conserved
  <2>1. SumOf(fees) = 0 /\ SumOf(wallet) = 0 /\ earned = 0
    BY FiniteAccounts, SumOfZeros DEF Init
  <2>2. Total(fees) = SumOf(fees) /\ Total(wallet) = SumOf(wallet)
    BY DEF Total, SumOf
  <2> QED BY <2>1, <2>2 DEF Conserved
<1>4. SharesWithinDust
  BY DEF Init, SharesWithinDust, BPS_DENOMINATOR, Recipient
<1> QED BY <1>1, <1>2, <1>3, <1>4 DEF FutarchyInv

\* What changes no money keeps what is said of the money.
LEMMA MoneyStays ==
  ASSUME FutarchyInv, UNCHANGED moneyVars, TypeOK'
  PROVE  FutarchyInv'
BY DEF FutarchyInv, moneyVars, historyVars, CountersOK, Conserved, SharesWithinDust

LEMMA InitAccountKeeps ==
  ASSUME FutarchyInv, NEW deployer \in Keys, NEW key \in Keys, NEW wallets \in [Recipient -> Keys],
         NEW s \in Bps, NEW i \in Bps, NEW d \in Distributions,
         InitFutarchyAuthority(deployer, key, s, i, d, wallets)
  PROVE  FutarchyInv'
<1>1. d \in [Recipient -> Nat] /\ s \in Nat /\ i \in Nat
  BY RevenueAssumption
<1>2. d \in [Recipient -> 0 .. BPS_DENOMINATOR] /\ Total(d) = BPS_DENOMINATOR
  BY <1>1, ValidDistribution DEF InitFutarchyAuthority
<1>3. s \in 0 .. BPS_DENOMINATOR /\ i \in 0 .. BPS_DENOMINATOR
  BY <1>1, WithinWhole DEF InitFutarchyAuthority
<1>4. TypeOK'
  BY <1>2, <1>3 DEF InitFutarchyAuthority, FutarchyInv, TypeOK, Initialized, moneyVars
<1> QED BY <1>4, MoneyStays DEF InitFutarchyAuthority

LEMMA UpdateRevenueKeeps ==
  ASSUME FutarchyInv, NEW signer \in Keys, NEW s \in Bps \cup {Keep}, NEW i \in Bps \cup {Keep},
         NEW d \in Distributions \cup {Keep},
         UpdateProtocolRevenue(signer, s, i, d)
  PROVE  FutarchyInv'
<1>1. OrKeep(d, distribution) \in [Recipient -> 0 .. BPS_DENOMINATOR]
      /\ Total(OrKeep(d, distribution)) = BPS_DENOMINATOR
  <2>1. CASE d = Keep
    BY <2>1 DEF OrKeep, FutarchyInv, TypeOK, UpdateProtocolRevenue
  <2>2. CASE d # Keep
    <3>1. d \in [Recipient -> Nat] /\ IsValid(d)
      BY <2>2, RevenueAssumption DEF UpdateProtocolRevenue
    <3> QED BY <2>2, <3>1, ValidDistribution DEF OrKeep
  <2> QED BY <2>1, <2>2
<1>2. /\ OrKeep(s, revenue_share.swap_bps) \in 0 .. BPS_DENOMINATOR
      /\ OrKeep(i, revenue_share.interest_bps) \in 0 .. BPS_DENOMINATOR
  <2>1. /\ s # Keep => s \in Nat /\ s <= BPS_DENOMINATOR
        /\ i # Keep => i \in Nat /\ i <= BPS_DENOMINATOR
    BY RevenueAssumption DEF UpdateProtocolRevenue
  <2>2. /\ s # Keep => s \in 0 .. BPS_DENOMINATOR
        /\ i # Keep => i \in 0 .. BPS_DENOMINATOR
    BY <2>1, WithinWhole
  <2>3. /\ revenue_share.swap_bps \in 0 .. BPS_DENOMINATOR
        /\ revenue_share.interest_bps \in 0 .. BPS_DENOMINATOR
    BY DEF FutarchyInv, TypeOK
  <2> QED BY <2>2, <2>3 DEF OrKeep
<1>3. TypeOK'
  BY <1>1, <1>2
     DEF UpdateProtocolRevenue, FutarchyInv, TypeOK, Initialized, moneyVars, switchVars
<1> QED BY <1>3, MoneyStays DEF UpdateProtocolRevenue

\* Who decides and who receives does not change what has been shared out.
LEMMA AdministrationKeeps ==
  ASSUME FutarchyInv, NEW signer \in Keys,
         \/ \E key \in Keys : UpdateFutarchyAuthority(signer, key)
         \/ \E wallets \in [Recipient -> Keys \cup {Keep}] :
              UpdateRevenueRecipients(signer, wallets)
         \/ \E b \in BOOLEAN : SetGlobalReduceOnly(signer, b)
         \/ \E p \in Pairs, b \in BOOLEAN : SetPairReduceOnly(signer, p, b)
  PROVE  FutarchyInv'
<1>1. ASSUME NEW key \in Keys, UpdateFutarchyAuthority(signer, key)
      PROVE  TypeOK' /\ UNCHANGED moneyVars
  BY <1>1 DEF UpdateFutarchyAuthority, FutarchyInv, TypeOK, Initialized, revenueVars, switchVars,
              moneyVars
<1>2. ASSUME NEW wallets \in [Recipient -> Keys \cup {Keep}],
             UpdateRevenueRecipients(signer, wallets)
      PROVE  TypeOK' /\ UNCHANGED moneyVars
  <2>1. recipients \in [Recipient -> Keys]
    BY <1>2 DEF UpdateRevenueRecipients, FutarchyInv, TypeOK
  <2>2. \A r \in Recipient : OrKeep(wallets[r], recipients[r]) \in Keys
    BY <2>1 DEF OrKeep
  <2> QED BY <1>2, <2>2 DEF UpdateRevenueRecipients, FutarchyInv, TypeOK, Initialized, revenueVars,
                            switchVars, moneyVars
<1>3. ASSUME NEW b \in BOOLEAN, SetGlobalReduceOnly(signer, b)
      PROVE  TypeOK' /\ UNCHANGED moneyVars
  BY <1>3 DEF SetGlobalReduceOnly, FutarchyInv, TypeOK, Initialized, revenueVars, moneyVars
<1>4. ASSUME NEW p \in Pairs, NEW b \in BOOLEAN, SetPairReduceOnly(signer, p, b)
      PROVE  TypeOK' /\ UNCHANGED moneyVars
  BY <1>4 DEF SetPairReduceOnly, FutarchyInv, TypeOK, Initialized, revenueVars, moneyVars
<1> QED BY <1>1, <1>2, <1>3, <1>4, MoneyStays

\* Revenue is earned by one pair, as a natural number of units.
LEMMA EarnKeeps ==
  ASSUME FutarchyInv, NEW p \in Pairs, NEW a \in Nat, Earn(p, a)
  PROVE  FutarchyInv'
<1>1. fees \in [Pairs -> Nat] /\ earned \in Nat /\ fees[p] + a \in Nat
  BY DEF FutarchyInv, CountersOK
<1>2. fees' \in [Pairs -> Nat] /\ Total(fees') = Total(fees) + a /\ Total(fees) \in Nat
  <2>1. fees' = Added(fees, p, a)
    BY DEF Earn, Added
  <2> QED BY <1>1, <2>1, FiniteAccounts, TotalAdds
<1>3. Total(wallet) \in Nat
  BY FiniteAccounts, SumNat DEF FutarchyInv, TypeOK, Total, SumOf
<1>4. TypeOK'
  BY DEF Earn, FutarchyInv, TypeOK, Initialized, revenueVars, switchVars
<1>5. CountersOK'
  BY <1>1, <1>2 DEF Earn, FutarchyInv, CountersOK
<1>6. Conserved'
  BY <1>1, <1>2, <1>3 DEF Earn, FutarchyInv, Conserved
<1>7. SharesWithinDust'
  BY DEF Earn, FutarchyInv, SharesWithinDust
<1> QED BY <1>4, <1>5, <1>6, <1>7 DEF FutarchyInv

LEMMA SwapFeeKeeps ==
  ASSUME FutarchyInv, NEW p \in Pairs, NEW a \in Amounts, SwapFee(p, a)
  PROVE  FutarchyInv'
<1>1. a \in Nat /\ revenue_share.swap_bps \in Nat
  BY RevenueAssumption DEF FutarchyInv, TypeOK
<1>2. a * revenue_share.swap_bps \in Nat
  BY <1>1, MulNat
<1>3. (a * revenue_share.swap_bps + BPS_DENOMINATOR - 1) \div BPS_DENOMINATOR \in Nat
  BY <1>2 DEF BPS_DENOMINATOR
<1> QED BY <1>3, EarnKeeps DEF SwapFee

LEMMA InterestFeeKeeps ==
  ASSUME FutarchyInv, NEW p \in Pairs, NEW a \in Amounts, NEW cash \in {0} \cup Amounts,
         InterestFee(p, a, cash)
  PROVE  FutarchyInv'
<1>1. a \in Nat /\ revenue_share.interest_bps \in Nat /\ cash \in Nat
  BY RevenueAssumption DEF FutarchyInv, TypeOK
<1>2. a * revenue_share.interest_bps \in Nat
  BY <1>1, MulNat
<1>3. (a * revenue_share.interest_bps) \div BPS_DENOMINATOR \in Nat
  BY <1>2 DEF BPS_DENOMINATOR
<1>4. ASSUME NEW x \in Nat, NEW y \in Nat
      PROVE  Min({x, y}) \in Nat
  <2>1. \E m \in {x, y} : \A z \in {x, y} : m <= z
    OBVIOUS
  <2>2. Min({x, y}) \in {x, y}
    BY <2>1 DEF Min
  <2> QED BY <2>2
<1>5. Min({(a * revenue_share.interest_bps) \div BPS_DENOMINATOR, cash}) \in Nat
  BY <1>1, <1>3, <1>4
<1> QED BY <1>5, EarnKeeps DEF InterestFee

\* A claim pays the three parts of all that the pair holds, wherever the
\* recipients' wallets are, one and the same included.
LEMMA ClaimKeeps ==
  ASSUME FutarchyInv, NEW p \in Pairs, ClaimProtocolFees(p)
  PROVE  FutarchyInv'
<1> DEFINE amount == fees[p]
           parts  == Parts(amount)
           treasury == parts["futarchy_treasury"]
           buybacks == parts["buybacks_vault"]
           team     == parts["team_treasury"]
           w1 == PaidTo(wallet, "futarchy_treasury", parts)
           w2 == PaidTo(w1, "buybacks_vault", parts)
           w3 == PaidTo(w2, "team_treasury", parts)
<1>1. /\ TypeOK /\ CountersOK /\ Conserved /\ SharesWithinDust /\ Initialized
      /\ amount \in Nat
      /\ recipients \in [Recipient -> Keys]
      /\ wallet \in [Keys -> Nat]
  BY DEF FutarchyInv, TypeOK, CountersOK, ClaimProtocolFees
<1>2. /\ fees' = [fees EXCEPT ![p] = @ - Total(parts)]
      /\ wallet' = w3
      /\ claims' = claims + 1
      /\ due' = [r \in Recipient |-> due[r] + amount * distribution[r]]
      /\ paid' = [r \in Recipient |-> paid[r] + parts[r]]
      /\ earned' = earned
      /\ UNCHANGED <<authority, revenueVars, recipients, switchVars>>
  BY DEF ClaimProtocolFees
<1>3. /\ parts \in [Recipient -> Nat] /\ Total(parts) = amount
      /\ \A r \in Recipient : amount * distribution[r] \in Nat
      /\ \A r \in Recipient \ {"futarchy_treasury"} :
           /\ parts[r] * BPS_DENOMINATOR <= amount * distribution[r]
           /\ amount * distribution[r] <= (parts[r] + 1) * BPS_DENOMINATOR
      /\ amount * distribution["futarchy_treasury"] <= treasury * BPS_DENOMINATOR
      /\ treasury * BPS_DENOMINATOR
           <= amount * distribution["futarchy_treasury"] + 2 * BPS_DENOMINATOR
  <2> HIDE DEF amount
  <2> QED BY <1>1, PartsOfClaim
<1> HIDE DEF parts
<1>4. treasury + buybacks + team = amount /\ treasury \in Nat /\ buybacks \in Nat /\ team \in Nat
  BY <1>3, TotalOfThree DEF Recipient
<1>5. ASSUME NEW w \in [Keys -> Nat], NEW r \in Recipient
      PROVE  /\ PaidTo(w, r, parts) \in [Keys -> Nat]
             /\ Total(w) \in Nat
             /\ Total(PaidTo(w, r, parts)) = Total(w) + parts[r]
  <2>1. recipients[r] \in Keys /\ parts[r] \in Nat /\ w[recipients[r]] + parts[r] \in Nat
    BY <1>1, <1>3
  <2>2. PaidTo(w, r, parts) = Added(w, recipients[r], parts[r])
    BY DEF PaidTo, Added
  <2> QED BY <2>1, <2>2, FiniteAccounts, TotalAdds
<1>6. /\ w3 \in [Keys -> Nat]
      /\ Total(wallet) \in Nat
      /\ Total(w3) = Total(wallet) + treasury + buybacks + team
  <2>1. w1 \in [Keys -> Nat] /\ Total(wallet) \in Nat /\ Total(w1) = Total(wallet) + treasury
    BY <1>1, <1>5 DEF Recipient
  <2> HIDE DEF w1
  <2>2. w2 \in [Keys -> Nat] /\ Total(w2) = Total(w1) + buybacks
    BY <1>5, <2>1 DEF Recipient
  <2> HIDE DEF w2
  <2>3. w3 \in [Keys -> Nat] /\ Total(w3) = Total(w2) + team
    BY <1>5, <2>2 DEF Recipient
  <2> QED BY <1>4, <2>1, <2>2, <2>3
<1>7. fees' \in [Pairs -> Nat] /\ Total(fees') = Total(fees) - amount /\ Total(fees) \in Nat
  <2>1. fees \in [Pairs -> Nat] /\ 0 - amount \in Int /\ fees[p] + (0 - amount) \in Nat
    BY <1>1 DEF CountersOK
  <2>2. fees' = Added(fees, p, 0 - amount)
    <3>1. fees[p] - Total(parts) = fees[p] + (0 - amount)
      BY <1>3, <2>1
    <3>2. [fees EXCEPT ![p] = fees[p] - Total(parts)] = [fees EXCEPT ![p] = fees[p] + (0 - amount)]
      BY <3>1
    <3> QED BY <1>2, <3>2 DEF Added
  <2>3. /\ Added(fees, p, 0 - amount) \in [Pairs -> Nat]
        /\ Total(Added(fees, p, 0 - amount)) = Total(fees) + (0 - amount)
        /\ Total(fees) \in Nat
    <3> HIDE DEF amount
    <3> QED BY <2>1, FiniteAccounts, TotalAdds
  <2> HIDE DEF amount
  <2> QED BY <1>1, <2>2, <2>3
<1> HIDE DEF amount, w1, w2, w3
<1>8. TypeOK'
  BY <1>1, <1>2, <1>6 DEF TypeOK, Initialized, revenueVars, switchVars
<1>9. CountersOK'
  BY <1>1, <1>2, <1>3, <1>7 DEF CountersOK
<1>10. Conserved'
  <2> HIDE DEF treasury, buybacks, team
  <2>1. Total(wallet') = Total(wallet) + treasury + buybacks + team
    BY <1>2, <1>6
  <2>2. Total(wallet) + Total(fees) = earned
    BY <1>1 DEF Conserved
  <2>3. Total(wallet') + Total(fees') = earned'
    BY <1>1, <1>2, <1>4, <1>6, <1>7, <2>1, <2>2
  <2> QED BY <2>3 DEF Conserved
<1>11. SharesWithinDust'
  <2>1. /\ claims \in Nat
        /\ \A r \in Recipient : /\ due[r] \in Nat /\ paid[r] \in Nat /\ parts[r] \in Nat
                                /\ due'[r] = due[r] + amount * distribution[r]
                                /\ paid'[r] = paid[r] + parts[r]
    BY <1>1, <1>2, <1>3 DEF CountersOK
  <2>2. ASSUME NEW r \in Recipient \ {"futarchy_treasury"}
        PROVE  /\ paid'[r] * BPS_DENOMINATOR <= due'[r]
               /\ due'[r] <= (paid'[r] + claims') * BPS_DENOMINATOR
    <3>1. /\ paid[r] * BPS_DENOMINATOR <= due[r]
          /\ due[r] <= (paid[r] + claims) * BPS_DENOMINATOR
      BY <1>1, <2>2 DEF SharesWithinDust
    <3>2. /\ due'[r] = due[r] + amount * distribution[r]
          /\ paid'[r] = paid[r] + parts[r]
          /\ due[r] \in Nat /\ paid[r] \in Nat /\ parts[r] \in Nat
          /\ amount * distribution[r] \in Nat
      BY <1>3, <2>1
    <3>3. /\ parts[r] * BPS_DENOMINATOR <= amount * distribution[r]
          /\ amount * distribution[r] <= (parts[r] + 1) * BPS_DENOMINATOR
      BY <1>3
    <3> QED BY <1>2, <2>1, <3>1, <3>2, <3>3 DEF BPS_DENOMINATOR
  <2>3. /\ due'["futarchy_treasury"] <= paid'["futarchy_treasury"] * BPS_DENOMINATOR
        /\ paid'["futarchy_treasury"] * BPS_DENOMINATOR
             <= due'["futarchy_treasury"] + 2 * claims' * BPS_DENOMINATOR
    <3>1. /\ due["futarchy_treasury"] <= paid["futarchy_treasury"] * BPS_DENOMINATOR
          /\ paid["futarchy_treasury"] * BPS_DENOMINATOR
               <= due["futarchy_treasury"] + 2 * claims * BPS_DENOMINATOR
      BY <1>1 DEF SharesWithinDust
    <3>2. "futarchy_treasury" \in Recipient
      BY DEF Recipient
    <3>3. /\ due'["futarchy_treasury"]
               = due["futarchy_treasury"] + amount * distribution["futarchy_treasury"]
          /\ paid'["futarchy_treasury"] = paid["futarchy_treasury"] + treasury
          /\ due["futarchy_treasury"] \in Nat /\ paid["futarchy_treasury"] \in Nat
          /\ treasury \in Nat /\ amount * distribution["futarchy_treasury"] \in Nat
      BY <1>3, <2>1, <3>2
    <3> HIDE DEF treasury
    <3> QED BY <1>2, <1>3, <2>1, <3>1, <3>3 DEF BPS_DENOMINATOR
  <2> QED BY <2>2, <2>3 DEF SharesWithinDust
<1> QED BY <1>8, <1>9, <1>10, <1>11 DEF FutarchyInv

----------------------------------------------------------------------------
\* FutarchyInv is inductive.
LEMMA FutarchyStep == FutarchyInv /\ [Next]_vars => FutarchyInv'
<1> SUFFICES ASSUME FutarchyInv, [Next]_vars PROVE FutarchyInv' OBVIOUS
<1>1. CASE UNCHANGED vars
  BY <1>1 DEF vars, revenueVars, switchVars, moneyVars, historyVars, FutarchyInv, TypeOK,
              Initialized, CountersOK, Conserved, SharesWithinDust
<1>2. CASE Next
  BY <1>2, InitAccountKeeps, UpdateRevenueKeeps, AdministrationKeeps, SwapFeeKeeps,
     InterestFeeKeeps, ClaimKeeps DEF Next
<1> QED BY <1>1, <1>2

\* The invariant holds throughout.
LEMMA FutarchyInvariant == Spec => []FutarchyInv
<1> QED BY FutarchyInit, FutarchyStep, PTL DEF Spec

\* Whatever governance changes, the shares are shares, every recipient has a
\* wallet once the account exists, and the distribution that opens a claim is
\* the whole (claim_protocol_fees.rs, the check of `is_valid`).
THEOREM AuthorityIsTyped == Spec => []TypeOK
<1>1. FutarchyInv => TypeOK
  BY DEF FutarchyInv
<1> QED BY <1>1, FutarchyInvariant, PTL

\* No unit of revenue is lost or made between the pairs that earn it and the
\* wallets it is claimed to, and no claim touches the pairs' cash.
THEOREM RevenueIsConserved == Spec => []RevenueReachesRecipients
<1>1. FutarchyInv => RevenueReachesRecipients
  BY DEF FutarchyInv, CountersOK, Conserved, RevenueReachesRecipients
<1> QED BY <1>1, FutarchyInvariant, PTL

\* However often anyone claims, each recipient is paid its share of all that
\* was claimed, short of one unit a claim, and the treasury has the rest.
THEOREM DustIsBounded == Spec => []SharesWithinDust
<1>1. FutarchyInv => SharesWithinDust
  BY DEF FutarchyInv
<1> QED BY <1>1, FutarchyInvariant, PTL

=============================================================================
