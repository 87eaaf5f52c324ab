------------------------------- MODULE Futarchy -------------------------------
(***************************************************************************)
(* Governance of the program: the one futarchy authority account, who may  *)
(* change it, the protocol's part of swap fees and interest on every pair, *)
(* and the permissionless claims that pay it out to three recipients.      *)
(*                                                                         *)
(* A pair is reduced to the protocol's part of one reserve vault: a claim  *)
(* treats the two tokens alike.  An optional argument that is not given is *)
(* Keep.                                                                   *)
(***************************************************************************)
EXTENDS Integers, FiniteSets, FiniteSetsExt, Functions

CONSTANTS
  Keys,                    \* wallets and signers
  NoKey,                   \* the account does not exist yet
  Keep,
  UpgradeAuthority,        \* of the program
  REDUCE_ONLY_EMERGENCY_AUTHORITY,
  Pairs,
  Bps,                     \* arguments offered as shares of the revenue
  Distributions,           \* and as distributions
  Amounts,                 \* fees and interest that a pair earns at once
  MaxEarned, MaxClaims     \* bounds

BPS_DENOMINATOR == 10000

Recipient == {"futarchy_treasury", "buybacks_vault", "team_treasury"}

ASSUME KeysAssumption ==
  /\ {UpgradeAuthority, REDUCE_ONLY_EMERGENCY_AUTHORITY} \subseteq Keys
  /\ NoKey \notin Keys /\ Keep \notin Keys
  /\ IsFiniteSet(Keys) /\ IsFiniteSet(Pairs)
ASSUME RevenueAssumption ==
  /\ Bps \subseteq Nat
  /\ Distributions \subseteq [Recipient -> Nat]
  /\ Amounts \subseteq Nat /\ MaxEarned \in Nat /\ MaxClaims \in Nat

VARIABLES
  authority,               \* futarchy_authority.authority
  revenue_share,           \* [swap_bps, interest_bps]
  distribution,            \* revenue_distribution, in basis points
  recipients,              \* wallet of each recipient
  global_reduce_only,
  reduce_only,             \* pair.reduce_only
  fees,                    \* of each pair: what exceeds cash_reserve in the vault
  wallet,                  \* what each key has been paid
  claims, earned, due, paid    \* history: see the properties

revenueVars == <<revenue_share, distribution>>
switchVars  == <<global_reduce_only, reduce_only>>
historyVars == <<claims, earned, due, paid>>
moneyVars   == <<fees, wallet, historyVars>>
vars        == <<authority, revenueVars, recipients, switchVars, moneyVars>>

Total(f) == FoldFunction(+, 0, f)

\* Variant: the team's part is not counted.
IsValidWithoutTeam(d) == d["futarchy_treasury"] + d["buybacks_vault"] = BPS_DENOMINATOR

\* RevenueDistribution::is_valid
IsValid(d) == Total(d) = BPS_DENOMINATOR

Init ==
  /\ authority = NoKey
  /\ revenue_share = [swap_bps |-> 0, interest_bps |-> 0]
  /\ distribution = [r \in Recipient |-> 0]
  /\ recipients = [r \in Recipient |-> NoKey]
  /\ global_reduce_only = FALSE
  /\ reduce_only = [p \in Pairs |-> FALSE]
  /\ fees = [p \in Pairs |-> 0]
  /\ wallet = [k \in Keys |-> 0]
  /\ claims = 0 /\ earned = 0
  /\ due = [r \in Recipient |-> 0]
  /\ paid = [r \in Recipient |-> 0]

Initialized == authority # NoKey

----------------------------------------------------------------------------
(* The account.  All its instructions but the first are the authority's.    *)

InitFutarchyAuthority(deployer, key, swap_bps, interest_bps, d, wallets) ==
  /\ ~Initialized
  /\ deployer = UpgradeAuthority
  /\ swap_bps <= BPS_DENOMINATOR /\ interest_bps <= BPS_DENOMINATOR
  /\ IsValid(d)
  /\ authority' = key
  /\ revenue_share' = [swap_bps |-> swap_bps, interest_bps |-> interest_bps]
  /\ distribution' = d
  /\ recipients' = wallets
  /\ global_reduce_only' = FALSE
  /\ UNCHANGED <<reduce_only, moneyVars>>

\* the new authority need not sign
UpdateFutarchyAuthority(signer, new_authority) ==
  /\ Initialized
  /\ signer = authority
  /\ authority' = new_authority
  /\ UNCHANGED <<revenueVars, recipients, switchVars, moneyVars>>

OrKeep(new, old) == IF new = Keep THEN old ELSE new

UpdateProtocolRevenue(signer, swap_bps, interest_bps, d) ==
  /\ Initialized
  /\ signer = authority
  /\ swap_bps # Keep => swap_bps <= BPS_DENOMINATOR
  /\ interest_bps # Keep => interest_bps <= BPS_DENOMINATOR
  /\ d # Keep => IsValid(d)
  /\ revenue_share' = [swap_bps     |-> OrKeep(swap_bps, revenue_share.swap_bps),
                       interest_bps |-> OrKeep(interest_bps, revenue_share.interest_bps)]
  /\ distribution' = OrKeep(d, distribution)
  /\ UNCHANGED <<authority, recipients, switchVars, moneyVars>>

UpdateRevenueRecipients(signer, wallets) ==
  /\ Initialized
  /\ signer = authority
  /\ recipients' = [r \in Recipient |-> OrKeep(wallets[r], recipients[r])]
  /\ UNCHANGED <<authority, revenueVars, switchVars, moneyVars>>

SetGlobalReduceOnly(signer, b) ==
  /\ Initialized
  /\ signer = REDUCE_ONLY_EMERGENCY_AUTHORITY
  /\ global_reduce_only' = b
  /\ UNCHANGED <<authority, revenueVars, recipients, reduce_only, moneyVars>>

SetPairReduceOnly(signer, p, b) ==
  /\ Initialized
  /\ signer = REDUCE_ONLY_EMERGENCY_AUTHORITY
  /\ reduce_only' = [reduce_only EXCEPT ![p] = b]
  /\ UNCHANGED <<authority, revenueVars, recipients, global_reduce_only, moneyVars>>

----------------------------------------------------------------------------
(* The money.  The shares in force when a fee is taken apply, for interest  *)
(* to all the time since the pair's last update.                            *)

Earn(p, amount) ==
  /\ earned + amount <= MaxEarned
  /\ fees' = [fees EXCEPT ![p] = @ + amount]
  /\ earned' = earned + amount
  /\ UNCHANGED <<authority, revenueVars, recipients, switchVars, wallet, claims, due, paid>>

\* swap: the protocol's part of the swap fee, rounded up
SwapFee(p, swap_fee) ==
  /\ Initialized
  /\ Earn(p, (swap_fee * revenue_share.swap_bps + BPS_DENOMINATOR - 1) \div BPS_DENOMINATOR)

\* Pair::update: a fee on top of the interest, rounded down; the part of it
\* that the pair's cash does not cover goes to the LPs
InterestFee(p, interest, cash_reserve) ==
  /\ Initialized
  /\ Earn(p, Min({(interest * revenue_share.interest_bps) \div BPS_DENOMINATOR, cash_reserve}))

PartOf(r, amount) == (amount * distribution[r]) \div BPS_DENOMINATOR

\* Variant: the rest is taken before the team is paid.
PartsBeforeTeam(amount) ==
  [r \in Recipient |-> IF r = "futarchy_treasury"
                       THEN amount - PartOf("buybacks_vault", amount)
                       ELSE PartOf(r, amount)]

\* Variant: the two rounded parts are exchanged.
PartsExchanged(amount) ==
  LET buybacks == PartOf("team_treasury", amount)
      team     == PartOf("buybacks_vault", amount)
  IN  [r \in Recipient |-> CASE r = "buybacks_vault" -> buybacks
                             [] r = "team_treasury" -> team
                             [] OTHER -> amount - buybacks - team]

\* the futarchy treasury takes the rest
Parts(amount) ==
  LET buybacks == PartOf("buybacks_vault", amount)
      team     == PartOf("team_treasury", amount)
  IN  [r \in Recipient |-> CASE r = "buybacks_vault" -> buybacks
                             [] r = "team_treasury" -> team
                             [] OTHER -> amount - buybacks - team]

\* one of the claim's transfers; several recipients may share a wallet
PaidTo(w, r, parts) == [w EXCEPT ![recipients[r]] = @ + parts[r]]

\* anyone
ClaimProtocolFees(p) ==
  LET parts == Parts(fees[p])
  IN  /\ Initialized
      /\ IsValid(distribution)
      /\ claims < MaxClaims
      /\ fees' = [fees EXCEPT ![p] = @ - Total(parts)]
      /\ wallet' = PaidTo(PaidTo(PaidTo(wallet, "futarchy_treasury", parts),
                                 "buybacks_vault", parts),
                          "team_treasury", parts)
      /\ claims' = claims + 1
      /\ due' = [r \in Recipient |-> due[r] + fees[p] * distribution[r]]
      /\ paid' = [r \in Recipient |-> paid[r] + parts[r]]
      /\ UNCHANGED <<authority, revenueVars, recipients, switchVars, earned>>

Next ==
  \/ \E deployer, key \in Keys, wallets \in [Recipient -> Keys] :
       \E swap_bps, interest_bps \in Bps, d \in Distributions :
         InitFutarchyAuthority(deployer, key, swap_bps, interest_bps, d, wallets)
  \/ \E signer, key \in Keys : UpdateFutarchyAuthority(signer, key)
  \/ \E signer \in Keys, swap_bps, interest_bps \in Bps \cup {Keep} :
       \E d \in Distributions \cup {Keep} :
         UpdateProtocolRevenue(signer, swap_bps, interest_bps, d)
  \/ \E signer \in Keys, wallets \in [Recipient -> Keys \cup {Keep}] :
       UpdateRevenueRecipients(signer, wallets)
  \/ \E signer \in Keys, b \in BOOLEAN : SetGlobalReduceOnly(signer, b)
  \/ \E signer \in Keys, p \in Pairs, b \in BOOLEAN : SetPairReduceOnly(signer, p, b)
  \/ \E p \in Pairs, a \in Amounts : SwapFee(p, a)
  \/ \E p \in Pairs, a \in Amounts, cash \in {0} \cup Amounts : InterestFee(p, a, cash)
  \/ \E p \in Pairs : ClaimProtocolFees(p)

Spec == Init /\ [][Next]_vars

----------------------------------------------------------------------------
\* The authority's fields stay within their ranges, and whatever governance
\* changes, the distribution adds up: the check that opens a claim never
\* keeps fees in the vaults.
TypeOK ==
  /\ authority \in Keys \cup {NoKey}
  /\ revenue_share \in [swap_bps : 0 .. BPS_DENOMINATOR, interest_bps : 0 .. BPS_DENOMINATOR]
  /\ distribution \in [Recipient -> 0 .. BPS_DENOMINATOR]
  /\ Initialized => Total(distribution) = BPS_DENOMINATOR /\ recipients \in [Recipient -> Keys]
  /\ global_reduce_only \in BOOLEAN /\ reduce_only \in [Pairs -> BOOLEAN]
  /\ wallet \in [Keys -> Nat]

\* Every unit of revenue is either still in the vault of the pair that earned
\* it or has reached a recipient's wallet, through every change of shares,
\* distribution and recipients between the earning and the claim; a claim
\* takes no more than the revenue, so none of the LPs' cash.
RevenueReachesRecipients ==
  /\ \A p \in Pairs : fees[p] >= 0
  /\ Total(wallet) + Total(fees) = earned

\* Anyone may claim at any moment, so also in the smallest pieces; a recipient
\* loses less than one unit by each claim, and what the others lose goes to
\* the futarchy treasury ("handles rounding dust"), two units at most.
SharesWithinDust ==
  /\ \A r \in Recipient \ {"futarchy_treasury"} :
       /\ paid[r] * BPS_DENOMINATOR <= due[r]
       /\ due[r] <= (paid[r] + claims) * BPS_DENOMINATOR
  /\ due["futarchy_treasury"] <= paid["futarchy_treasury"] * BPS_DENOMINATOR
  /\ paid["futarchy_treasury"] * BPS_DENOMINATOR
       <= due["futarchy_treasury"] + 2 * claims * BPS_DENOMINATOR

=============================================================================
