# Omnipair in TLA+

TLA+ modules, TLC configurations and TLAPS proofs for the on-chain program in
`src/programs/omnipair`: a constant-product pool whose two reserves are also a
lending market, one isolated pair at a time.

* [Inventory](#inventory): the parts of the program
* [Modules](#modules): what is modelled where
* [Runs](#runs): what TLC checks, with which bounds
* [Proofs](#proofs): what TLAPS proves, and how
* [Disagreements](#disagreements-between-the-code-and-its-documentation): where the code departs from its documentation
* [Not modelled](#not-modelled)
* [Plan](#plan)

## Inventory

Paths are relative to `src/programs/omnipair/src/`.

### Components

**Fixed-point arithmetic** (`utils/math.rs`). No state. `ceil_div`, integer
`sqrt`, `taylor_exp`, `compute_ema` and `slots_to_ms`. Every result is
truncated, saturated or an error. Correct when the truncations are on the
side the callers rely on and an error never blocks what must stay possible.

**GAMM curve and borrow limit** (`utils/gamm_math.rs`). No state. Swap amounts
on `x * y = k`; the virtual reserves at the pessimistic price, which have the
pool's `k` and the lower of the two EMA prices; the collateral factor, which
falls with the price impact of selling the collateral and with the debt that
is already out; and the limit that follows. Correct when nobody can move the
limit or a position's value within a slot, and a loan at the limit cannot be
liquidated at once.

**User position** (`state/user_position.rs`). Per user and token:
`collateral`, `debt_shares`, and the liquidation factor locked at the last
borrow or withdrawal. `increase_debt`, `decrease_debt` (as repayment or as
write-off) and `calculate_debt` translate debt to shares of the pair's total
debt. Correct when shares and debt stay in step, rounding falls on whoever
acts, and nothing is orphaned.

**Pair** (`state/pair.rs`). Per token: the virtual reserve, the cash reserve,
total debt and shares, total collateral, two EMA prices and the last rate. Plus
the LP supply, `last_update`, the reduce-only flag and the rate model it points
to. `Pair::update` runs at the beginning of every instruction that touches the
pair: EMA prices, then interest and the protocol's fee on it, for the time
since `last_update`. Correct when `r_virtual = r_cash + r_debt`, the solvency
invariant of the repository's README, survives everything.

**Swaps** (`instructions/spot/swap.rs`). Pays out of cash only, takes a fee of
which a part is the protocol's, and checks that `k` does not fall.

**Liquidity** (`instructions/liquidity/`). `initialize` derives the pair's
address from the two tokens and a hash of the parameters, creates its rate
model, takes over an uninitialized LP mint, bootstraps the reserves and locks
`MIN_LIQUIDITY`; `add_liquidity` mints by the smaller of both ratios;
`remove_liquidity` takes a 1% fee and must leave the debt covered 1.15 times.
Correct when an address stands for one market and its parameters, no creation
blocks another, and LP shares cannot be turned into more than they are.

**Lending** (`instructions/lending/{add_collateral,remove_collateral,borrow,repay,liquidate}.rs`).
Correct when an owner cannot leave a position uncovered, an insolvent position
loses everything before LPs take the rest, others' debts are untouched,
everybody can repay and leave, and liquidation succeeds when it is due.

**Flash loans** (`instructions/lending/flashloan.rs`). Tokens leave the vaults,
the receiver is called, and the balances must have grown by the fee.

**Protocol fees** (`instructions/futarchy/claim_protocol_fees.rs`). No counter
of what is owed to the protocol: claimable is what a vault holds beyond the
cash reserve at that moment, and anyone may have it paid out to the three
recipients. Correct when that difference is never negative and nothing is lost
on the way.

**Reduce-only switches** (`set_pair_reduce_only.rs`, `set_global_reduce_only.rs`).
Stop deposits, borrowing and withdrawals of collateral against debt; exits
must stay possible.

**Interest-rate controller** (`state/rate_model.rs`, `create_rate_model.rs`,
`set_pair_rate_model.rs`). The rate doubles per half-life above a utilization
band, halves below it, and stays inside it; it is clipped at a floor and at an
optional ceiling, with the integral over time in closed form. Correct when the
charge agrees with the rates and with time, does not depend on when and how
often a pair is touched, and each token's rate answers to its own utilization.

**Futarchy authority** (`state/futarchy_authority.rs`, `instructions/futarchy/`).
One account: the authority, the protocol's share of swap fees and interest, the
distribution of revenue and its recipients, the global reduce-only switch.
Correct when its checks keep the account such that a claim always succeeds.

**Circuit breaker** (`utils/liquidity_delta_circuit_breaker.rs`). Keeps
liquidity changes out of transactions that borrow, withdraw collateral or move
liquidity the other way, by reading the transaction's instruction list. Correct
when no order and no call from another program gets around it.

**Views** (`instructions/emit_value.rs`). Answers computed on a copy of the
pair: quotes, limits, health, prices. Correct when they agree with the
instruction the caller sends next.

**Dispatch** (`lib.rs`). Which instructions update the pair first, and on what.

No logic of their own: **token and account helpers** (`utils/token.rs`,
`utils/account.rs`), **events and errors**, the **faucet** program, the generated
**decoder**, client code, scripts, tests, audits and examples.

### How the parts interact

There are no threads. An instruction runs alone and any error reverts the whole
transaction, so an instruction is an atomic step, and the behaviours are the
orders in which any users, traders, LPs, liquidators, governance and the clock
take those steps. Everything interacts through shared state:

* the **reserve vault** of a token holds LP cash, uncollected protocol fees and
  donations together; only `cash_reserve` says which is which;
* the **virtual reserve** prices swaps and is also the sum of cash and debt, so
  borrowing moves no price, but interest and write-offs do;
* **total debt and total shares** couple all borrowers of a token;
* the **EMA prices** are read in every lending instruction, next to *spot*
  reserves of the same pair, which the previous instruction may have moved;
* the **elapsed time** is charged by whichever instruction comes first, with the
  rate model and the fee share that are in force then;
* a **transaction** groups instructions, of this and of other programs, into one
  step that commits or reverts as a whole.

### What is hard

The hazards are listed in `PROJECT.json`, each at its line, with the properties
that would catch it. The recurring ones are: three balances per token that many
handlers move two at a time; five roundings (shares, debt, LP tokens, fees,
virtual reserves), each on somebody's side; state cached in a position and used
in a later slot; the same formula mixing a slow price and a fast reserve; the
same computation written twice, in an instruction and in a view; integers that
clip in one place and fail in another; exponent and logarithm that are
approximated independently; guards that could block the exits or a liquidation
that is due; parameters that change between the earning and the charging.

## Modules

| module | models | state | EXTENDS |
| --- | --- | --- | --- |
| `FixedPoint` | `utils/math.rs` | none | |
| `GammMath` | `utils/gamm_math.rs` | none | `FixedPoint` |
| `DebtShares` | the share arithmetic of `state/user_position.rs`, on one token's ledger | none | `GammMath` |
| `PairState` | `state/pair.rs`: prices, interest, `update` of one token, queries | none | `DebtShares` |
| `Omnipair` | every instruction on one pair, as one action each; its properties | the pair, positions, vaults, switches, LP mint, clock | `PairState` |
| `Views` | `emit_value.rs` and the queries only it uses; what they promise | none of its own | `Omnipair` |
| `Keepers` | liquidators who try every position again and again | the position tried next | `Omnipair` |
| `Transactions` | transactions of several instructions, CPI, the circuit breaker | the instruction list, the position in it, the pair before it | `Omnipair` |
| `RateModel` | `state/rate_model.rs` | none | `FixedPoint` |
| `RateControl` | one token's rate under updates, time and model switches; its properties | rate model, last rate, elapsed time | `RateModel` |
| `PairRates` | the pair composed with its rate controller | the rate model and both rates | `Omnipair`, `RateModel` |
| `BalanceSheet` | *abstract*: what a pair promises as an accountant | cash, debt, equity and fees per token | |
| `Books` | the pair read as a balance sheet (the refinement mapping) | none of its own | `Omnipair` |
| `Futarchy` | the authority account and the way of the revenue | the account, each pair's fees, wallets | |
| `Factory` | creation of pairs and rate models, addresses, LP mints | pairs, models, mint authorities | `RateModel` |
| `MC...` | instances for TLC | a step counter | |
| `FixedPointLemmas` | facts about the arithmetic, the square root and sums; induction over a set | | `FixedPoint` |
| `RateLemmas`, `RateProofs` | facts about the rate model; what an accrual charges and where it takes the rate | | `RateModel`, `RateControl` |
| `PairProofs` | the invariant of the pair, and what follows from it in every state | | `Omnipair`, `FixedPointLemmas` |
| `StepProofs` | what no instruction does; the views; the circuit breaker | | `PairProofs`, `Views`, `Transactions` |
| `RefinementProofs` | the pair implements the balance sheet, the pair with its controller the pair | | `Books`, `PairRates`, `PairProofs`, `RateLemmas` |
| `FactoryProofs` | what the addresses of pairs guarantee | | `Factory` |
| `FutarchyProofs` | where the revenue goes | | `Futarchy`, `FixedPointLemmas` |

How they fit together:

```
 PairRates ──implements──> Omnipair ──implements──> BalanceSheet
   (computed charges)        │  any charges           (through Books)
                             ├── Transactions   several instructions, rollback
                             ├── Keepers        liquidators under fairness
                             └── Views          answers against instructions
 RateControl  one rate in depth     Factory  what creates pairs and models
 Futarchy     what sets the fee shares and pays the fees out
```

### Correspondence

The program keeps each field twice, for token0 and token1, and branches on the
mint in every handler. Here `ledger[t]` is the record of the fields of one
token, and `Other(t)` names the opposite token, so that each handler is written
once. `position[u][t]` has the user's collateral *in* token t, the shares of
debt *of* token t, and the factor locked for collateral t.

An action is the whole instruction: `\E l \in UpdatedPairs` is the pair after
`Pair::update`, and the action's guards are the `require!`s, checked operations
and early errors of validation and handler, all on `l`. `CommitPair` writes the
result and `last_update`. An instruction that fails changes nothing and is
simply not a step. `Ok` operators (`CalculateDebtOk`, `MulFits`, ...) are the
checked operations' success; where the code saturates, so does the operator.

`clipped` is a history variable in the ledger: whether a `saturating_add` of this
token's reserve, debt shares or flash-loan fee has ever clipped. It is in no
guard.

In `Omnipair` the rate model's answer is any of `Integrals`. `PairRates` computes
it: each token at its own utilization, before the update changes the ledgers,
with whichever model governance pointed the pair at last.

In `Transactions` the pair's actions are guarded by the breaker as the handlers
are: `Begin` picks the top-level list, `Runs(name)` says that the instruction being
executed is the top-level one, or comes from a program that is. The breaker
sees the list, not the calls. `Abort` puts back the pair as it was before the
transaction, whatever of it has already run.

A view changes nothing: in `Views` it is an operator of the same
`l \in UpdatedPairs` the next instruction would start from.

In `Factory` a hash is the tuple of what is hashed, an address is the record of
its seeds, and an argument that is `None` is `NotGiven`. In `Futarchy` an argument
that is `None` is `Keep`, and a pair is no more than the protocol's money in its
vaults.

Scales are constants: `NAD` (10^9), the widths `MaxU64` and `MaxU128`, slot and
half-life durations, `DecimalScale` (ten to the power of each token's decimals). Proofs hold for all of them. TLC runs at smaller ones; its
integers are 32 bits wide, so `NAD` is 1000 there and amounts are at most 240
(2000 in `runaway`).

Definitions marked *Variant* in a comment, each next to the one it varies, are
the same code with a plausible slip (a dropped cap, a rounding the other way, a
reset left out). No specification uses them; each property of a run is known
to fail under one of them, as listed in `PROJECT.json`.

### Fairness

No instruction has to come, not even an update, so most of the project assumes no
fairness, and what "must stay possible" is stated as an enabling condition in
every state (`DebtFreeCanExit`, `DebtCanBeRepaid`, `UnhealthyCanBeLiquidated`,
`AccrualNeverFails`). Two properties need a scheduler:

* `LiquidationsFinish`: liquidation is permissionless and pays its caller, and
  `Keepers` assumes that somebody goes round all positions for ever: weak
  fairness of `Poll` alone, the turn of the loop. That an attempt *succeeds* is not
  assumed: one that fails changes nothing and the turn counts, so a position that
  is liquidatable and yet refused would stay a counterexample. Borrowers and
  traders are under no fairness.
* `HighUtilizationReachesCeiling`: slots pass (the clock is not the program's to
  stop), and an update follows sooner or later. Without the second nobody is
  charged and nothing has to hold. Its premise `FloorGrowsInASlot` is no fairness: updates may
  come in every slot, and a rate too low to grow by a unit in one then stays where it is.

## Runs

| run | question | result |
| --- | --- | --- |
| `lending` | Do positions add up to the pair, who pays for roundings, price falls and bad debt, and do quotes hold? | pass, 40 thousand states |
| `value` | Can trading within a slot move a position's value or a limit, do the views tell the truth about health, and can the unhealthy be liquidated? | pass, 32 thousand |
| `pool` | Is every instruction an operation of the balance sheet, and can borrowers always leave? | pass, 196 thousand |
| `transactions` | Does the circuit breaker hold in every order, and do the books hold where integers end? | pass, 1.1 million |
| `liquidation` | Do liquidations end? | pass, 16 thousand |
| `rate` | Does the charge agree with rate, time and frequency of updates, and where does lasting pressure reach the ceiling? | pass, 33 thousand |
| `rated` | Is the pair with its controller still that pair, and does each rate follow its own token? | pass, 49 thousand |
| `futarchy` | Does all revenue reach its recipients through every change of governance? | pass, 147 thousand |
| `factory` | Does an address stand for one market, and is none blocked? | pass, 10 thousand |
| `slow_model`, `orphan`, `runaway` | Documented claims. | violated, see below |

**`lending`** (`MCLending`) has two borrowers against collateral 0 and a trader who pushes its
price down, over two slots with or without interest. Borrowing single units
makes every division of shares and debt round. Seven
instructions reach the interesting ends: both borrow, the price falls, interest
makes one of them liquidatable, a partial and an insolvent liquidation, and a
repayment of the rest. `OwnerLeavesPositionCovered` holds an owner to the factor just locked in: at the price
`liquidate` goes by, the debt is within that factor less the LTV buffer. `OthersLoansKeepHealth` is the other side of the
locked factor: what *others* borrow, repay, pledge or withdraw in the slot changes the utilization, and with it
the factor of the next loan, but makes nobody liquidatable (with the factor of the moment it would, and TLC shows
how). Besides the sums and the roundings the run checks two views
against the instruction that follows: `QuoteIsHonoured` (a swap pays what was
quoted) and `SimulationForetells` (a loan has the liquidation price simulated for it).

**`value`** (`MCLending`) swaps small and large amounts both ways without fees, where a round
trip moves the price the furthest for the least, with two borrowers, each with a
pledge of half the reserve or of six times the reserve; the second is worth
almost the whole curve, where the price impact and all roundings are largest.
`TradingKeepsValue`: what a liquidator would compute for any collateral does not
fall within a slot, except through a withdrawal of liquidity or a liquidation, by more
than `RoundingWorth`, what the roundings of the virtual reserves are worth at the price.
`TradingKeepsLimit`: no swap raises what collateral may borrow, but for one unit. `BorrowLimitBelowLiquidation`,
`LiquidationLimitIsTrue`, `LiquidatableIsReported` and `LiquidatedBelowPrice` put
the three computations of health and the two of the limit next to each other;
`AllOfLimitIsLent` sends the reported limit to `borrow`. `UnhealthyCanBeLiquidated`
says of every unhealthy position that all the checked arithmetic of `liquidate`
succeeds, unless the curve holds no more of the token than is owed or a product of
the position's own numbers leaves its type (`LiquidationFits`, never so in this run).
The first premise was found by the checker: see the second list under
[Disagreements](#disagreements-between-the-code-and-its-documentation).

**`pool`** (`MCPool`) has every instruction, donations, both switches and two borrowers. Six
instructions in two slots suffice for a fee, its claim, a loan that uses cash,
and a deposit and withdrawal around them. `BooksKept` is the refinement of
`BalanceSheet`. `LpValueNeverDrops` compares `k` per
squared LP token across each step. `DebtFreeCanExit` and `DebtCanBeRepaid` use
`RemoveCollateralOk` and `RepayOk`, all the guards of the two actions, so each of
them counts.

**`transactions`** (`MCTransactions`) has lists of up to two top-level instructions out of five of the pair, one
of another pair and one of a program that calls any instruction of the pair any
number of times; each may fail or be reverted. The integers are the smallest that work: 40 as the largest u64
with reserves of 25, so swaps and additions fail, debt outgrows its type, and with it the
reserve clips; and a fixed collateral factor, the other branch of the limit.
`LedgerIdentity` is checked there; that the vaults back the accounts needs no second run, since a rollback only
restores what held before (`TransactionsKeepBooks`).

**`liquidation`** (`MCKeepers`) lets borrowers, a trader and interest make positions
unhealthy in five instructions, at any moment of the keepers' round, which goes
on for ever: `LiquidationsFinish`.

**`rate`** (`MCRate`) has rate models with four floors (none, one whose growth in a slot is truncated away at the longer
half-life only, and two that always grow), with and without a ceiling, half-lives of one
and two slots, three utilizations (below, in and above the band), up to six
slots between updates, and a switch of model at any time. Milliseconds and `NAD` are
divided by the same 10^6 (a slot is stretched to match), so that `exp_rate = ln 2 / half_life` is an
integer of the program's size, with the truncation that comes with it.
`ChargeBetweenRates` bounds an integral by the rates at both ends, with a slack of
`(NAD + 9 * high) / exp_rate + high` for the rounded rate and the exponent's last digit;
`ChargeGrowsWithTime` forbids a jump downwards, also where a limit cuts the exponential
off; `SplitChargesTheSame` compares one accrual with two over the same
time, `HalfLifeDoubles` compares the growth with the half-life (rates of a hundred units and more,
half-lives for which `exp_rate` loses at most one per cent), `AccrualKeepsLimits` is
the floor and ceiling after every accrual, and `HighUtilizationReachesCeiling` the
liveness under pressure: the ceiling is reached under every model whose floor grows by a unit in one slot
(`FloorGrowsInASlot`). A positive floor is not enough, in this run or in the program: `calculate_rate`
keeps whole units of 1/`NAD`, and with the default exponent of 2 and slots of 400 ms a rate below about
0.125% (1 250 000 units) does not move while the pair is updated in every slot. Validation
admits such floors.

**`rated`** (`MCRated`) composes the pair with that controller: one borrower, a trader, two models
that governance switches. `ImplementsPair` is the refinement of `Omnipair`: the
charges that come out are among those `Omnipair` was checked with.

**`futarchy`** (`MCFutarchy`) has two keys that may be anything, among them both
signers of the program; arguments at and beyond their limits; distributions that
add up and one that does not; two pairs whose fees are claimed at any moment.

**`factory`** (`MCFactory`) has two tokens, two pairs, three mint accounts, and offers with each
optional argument given and not given, some of them invalid.

### Refinements

`BalanceSheet` is what LPs and borrowers are told about the pair: interest is owed
in full, its fee is paid from cash while there is cash, equity follows cash and
debt, a trade keeps `k`, a loan moves value from cash to debt, a write-off takes equity,
only a claim takes fees. It has no prices, shares, positions or vaults. `Books` maps
`equity` to the virtual reserve and `fees` to what the vault holds beyond
`cash_reserve`; `overflowed` is `clipped`, and after it nothing is promised, since a
saturated reserve has lost value for good.

`Omnipair` itself is the abstraction of `PairRates`: rates are hidden and the charge of
a period is any integral.

### Bounds

| bound | where | why it is enough |
| --- | --- | --- |
| `MaxSteps` 5 to 9 | the `MC` modules | Every action fires, and each property is violated by a variant of the code within it. |
| `MaxSlot` 1 to 3 (12 in `runaway`) | `Omnipair` | Two distinct slots show accrual, EMA movement and stale factors; in-slot order needs one. |
| `Inputs` | `Omnipair` | One or two amounts per kind, and `MaxU64` for "all" where the code reads it so. |
| `Integrals` | `Omnipair` | None, and 20% a period (40% and 200% in `transactions`): the least amounts accrue more than nothing. |
| `NumUsers` 1 or 2 | `Omnipair` | Two borrowers share the debt of a token; with one, the totals are the position's. |
| `MaxLength` 2 | `Transactions` | The breaker relates pairs of instructions; a program that calls by CPI stands for any number between them. The theorems have no such bound. |
| `MinRates` | `RateControl` | On both sides of what a slot's growth must be to survive truncation, at both half-lives. |
| `MaxElapsed`, `MaxRate` | `RateControl` | Three half-lives at least. `MaxRate` keeps the rate away from where the logarithm of a ratio no longer fits u64: 1.8 * 10^10 in the program, 32 at this scale. |
| `MaxEarned`, `MaxClaims` | `Futarchy` | Fees of both pairs, and a claim before and after a change. |
| `MaxPairs` 2 | `Factory` | Every property relates two creations. |

Deadlock is checked everywhere but in `factory`, where all addresses may be taken and every mint used.

## Proofs

Proved for every number of users, every width and scale, every choice of inputs
and every parameter the assumptions admit:

| theorem | module | says |
| --- | --- | --- |
| `PairAlwaysSound` | `PairProofs` | `Spec => []PairInv`, the inductive invariant |
| `TypeCorrect` | `PairProofs` | `Spec => []TypeOK`: no balance, share count, price or factor leaves its type |
| `VaultsAlwaysBack` | `PairProofs` | `Spec => []VaultsBackAccounts`: vaults hold at least the accounted cash and collateral |
| `IdentityHolds` | `PairProofs` | `Spec => []LedgerIdentity`: `r_virtual = r_cash + r_debt` until an addition clips |
| `TotalsAreSums` | `PairProofs` | `Spec => []PositionsSumToTotals`: collateral, and debt shares until they clip |
| `DebtFreeExits` | `PairProofs` | `Spec => []DebtFreeCanExit`: no guard holds back who owes nothing |
| `LpValueKeeps` | `StepProofs` | `Spec => LpValueNeverDrops`: only a liquidation lowers `k` per squared LP token |
| `DebtUnaffected` | `StepProofs` | `Spec => OthersDebtUnaffected`: within a slot, but for the unit a write-off rounds away |
| `DebtAlwaysShared` | `StepProofs` | no debt is left without shares that owe it |
| `InsolventLosesAll` | `StepProofs` | `Spec => InsolventLosesAllValue`: what is seized is worth all the collateral |
| `DebtsAreRepayable` | `StepProofs` | `Spec => []DebtCanBeRepaid`: whoever owes can repay all, while the numbers fit |
| `OwnersStayCovered` | `StepProofs` | `Spec => OwnerLeavesPositionCovered`: `remove_collateral` and `borrow` leave the debt an LTV buffer below the limit of the factor they lock in, up to one share |
| `OthersKeepHealth` | `StepProofs` | `Spec => OthersLoansKeepHealth`: within a slot no loan, repayment or pledge of others makes a position liquidatable |
| `TradingKeeps` | `StepProofs` | `Spec => TradingKeepsValue`: within a slot collateral keeps its value but for roundings, an LP's exit and liquidations |
| `UnhealthyIsLiquidated` | `StepProofs` | `Spec => []UnhealthyCanBeLiquidated`: no guard of `liquidate` protects an unhealthy position |
| `AllOfLimitLent` | `StepProofs` | `Spec => AllOfLimitIsLent`: who asks for all gets the reported limit, up to one share |
| `SimulationHolds` | `StepProofs` | `Spec => SimulationForetells`: the simulated liquidation price is that of the loan, up to one share |
| `LiquidationPriceHolds` | `StepProofs` | `Spec => []LiquidatedBelowPrice`: below the reported price, liquidation is certain |
| `LiquidationLimitExact` | `StepProofs` | `Spec => []LiquidationLimitIsTrue`: the view's limit is `liquidate`'s test |
| `BorrowLimitSafe` | `StepProofs` | `Spec => []BorrowLimitBelowLiquidation`: nothing can be borrowed that is liquidated at once |
| `LiquidatablesReported` | `StepProofs` | `Spec => []LiquidatableIsReported`: no warning is missed |
| `QuotesHonoured` | `StepProofs` | `Spec => QuoteIsHonoured`: a swap pays what was quoted |
| `CreditOnUnmovedLiquidityHolds` | `StepProofs` | credit only while the LP supply is what it was before the transaction |
| `NoLiquidityRoundTripHolds` | `StepProofs` | no transaction both adds and removes liquidity |
| `TransactionsKeepPair` | `StepProofs` | `TxSpec => []PairInv`: transactions leave the pair sound, committed or rolled back |
| `TransactionsKeepBooks` | `StepProofs` | hence `LedgerIdentity` and `VaultsBackAccounts` inside and after them |
| `BooksAreKept` | `RefinementProofs` | `Spec => BooksKept`: the pair implements the balance sheet |
| `RatedPairImplementsPair` | `RefinementProofs` | `RatedSpec => Spec`: with its controller it implements the pair |
| `RatedPairKeepsBooks` | `RefinementProofs` | hence the balance sheet, the vaults and the identity hold with computed rates |
| `RatesFollow` | `RefinementProofs` | `RatedSpec => RatesFollowUtilization` |
| `ChargeHolds` | `RateProofs` | `Spec => []ChargeBetweenRates`: a period costs between the lower and the higher of its two rates |
| `ChargeGrows` | `RateProofs` | `Spec => []ChargeGrowsWithTime`: waiting makes nothing cheaper |
| `HalfLifeHolds` | `RateProofs` | `Spec => []HalfLifeDoubles`: a half-life above the band doubles the rate |
| `LimitsKept` | `RateProofs` | `Spec => AccrualKeepsLimits`: no accrual leaves a rate below the floor, or lifts one from within the ceiling above it |
| `PressureRaises` | `RateProofs` | under pressure every update from a slot on raises a rate whose floor grows in a slot, or finds it at its limit |
| `MarketsAreNotSplit` | `FactoryProofs` | `Spec => []OneAddressPerMarket` |
| `MarketsStayOpen` | `FactoryProofs` | `Spec => []FreeMarketsStayOpen`: nobody occupies the rate model's address of a pair to come |
| `MintsAreOwn` | `FactoryProofs` | `Spec => []OwnLpMint` |
| `ParametersAreFixed` | `FactoryProofs` | `Spec => []AddressFixesParameters` |
| `AuthorityIsTyped` | `FutarchyProofs` | `Spec => []TypeOK`: a distribution is always the whole |
| `RevenueIsConserved` | `FutarchyProofs` | `Spec => []RevenueReachesRecipients` |
| `DustIsBounded` | `FutarchyProofs` | `Spec => []SharesWithinDust` |
| `SqrtIsFloor` | `FixedPointLemmas` | Newton's iteration ends at the integer square root of every number |

**The invariant of the pair.** Types, vaults and identity are not inductive alone. `SyncEmpty`
(the end of `decrease_debt`) drops whatever debt is left once the shares are gone. That is
harmless only if the last shares always pay the last debt, which needs that no
user holds more shares than the pair records, and *that* needs that the users'
shares add up to the pair's total. The sum is the fold of the modules themselves.

`TokenInv` is the invariant of one token: the types, the identity, cash and
collateral within the vaults, and the shares' sum, the last and the identity
unless an addition clipped. Each operation on a ledger (update, credit, debit,
pledge, borrow, repay, write-off, flash-loan fee) has one lemma that it keeps
`TokenInv`. The rest of `PairProofs` composes them:

1. `Sound(l)` is `TokenInv` of both tokens with the updated ledgers `l` in place of
   the pair's. `UpdateSound`: every `l \in UpdatedPairs` is sound.
2. One lemma per instruction takes `Sound(l)` to `SoundNext`.
3. `PoolInstructionInv`, `LendingInstructionInv` and `EnvironmentInv` split `Next`
   and add the supplies, the switches and the clock.
4. `NextInv` and `InitInv` give `PairAlwaysSound`, and the next two theorems follow
   from it as state formulas.

Two invariants are proved on top of it: `PledgesInv`, that the collateral totals are
sums as well (for `TotalsAreSums`, and for `DebtFreeExits`, where the subtraction from
the total must succeed), and `SharedInv`, that a token without debt shares has no debt (for a
token's first loan, whose shares are issued for its amount alone).

**Induction and recursion.** The library states induction with an operator parameter, which
the provers cannot instantiate. `Induction` in `FixedPointLemmas` states it
for a *set* of naturals, from the well-foundedness of `<`, and `SubsetInduction` for the
subsets of a finite set. From these come the sums: `SumsExist` shows that the fold's recursion
defines something, and `SumReplaced`, `SumNat` and `PartsWithinSum` are all an
instruction needs. The square root comes the same way: `DescentExists` for the iteration as a recursive
function of its start, `NewtonAbove` and `NewtonStops` for the two sides, `SqrtIsFloor` and with it `SqrtMonotone`.

**Steps.** A step is an update, giving `l`, and an instruction on `l`. Each action property is proved
from the ledger to `l` and from `l` to the next ledger, with the invariant in both states.

* *LP value*: `add_liquidity` takes and `remove_liquidity` pays in proportion, rounded against the
  caller; `swap` tests the product itself; nothing else lowers a virtual reserve.
* *Debt of others*: one lemma for each kind of change says how debt per share moves. A
  loan's shares are rounded up and a repayment's down. A write-off rounds the other way,
  by less than a unit per position. With the factor locked, the symmetric price of the slot and unmoved reserves the
  same lemma (`DebtStep`) gives `OthersKeepHealth`.
* *Insolvency*: the curve is monotone and what `calculate_amount_in` asks for an amount does buy that amount.
* *The lower price*: `borrow`, `remove_collateral` and the warnings value collateral at the lower
  of two EMA prices, `liquidate` at the symmetric one. Virtual reserves keep the product `k`: the lower
  price makes the square root of `k / price` larger and that of `k * price` smaller, so the curve
  pays no more for any amount (`VirtualReservesByPrice`, `AmountOutByCurve`, `LowerPriceLowerValue`),
  and the pessimistic cap and the LTV buffer only take away. This one argument gives `BorrowLimitSafe`,
  `LiquidatablesReported` and `OwnersStayCovered`.
* *Trading*: no instruction writes the symmetric price and an update leaves it within the slot
  (`InstructionsKeepSymmetric`, `UpdateKeepsSymmetric`); `k` does not fall while the LP supply does not
  (`ProductKept`, from the LP value). So the point of the curve at that price only moves outwards
  (`RootBounds`, `ReservesByPrice`), and what an amount is worth there falls by roundings
  alone (`ValueWithMoreLiquidity`). A unit of the debt's virtual reserve is worth one, a unit of the
  collateral's its price: that is `RoundingWorth`, with the extra where the product leaves u128 and
  `get_virtual_reserves` divides before it multiplies (`DividedFirst`).
* *Liquidation of the unhealthy*: a position insolvent by more than a rounding loses all its collateral, so
  nothing is left to price (`AllIsSeized`). Otherwise a part may remain, and a part of what
  `pessimistic_max_debt` can price it can price, too (`PartIsPriced`).
* *The reported liquidation price*: with `x` and `y` the virtual reserves, `y / (x + 1)` is below the price, so the
  curve never pays more than the price for an amount, and every truncation on the way lowers
  what the debt is compared with, decimals included.
* *What a view said of a loan*: the debt after the loan is the loan and less than one share more, and the
  price at the limit grows with the debt (`PriceAtLimitMonotone`), which puts the price after the
  loan between the two that were simulated; the same share bounds `AllOfLimitIsLent`.

Trying to prove these showed that they hold with premises the small instances never leave:

* `PriceStepCounts`: `get_virtual_reserves` multiplies first and divides first where the product leaves
  u128. If `k` times the higher price overflows and `k` times the lower one does not, the two
  values are truncated differently, and with a reserve of the debt token below `NAD` the truncation may cost
  more than the step between the prices.
* `LowerPriceCounts`: `get_collateral_value` of the views falls back to spot reserves when
  the lower price gives no virtual reserves, and spot is not the lower of anything.
* `liquidate` accepts a position without debt whose collateral is worth nothing; the
  warning is not about those.
* `DebtFits`, and room in the vault, for `DebtCanBeRepaid`: see the list of disagreements. `LiquidationFits`
  is the same for a liquidation, with the collateral that goes to the reserve.
* `LiquidatedBelowPrice` needs `k * NAD` within u128. Beyond it `get_virtual_reserves` truncates the two
  reserves of the curve by different parts, and the curve may sit at a higher price than the EMA.
* `Priced`: with a price or a reserve truncated to nothing, collateral is valued at spot reserves or not at all, and
  a trade may bring a reserve there.
* A share is worth `total_debt / total_debt_shares` units, and `borrow` rounds the borrower's
  shares up after testing the amount. So it may leave the debt above what was tested, by one share.
  `OwnerLeavesPositionCovered`, `AllOfLimitIsLent` and `SimulationForetells` allow it (`ShareWorth`, one unit
  at the run's interest).

**The balance sheet.** `ChargeIsCharged` maps the update to the sheet's charges, with the same integrals;
one lemma per instruction (`SwapBooks`, `LiquidateBooks`, ...) maps the rest to one
operation. The invariant is needed in both states: that equity moves with cash and
debt *is* the ledger identity, and that the sheet's fees are a natural number is
`VaultsBackAccounts`. A step in which an addition clips maps to `overflowed'`.

**The pair with its controller.** `AnswersInRange`: whatever the model, time and
utilization, `calculate_rate` answers with a u64, so the pair's update is one that
`Omnipair` admits. These theorems assume `Integrals = U64`. `RatesFollow` goes
through the branches of `calculate_rate` once more, with `RateLemmas`, for the direction.

**Rate limits.** `LimitsKept` holds although exponential and logarithm are approximations:
it needs only that the program's `e^-x` is at most one and never wraps when
converted to u64 (`ExpOfMinusAtMostOne`), so that growing does not lower a rate and
decaying does not raise one, and that validated models have ordered limits
(`NewIsRateModel`).

**Charges.** Three more properties of `calculate_rate` hold for every model, rate, utilization and time, and
need to know how good the approximations are.

* *Longer costs more* (`ChargeGrows`). The program's `e^-x` falls as `x` grows (`ExpOfMinusAntitone` in `FixedPointLemmas`): each
  of the five terms and the ten multiplications is monotone while nothing overflows, and where a
  term or the tenth power leaves u128 the result is the least there is, and stays so. With it the grown
  rate rises and the decayed one falls with time, and the charge with both. What is left is the
  moment at which a rate meets its limit: what a moving rate was charged before is no more than the way
  to the limit costs (`MovingWithinLimit`), after which time at the limit is only added.
* *A half-life doubles* (`HalfLifeHolds`). `exp_rate * half_life` lies between 0.99 and 1.001 of `ln 2`. The terms of
  the tenth of it, the tenth power and the division by it are bounded in millionths of one
  (`TaylorSumOfTenthOfLnTwo`, `TenthPowerOfTwo`), which leaves a factor of two to less than five
  per cent.
* *A charge lies between two rates* (`ChargeHolds`). A moving rate's charge is the distance it moved over
  `exp_rate`, so it has to be compared with `low * time` and `high * time`: that needs
  `1 - x <= e^-x <= 1 / (1 + x)`, which the program's version keeps but for nine units lost by the division of
  the exponent by ten (`ExpOfMinusBetween`), and turns into bounds for a rate that grows or
  decays (`GrowsBetween`, `FallsBetween`). For a rate that meets its limit, the time it took comes from
  the logarithm, `1 - 1/q <= ln q <= q - 1`, which the program's integer version keeps exactly on the
  one side and up to a unit on the other (`LnNadBetween`, `TimeToReachBetween`). `RiseBetween`, `FallBetween` and
  `RestingBetween` put the paths through `calculate_rate` together. The slack of the property is what these lemmas
  lose: nine units of the exponent and one of the rate, each over the time it takes to grow to one.

The inductive invariant is `RateInv`: the pair's model is one that was created, so that its half-life is within
the limits of validation, and the time since the last update is bounded.

**The circuit breaker.** `BreakerInv` says what the instructions run so far
tell about the list: if the supply has moved, the list has a liquidity
instruction at top level, since nothing else can move it (`RequireTopLevel`); if credit
was given, it has none (`RequireNoSameTxLiquidityDelta`). The list never changes, so the
two exclude each other whichever comes first.

**Transactions.** Every step of `TxSpec` but `Abort` is a step of the pair or none (`TxStepIsStep`), and
what `Abort` restores satisfied the invariant when it was saved (`SavedSound`). So the invariant of
the pair holds in every state of every transaction.

**Exits.** Whoever owes nothing can take the collateral out (`DebtFreeExits`), and whoever owes can repay
(`DebtsAreRepayable`): of all guards of `remove_collateral` and `repay` only those about widths remain as premises.

**Addresses.** `FactoryInv` remembers of every pair the arguments that created it: its address,
parameters, mint and the rate model at its own address follow from them. And it says where a
rate model can be: at a key of governance, or at the address that belongs to a pair
that exists. Governance may point a pair elsewhere, but it never closes a model.

**Revenue.** `FutarchyInv` is types, counters, conservation and the dust bound together, since they need each
other: the three parts of a claim are naturals because the distribution is the whole,
and only then does a claim take from the pair what it pays.

**Assumptions.** Only those declared with the constants in the modules, evaluated
by TLC in each run: positive scales, `FeesAssumption` (revenue shares within
100%), `KeysAssumption` (finitely many accounts), `ModelKeysAssumption` (a key is not an
address derived from a pair), and so on; and `Integrals = U64` where a theorem says so. `MaxU64` and
`MaxU128` need not be the real ones, only wide enough for a product of two u64. The theorems
about charges use two more. `LnTwoAssumption`: `NAD` has three digits and `NATURAL_LOG_OF_TWO_NAD` is `ln 2` to three.
`RateWidthAssumption`: a u128 holds the cube of `NAD` (10^27), a year's milliseconds times a u64 (6 * 10^29), and the
exponent times `NAD`; and no rate of the shortest half-life moves for more than 165 thousand years without an
update. The program's constants meet all of it.

**Model-checked only.**

* `LiquidationsFinish` and `HighUtilizationReachesCeiling` are liveness, which the prover does not support. Of the second the
  step is proved, for all parameters (`PressureRaises`): the rate rises with every update until it is at the ceiling.
* `SplitChargesTheSame` compares one accrual with two over the same time. The five terms of the program's
  exponential fall behind `e^x` as the exponent grows (2% after nineteen half-lives, 15% after twenty-nine), and at the
  other end a rate that has become 2^n times smaller or larger has lost n digits to the resolution of `NAD`. Its slack
  is that of the run, six half-lives at a `NAD` of 1000; it is not true of every elapsed time.
* `TradingKeepsLimit` allows one unit. What collateral may borrow does rise with the liquidity that the fee of a swap
  leaves in the pool, and the factor in basis points is truncated in between; the unit is right for
  the run, which swaps without a fee.

All other properties of the passing runs are theorems.

No module declares a RECURSIVE operator.

## Disagreements between the code and its documentation

Each of these is a run that TLC must find violated; `PROJECT.json` has the quotations.

* **`slow_model` / `AccrualNeverFails`.** Validation admits half-lives up to 30 days,
  but `exp_rate` is `693_147_180 / half_life_ms` in integers: 0 from just over 8
  days on. The time to a limit is then divided by zero, and every update of the
  pair outside the band fails, and with it every instruction.
* **`orphan` / `NoOrphanedShares`.** Comments say rounding drains shares before debt. A
  partial liquidation followed by another user's repayment leaves shares without debt.
* **`runaway` / `DebtStaysRepresentable`.** Without a ceiling, which is the default, utilization
  above the band doubles the rate until the interest of one update leaves u64, and the
  update's `expect` then fails for every instruction on the pair, repayments included.

Others were met while modelling and are recorded here, with the definition
that shows them; they have no run of their own:

* The default half-life of three days gives `exp_rate` 2 (2.67 truncated): the rate
  doubles in four days, not "every 3 days" (`constants.rs:70`). `New`; the premise of `HalfLifeDoubles`.
* "Rate will not exceed this value" (`state/rate_model.rs:22`) holds for rates that move. After a
  switch to a model with a lower ceiling, utilization within the band keeps charging
  the old rate. `CalculateRate`; the premise of `AccrualKeepsLimits`.
* A rate below about 0.125% does not grow at all while the pair is updated in every
  slot, and is not charged either, whatever the utilization ("High util: exponential growth", `state/rate_model.rs:143`), and `validate` admits floors
  in that range. `Grown`; the premise `FloorGrowsInASlot` of `HighUtilizationReachesCeiling`.
* "r_virtual can't reach zero during write off" (`state/user_position.rs:169`): the fallback covers
  subtraction below zero, not to zero exactly. `WriteOff`.
* A solvent liquidation at an EMA price above spot lowers `k`, which
  `state/user_position.rs:146` excludes. `LpValueNeverDrops` therefore excepts liquidations.
* "Insolvent positions are written off against the pool" (the repository's README, line 17): a position whose
  debt has reached what is left of the token on the curve cannot be liquidated, since
  `calculate_amount_in` has no answer; nor can one that would keep collateral, when the
  total debt has reached the curve's reserve at the *pessimistic* price, because the factor of the
  remaining collateral cannot be computed (`liquidate.rs:289`). The premise of `UnhealthyCanBeLiquidated`.
* "The more conservative of the two [EMA prices] is used for borrow and liquidation limits" (the same, line 19): `liquidate` uses the
  symmetric one. `UserIsLiquidatable` uses the lower and reports positions that `liquidate`
  refuses, never the other way round: `LiquidatableIsReported`.
* "Insolvent positions are written off against the pool" (the same, line 17), once more: `calculate_debt` multiplies a
  position's shares, 10^6 for each unit of a first loan (`constants.rs:78`), by the total debt. A borrower who owes
  about 2^64 / 10^3, that is 1.8 * 10^16 units (18 million tokens of nine decimals), takes the product out of u128.
  `borrow` computes the debt before the loan only and lends it; from then on `repay`, `liquidate` and
  `remove_collateral` all fail with `DebtMathOverflow`. `DebtFits`, the premise of `DebtCanBeRepaid`.
* The reported liquidation price leaves out the price impact that `liquidate` takes
  off; it is only a price below which liquidation is certain: `LiquidatedBelowPrice`.
* An insolvent borrower may keep dust of collateral: `calculate_amount_in` asks for the least
  amount that buys what is written off, and more than that need not be worth
  anything. `InsolventLosesAllValue` therefore speaks of what the collateral is worth.
* Debt utilization (`state/user_position.rs:290`) saturates for debts above a ten-thousandth of `u64::MAX` and then
  falls as the debt grows; and it takes the LTV buffer off a factor that has lost it already (line 250).
* A floor that is not given (1%) and a floor of 0 hash alike, so only one of the two markets can exist
  (`initialize.rs:292`). The field left out in `AddressFixesParameters`.
* "rate ceiling (defaults to 500%, 0 = no cap)" (`initialize.rs:49`): it defaults to none
  (`constants.rs:53`). "defaults to 1 day" (line 47) of the half-life: three. "both must be provided
  together" of the band's two ends (line 266) is not enforced.

## Not modelled

* **The receiver of a flash loan**: the runtime refuses reentrant calls of the
  program, so the callback cannot touch the pair. What it does elsewhere is not
  the pair's; what it overpays is a donation.
* **Token programs** (`utils/token.rs`, `utils/account.rs`): modelled by their effect on the vaults' balances. Users can
  always pay what they offer and accept any slippage. The pair's mints are accounts of the
  classic token program, so a transfer arrives in full; the fee-aware helpers of `token.rs`,
  `normalize_two_values_to_*` of `math.rs` and `create_token_account` are called from nowhere.
* **Transfers of LP tokens**: only the minted supply is kept.
* **The creation fee and LP metadata of `initialize`**: payments and records without a later reader.
* **Debt utilization and plain getters among the views**; **events and error codes**: no state.
* **The faucet**: mints test tokens, keeps nothing.
* **Decoder, client, scripts, tests, audit fuzzers**: generated or test material. Some 30 thousand of
  the repository's 39 thousand lines are of this kind; the program itself has
  under 10 thousand with its tests and comments, and most of its logic is mapped.
* **Overflow of `slots_to_ms`**: it would take some 10^8 years.

## Plan

Done, in this order: the arithmetic (`FixedPoint`, `GammMath`), debt shares and the pair
(`DebtShares`, `PairState`), all instructions (`Omnipair`), the rate controller
(`RateModel`, `RateControl`), the solvency theorems and the rate limits; then transactions and the
circuit breaker (`Transactions`), liquidators (`Keepers`), the views (`Views`), the balance sheet and its
refinement (`BalanceSheet`, `Books`), the pair with its controller (`PairRates`), governance and revenue
(`Futarchy`), creation (`Factory`), and the theorems about them.

What could still be proved:

1. `TradingKeepsLimit` for every fee, with the growth of `k` and the truncation of the factor in its error term.
2. `SplitChargesTheSame` for a bounded number of half-lives, from a relative error of the exponential
   that depends on `NAD`.
