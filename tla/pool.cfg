SPECIFICATION MCSpec
CONSTANTS
  MaxU64 = 32767
  MaxU128 = 1073741823
  NAD = 1000
  NATURAL_LOG_OF_TWO_NAD = 693
  TARGET_MS_PER_SLOT = 3000
  MIN_LIQUIDITY = 2
  DEBT_SHARE_SCALE = 10
  HalfLifeMs = 6000
  DIRECTIONAL_EMA_HALF_LIFE_MS = 3000
  InterestBps = 5000
  Inputs <- MCInputs
  Bootstrap <- MCBootstrap
  SwapShareBps = 1000
  BuybacksBps = 3000
  TeamBps = 2000
  FixedCfBps = 0
  NumUsers = 2
  Integrals = {0, 200}
  MaxSlot = 1
  SwapFeeBps = 30
  MaxSteps = 6
  Reserve = 20
  SwapIn = {5}
  Deposit = {5}
  Burn = {3}
  Collateral0 = {10}
  Debt1 = {3}
  Loan = {7}
  Gift = {2}
  Switch = {TRUE, FALSE}
INVARIANTS
  VaultsBackAccounts
  DebtFreeCanExit
  DebtCanBeRepaid
PROPERTIES
  LpValueNeverDrops
  BooksKept
