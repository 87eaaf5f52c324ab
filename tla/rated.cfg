SPECIFICATION MCSpec
CONSTANTS
  MaxU64 = 32767
  MaxU128 = 1073741823
  NAD = 1000
  NATURAL_LOG_OF_TWO_NAD = 693
  TARGET_MS_PER_SLOT = 43
  MILLISECONDS_PER_YEAR = 43000
  MIN_RATE_HALF_LIFE_MS = 4
  MAX_RATE_HALF_LIFE_MS = 2592
  MIN_LIQUIDITY = 2
  DEBT_SHARE_SCALE = 10
  HalfLifeMs = 86
  DIRECTIONAL_EMA_HALF_LIFE_MS = 43
  InterestBps = 10000
  Inputs <- MCInputs
  Bootstrap <- MCBootstrap
  SwapFeeBps = 100
  SwapShareBps = 1000
  BuybacksBps = 3000
  TeamBps = 2000
  FixedCfBps = 0
  NumUsers = 1
  Integrals = {0, 1, 2}
  MaxSlot = 3
  Models <- MCModels
  MinRates = {0, 500}
  MaxRates = {0, 3000}
  MaxSteps = 6
  Reserve = 100
  SwapIn = {20}
  Collateral0 = {80}
  Debt1 = {15}
PROPERTIES
  ImplementsPair
  RatesFollowUtilization
