SPECIFICATION MCSpec
CONSTANTS
  MaxU64 = 32767
  MaxU128 = 1073741823
  NAD = 1000
  NATURAL_LOG_OF_TWO_NAD = 693
  TARGET_MS_PER_SLOT = 3000
  MIN_LIQUIDITY = 2
  DEBT_SHARE_SCALE = 10
  HalfLifeMs = 6000
  DIRECTIONAL_EMA_HALF_LIFE_MS = 3000
  InterestBps = 5000
  Inputs <- MCInputs
  Bootstrap <- MCBootstrap
  DecimalScale <- MCDecimalScale
  SwapShareBps = 1000
  BuybacksBps = 3000
  TeamBps = 2000
  FixedCfBps = 0
  NumUsers = 2
  Integrals = {0, 200}
  MaxSlot = 2
  SwapFeeBps = 0
  MaxSteps = 5
  Reserve = 20
  SwapIn0 = {1, 6}
  SwapIn1 = {1, 5}
  Collateral0 = {10, 120}
  Debt1 = {1}
INVARIANTS
  LiquidationLimitIsTrue
  BorrowLimitBelowLiquidation
  LiquidatableIsReported
  LiquidatedBelowPrice
  UnhealthyCanBeLiquidated
PROPERTIES
  TradingKeepsValue
  TradingKeepsLimit
  AllOfLimitIsLent
