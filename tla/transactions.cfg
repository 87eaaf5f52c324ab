SPECIFICATION MCSpec
CONSTANTS
  MaxU64 = 40
  MaxU128 = 2000
  NAD = 20
  NATURAL_LOG_OF_TWO_NAD = 14
  TARGET_MS_PER_SLOT = 3000
  MIN_LIQUIDITY = 2
  DEBT_SHARE_SCALE = 3
  HalfLifeMs = 6000
  DIRECTIONAL_EMA_HALF_LIFE_MS = 3000
  InterestBps = 5000
  Inputs <- MCInputs
  Bootstrap <- MCBootstrap
  SwapShareBps = 1000
  BuybacksBps = 3000
  TeamBps = 2000
  FixedCfBps = 8000
  NumUsers = 1
  Integrals = {0, 8, 40}
  MaxSlot = 1
  SwapFeeBps = 100
  MaxSteps = 5
  Reserve = 25
  TopLevel <- MCTopLevel
  MaxLength = 2
  Names = {"add_liquidity", "remove_liquidity", "borrow", "remove_collateral", "swap"}
INVARIANTS
  CreditOnUnmovedLiquidity
  NoLiquidityRoundTrip
  LedgerIdentity
