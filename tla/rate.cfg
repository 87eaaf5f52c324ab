SPECIFICATION FairSpec
CONSTANTS
  MaxU64 = 32767
  MaxU128 = 1073741823
  NAD = 1000
  NATURAL_LOG_OF_TWO_NAD = 693
  TARGET_MS_PER_SLOT = 43
  MILLISECONDS_PER_YEAR = 200
  MIN_RATE_HALF_LIFE_MS = 4
  MAX_RATE_HALF_LIFE_MS = 2592
  Models <- MCModels
  HalfLives = {43, 86}
  MinRates = {0, 20, 30, 100}
  MaxRates = {0, 1000}
  InitialRates = {200}
  Utils = {0, 400, 900}
  MaxElapsed = 258
  MaxRate = 300
INVARIANTS
  ChargeBetweenRates
  ChargeGrowsWithTime
  SplitChargesTheSame
  HalfLifeDoubles
PROPERTIES
  AccrualKeepsLimits
  HighUtilizationReachesCeiling
