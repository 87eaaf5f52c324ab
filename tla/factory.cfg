SPECIFICATION Spec
CHECK_DEADLOCK FALSE
CONSTANTS
  MaxU64 = 32767
  MaxU128 = 1073741823
  NAD = 1000
  NATURAL_LOG_OF_TWO_NAD = 693
  TARGET_MS_PER_SLOT = 43
  MILLISECONDS_PER_YEAR = 200
  MIN_RATE_HALF_LIFE_MS = 4
  MAX_RATE_HALF_LIFE_MS = 2592
  DEFAULT_RATE_HALF_LIFE_MS = 86
  MIN_HALF_LIFE_MS = 60
  MAX_HALF_LIFE_MS = 720
  NotGiven = NotGiven
  Outsider = Outsider
  Tokens = {1, 2}
  m1 = m1
  m2 = m2
  m3 = m3
  k1 = k1
  Mints = {m1, m2, m3}
  ModelKeys = {k1}
  Offers <- MCOffers
  ModelOffers <- MCModelOffers
  FixedCfs = {NotGiven, 0, 8500}
  MinRates = {NotGiven, 300}
  MaxRates = {NotGiven, 1000}
  InitialRates = {NotGiven, 400}
  MaxPairs = 2
INVARIANTS
  OneAddressPerMarket
  FreeMarketsStayOpen
  OwnLpMint
  AddressFixesParameters
