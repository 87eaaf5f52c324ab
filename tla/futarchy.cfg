SPECIFICATION Spec
CONSTANTS
  deployer = deployer
  emergency = emergency
  NoKey = NoKey
  Keep = Keep
  Keys = {deployer, emergency}
  UpgradeAuthority = deployer
  REDUCE_ONLY_EMERGENCY_AUTHORITY = emergency
  Pairs = {1, 2}
  Bps = {2500, 10001}
  Distributions <- MCDistributions
  Amounts = {7}
  MaxEarned = 5
  MaxClaims = 2
INVARIANTS
  TypeOK
  RevenueReachesRecipients
  SharesWithinDust
