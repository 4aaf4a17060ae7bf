CONSTANTS
  A1 = A1
  A2 = A2
  P1 = P1
  USDC = USDC
  I128Max = 2
  Address <- MCAddress
  Project <- MCProject
  Configs <- MCConfigs
  Registry <- MCRegistry
  Amount <- MCAmount
  MAX_SUPPLY = 2
  MaxBonds = 1
  MaxNonce = 3
  MaxTime = 1
  Asset <- MCAsset
  Price <- MCPrice
  Lifetime <- MCLifetime
  Limit <- MCLimit
  MAX_CLEAN_BATCH = 1
  MaxOrders = 2
SPECIFICATION MarketSpec
INVARIANTS
  EscrowMatchesOrders
PROPERTIES
  DeliveryAgainstPayment
CHECK_DEADLOCK FALSE
