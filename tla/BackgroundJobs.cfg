SPECIFICATION JobsSpec
CONSTANTS
  A1 = A1
  A2 = A2
  P1 = P1
  USDC = USDC
  R1 = R1
  R2 = R2
  I128Max = 3
  Address <- MCAddress
  Project = {P1}
  Configs <- MCConfigs
  Registry <- MCRegistry
  Amount <- MCAmount
  MAX_SUPPLY = 3
  MaxBonds = 1
  MaxNonce = 3
  MaxTime = 1
  Asset = {USDC}
  Price <- MCPrice
  Lifetime <- MCLifetime
  Limit <- MCLimit
  MAX_CLEAN_BATCH = 2
  MaxOrders = 3
  Runner = {R1, R2}
  BatchSize = 1
  MaxBatches = 2
  Faults = {"redis", "reply", "rejected"}
  MaxFaults = 2
  TradeId = {1}
  MaxBalances = 3
  IndexTtl = 2
  ViewTtl = 1
  p1 = p1
  v1 = v1
  Watched = {p1}
  Provider = {v1}
  ReportsBy <- MCReportsBy
  Replica = {R1, R2}
  DefaultCadence = 1
  SatelliteCadence = 1
  IotCadence = 1
  Grace = 1
  RawThresholds <- MCRaw
  DefaultThreshold = 3
  MaxRows = 2
  MaxLost = 1
INVARIANT
  EscalationIsEarned
PROPERTIES
  
  
  EscalationIsDelivered
CHECK_DEADLOCK FALSE
