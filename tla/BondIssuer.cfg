CONSTANTS
  A1 = A1
  A2 = A2
  P1 = P1
  I128Max = 7
  Address <- MCAddress
  Project <- MCProject
  Configs <- MCConfigs
  Registry <- MCRegistry
  Amount <- MCAmount
  MAX_SUPPLY = 3
  MaxBonds = 1
  MaxNonce = 4
  MaxTime = 1
SPECIFICATION Spec
INVARIANTS
  SupplyConserved
  NeverOversubscribed
PROPERTIES
  FrozenAtMaturity
  
