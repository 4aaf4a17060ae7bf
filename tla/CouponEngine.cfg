CONSTANTS
  A1 = A1
  A2 = A2
  P1 = P1
  M1 = M1
  CouponType = "Basket"
  I128Max = 60
  Address <- MCAddress
  Project <- MCProject
  Configs <- MCConfigs
  Registry <- MCRegistry
  Amount <- MCAmount
  MAX_SUPPLY = 3
  MaxBonds = 1
  MaxNonce = 2
  MaxTime = 0
  ReportMethodology <- MCMethodology
  Measurement <- MCMeasurement
  Stake <- MCStake
  SignatureThreshold <- MCThreshold
  CHALLENGE_WINDOW_SECONDS = 1
  SLASH_PENALTY_PPM = 1
  PPM = 10
  DEFAULT_SIGNATURE_THRESHOLD = 1
  DEFAULT_MIN_VERIFIER_STAKE = 1
  MaxReports = 1
  MaxOracleNonce = 3
  HolderList <- MCHolderList
  FIXED_POINT = 4
  CREDIT_DIVISOR = 1
  CREDIT_MINOR_UNITS = 1
  HABITAT_CREDIT_RATE = 2
  SPECIES_CREDIT_RATE = 1
  UNIT_CREDIT_RATE = 2
  MAX_COUPON_BATCH_SIZE = 2
  MaxPeriods = 2
  MaxCouponNonce = 3
  Retirable <- MCRetirable
  MaxRetireNonce = 2
SPECIFICATION SeasonSpec
INVARIANTS
  LedgersAgree
  RetirementsAreBacked
PROPERTIES
  OneBatchNeverOverpays
CHECK_DEADLOCK FALSE
