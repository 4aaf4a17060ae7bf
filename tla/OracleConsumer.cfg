CONSTANTS
  A1 = A1
  A2 = A2
  A3 = A3
  P1 = P1
  M1 = M1
  I128Max = 7
  Address <- MCAddress
  Project <- MCProject
  MaxTime = 2
  ReportMethodology <- MCMethodology
  Measurement <- MCMeasurement
  Stake <- MCStake
  SignatureThreshold <- MCThreshold
  CHALLENGE_WINDOW_SECONDS = 1
  SLASH_PENALTY_PPM = 2
  PPM = 4
  DEFAULT_SIGNATURE_THRESHOLD = 1
  DEFAULT_MIN_VERIFIER_STAKE = 1
  MaxReports = 2
  MaxOracleNonce = 2
SPECIFICATION OracleSpec
SYMMETRY MCSymmetry
INVARIANTS
  ReportsNeverOverlap
  SlashedOncePerRejection
PROPERTIES
  VerifiedByQuorum
CHECK_DEADLOCK FALSE
