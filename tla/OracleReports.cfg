SPECIFICATION Spec
CONSTANTS
  M1 = M1
  M2 = M2
  S1 = S1
  Spelling = {S1}
  KeyOf <- MCKeyOf
  Dto <- MCDto
  Writer = {w1}
  Reader = {r1}
  NoManifest = NoManifest
  NoEvidence = NoEvidence
  Undefined = Undefined
  ReportTtl = 1
  MaxTrouble = 1
  DaySeconds = 2
  Milli = 10
  MsFrom = 7
  ByteBase = 4
  TextBase = 3
  DigestLength = 1
  CIDV0_PREFIX <- MCPrefix
  CidV1 = 1
  I128Max = 7
  Address = {a1, p1}
  Project = {k1}
  MaxTime = 2
  ReportMethodology = {M1, M2}
  Measurement = {}
  Stake = {}
  SignatureThreshold = {}
  CHALLENGE_WINDOW_SECONDS = 1
  SLASH_PENALTY_PPM = 2
  PPM = 4
  DEFAULT_SIGNATURE_THRESHOLD = 1
  DEFAULT_MIN_VERIFIER_STAKE = 1
  MaxReports = 2
  MaxOracleNonce = 2
  Client = {"axios", "file"}
  Item <- MCItem
  Site <- MCSite
  Season <- MCSeason
  Null = Null
  NdviOne = 4
  MaxCloudCover = 30
  SymbolicName <- MCSymbolic
  KG_CO2E_PER_HA_PER_PPM = 2
  BiomassFactor = 3
  StockFactor = 2
  MaxItems = 3
  Feed = {f1, f2}
  Words <- MCWords
  Amount = {4, 5}
  Interval = {1}
  MaxListed = 4
INVARIANTS
  AnchoredAsSigned
  CarbonIgnoresArrivalOrder
  SignedReportsAreAccepted
  LoneDissenterIsNamed
PROPERTIES
  DisputesBlockCoupons
SYMMETRY MCSymmetry
CHECK_DEADLOCK FALSE
