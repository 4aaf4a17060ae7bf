SPECIFICATION RequestSpec
CONSTANTS
  T1 = T1
  T2 = T2
  R1 = R1
  R2 = R2
  R3 = R3
  J1 = J1
  J2 = J2
  Nobody = Nobody
  Tab = {T1, T2}
  Account = {A1}
  Admin = A1
  Target = {"bond1"}
  Limit = 1
  Window = 1
  ChallengeTtl = 1
  IntentLife = 1
  NonceMargin = 1
  MaxChallenges = 2
  MaxIntents = 1
  MaxAdmFaults = 1
  NoOne = NoOne
  Request = {R1, R2, R3}
  Key = {"k1"}
  Payload = {"p1", "p2"}
  Faults = {"crash", "reply", "redis"}
  MaxFaults = 2
  Job = {J1, J2}
  Applicant = {"a"}
  Assigned = {"VERIFIED", "REJECTED"}
  ExpiresAt = {0, 2}
  CacheTtl = 1
  KycFaults = {"redis", "disk", "crash"}
  MaxKycFaults = 1
  MaxKycTime = 2
  MaxChanges = 2
INVARIANTS
  OneSessionPerChallenge
  IntentsActOnce
  BurstIsBounded
  ReplaysAreFaithful
  AnsweredChangesSurvive
  RefusalIsHonoured
PROPERTY
  RunsOnce
CHECK_DEADLOCK FALSE
