CONSTANTS
  I128Max = 1
  S1 = S1
  S2 = S2
  U1 = U1
  H0 = H0
  H1 = H1
  Gov = Gov
  RegistryAddr = RegistryAddr
  Caller <- MCSigner
  Signer <- MCSigner
  Account <- MCAccount
  Call <- MCCall
  Hash <- MCHash
  ZeroHash = H0
  Threshold = 2
  Timelock = 1
  MaxProposals = 2
  MaxGovNonce = 4
  MaxGovTime = 1
  MAX_DOCUMENTS = 1
  MaxProjects = 1
  MaxRegistryNonce = 2
SPECIFICATION GovernedSpec
SYMMETRY MCSymmetry
INVARIANTS
  QuorumApproved
  
PROPERTIES
  ReviewsAreGoverned
CHECK_DEADLOCK FALSE
