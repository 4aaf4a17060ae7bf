SPECIFICATION ServicesSpec
CONSTANTS
  r1 = r1
  r2 = r2
  w1 = w1
  w2 = w2
  Request = {r1, r2}
  Caller = {w1, w2}
  Seller = w1
  Owner = w2
  Ttl <- MCTtl
  AccountTtl = 1
  TxLife = 1
  Scene <- MCScene
  MaxAmount = 2
  MaxVersions = 2
  MaxTx = 2
  MaxAge = 3
  u1 = u1
  u2 = u2
  Uploader = {u1, u2}
  ByteBase = 4
  TextBase = 3
  DigestLength = 2
  CIDV0_PREFIX <- MCPrefix
  CidV1 = 1
  File <- MCFile
  Batch <- MCBatch
  MaxFileBytes = 2
  ScanEnabled = TRUE
  Boundary <- MCBoundary
  MaxFaults = 1
INVARIANTS
  
  
  
  DocumentsAreKept
SYMMETRY MCSymmetry
CHECK_DEADLOCK FALSE
