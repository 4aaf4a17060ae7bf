CONSTANTS
  A1 = A1
  A2 = A2
  T1 = T1
  T2 = T2
  NoOne = NoOne
  Address <- MCAddress
  Task <- MCTask
  EarlierFile <- MCEarlierFile
  MaxRequests = 2
  MaxMoves = 1
  MaxRestarts = 1
SYMMETRY MCSymmetry
SPECIFICATION HolderSpec
INVARIANTS
  RecordedIsRemembered
  CouponPaysItsHolders
CHECK_DEADLOCK FALSE
