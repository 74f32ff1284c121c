SPECIFICATION FairSpec
CONSTANTS
  c1 = c1
  c2 = c2
  Callers = {c1, c2}
  Streams <- MCStreams
  MaxEntries = 3
INVARIANTS
  TypeOK
  WorkAccounting
  InOrder
  EosFlagged
  SyncServed
  CsdFirst
  NeverBroken
  LevelCovers
  EncoderGetsLegal
PROPERTIES
  GivenBackOnce
  LostOnlyWithReason
  StopReturns
