SPECIFICATION FairSpec
CONSTANTS
  c1 = c1
  NoCaller = NoCaller
  Callers = {c1}
  Streams <- MCStreams
  MaxEntries = 3
  MaxFrames = 2
  RingSize = 4
  MaxDelay = 1
INVARIANTS
  TypeOK
  WorkAccounting
  SoundStaysWithItsWork
  NeverBroken
PROPERTIES
  GivenBackOnce
  FlushGivesAllBack
  EosLeavesNothing
  ComesToRest
