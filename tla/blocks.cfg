SPECIFICATION OrderlySpec
CONSTANTS
  Streams <- MCStreams
  Buffers = {1, 2, 3}
  Smooth = 1
  MaxBufNum = 3
  DefaultBlocks = 2
  MaxInfos = 4
  MaxPosted = 3
INVARIANTS
  TypeOK
  EnoughBlocks
  HeldIsCurrent
CHECK_DEADLOCK FALSE
