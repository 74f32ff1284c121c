SPECIFICATION FairSpec
CONSTANTS
  c1 = c1
  NoCaller = NoCaller
  Callers = {c1}
  MaxEntries = 2
  Kinds = {"data", "csd", "eos", "emptyEos", "drain"}
  MaxIndexes = 1
  MaxRare = 1
PROPERTIES
  QuietWhenStopped
  QueuedIsTaken
