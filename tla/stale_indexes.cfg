SPECIFICATION Spec
CONSTANTS
  c1 = c1
  NoCaller = NoCaller
  Callers = {c1}
  MaxEntries = 2
  Kinds = {"data"}
  MaxIndexes = 1
  MaxRare = 0
PROPERTIES
  FinishFindsItsWork
