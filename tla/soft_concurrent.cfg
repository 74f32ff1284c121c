SPECIFICATION Spec
CONSTANTS
  c1 = c1
  c2 = c2
  NoCaller = NoCaller
  Callers = {c1, c2}
  MaxEntries = 2
  Kinds = {"data", "eos"}
  MaxIndexes = 1
  MaxRare = 1
SYMMETRY CallerSymmetry
INVARIANTS
  TypeOK
  WorkAccounting
PROPERTIES
  GivenBackOnce
  FlushGivesAllBack
