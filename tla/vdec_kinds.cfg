SPECIFICATION Spec
CONSTANTS
  c1 = c1
  NoCaller = NoCaller
  Callers = {c1}
  MaxWorks = 2
  Kinds = {"data", "csd", "emptyCsd", "empty", "emptyEos"}
  InitResults = {"ok"}
  SentLimit = 1
  MaxRare = 0
  MaxTasks = 1
INVARIANTS
  Order
  EosIsLast
