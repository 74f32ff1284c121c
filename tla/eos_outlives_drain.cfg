SPECIFICATION Spec
CONSTANTS
  c1 = c1
  NoCaller = NoCaller
  Callers = {c1}
  MaxWorks = 2
  Kinds = {"data", "eos"}
  InitResults = {"ok"}
  SentLimit = 1
  MaxRare = 0
  MaxTasks = 0
INVARIANTS
  EosOnlyInDrain
