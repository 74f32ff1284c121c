SPECIFICATION Spec
CONSTANTS
  c1 = c1
  c2 = c2
  NoCaller = NoCaller
  Callers = {c1, c2}
  MaxWorks = 1
  Kinds = {"data"}
  InitResults = {"ok"}
  SentLimit = 1
  MaxRare = 0
  MaxTasks = 0
INVARIANTS
  OneResetAtATime
