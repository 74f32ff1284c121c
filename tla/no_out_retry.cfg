SPECIFICATION FairSpec
CONSTANTS
  c1 = c1
  NoCaller = NoCaller
  Callers = {c1}
  MaxWorks = 1
  Kinds = {"data"}
  InitResults = {"ok"}
  SentLimit = 1
  MaxRare = 0
  MaxTasks = 0
PROPERTIES
  NoOutRetried
