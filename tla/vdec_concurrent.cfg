SPECIFICATION Spec
CONSTANTS
  c1 = c1
  c2 = c2
  NoCaller = NoCaller
  Callers = {c1, c2}
  MaxWorks = 1
  Kinds = {"data", "decodeOnly", "eos"}
  InitResults = {"ok", "fail", "noProfile"}
  SentLimit = 1
  MaxRare = 1
  MaxTasks = 0
SYMMETRY CallerSymmetry
INVARIANTS
  TypeOK
  WorkAccounting
  StoppedIsEmpty
  StopEventLive
PROPERTIES
  GivenBackOnce
CHECK_DEADLOCK FALSE
