SPECIFICATION FairSpec
CONSTANTS
  s = s
  t = t
  Callers = {s, t}
  Worker = Worker
  Keys = {"main", "check", "fix"}
INVARIANTS
  SeedOrder
PROPERTIES
  GetReturns
  JoinReturns
