SPECIFICATION Spec
CONSTANTS
  a = a
  b = b
  c = c
  Nodes = {a, b, c}
  Deps <- MCDeps
  Order <- MCOrder
  Fixable = {a, c}
  Reopt = {a}
  FixState = FALSE
  Target = c
  Budget <- BudgetAll
  LossyTable = FALSE
  Others = FALSE
INVARIANTS
  TypeOK
  MostBasicFirst
  DoneMeansSettled
  ForceHonoured
  SuspicionHasCause
PROPERTIES
  OnlyFixClears
  KeepsContract
