SPECIFICATION Spec
CONSTANTS
  a = a
  b = b
  c = c
  Nodes = {a, c}
  Deps <- PairDeps
  Order <- PairOrder
  Fixable = {c}
  Reopt = {}
  FixState = FALSE
  Target = c
  Budget <- BudgetNone
  LossyTable = FALSE
  Others = TRUE
INVARIANTS
  ForcedWalkRefixes
PROPERTIES
  KeepsContract
