SPECIFICATION FairSpec
CONSTANTS
  a = a
  b = b
  c = c
  Nodes = {a, c}
  Deps <- PairDeps
  Order <- PairOrder
  Fixable = {a, c}
  Reopt = {a}
  FixState = FALSE
  Target = c
  Budget <- BudgetNone
  LossyTable = FALSE
  Others = FALSE
PROPERTIES
  KeepsYielding
  WalkEnds
