SPECIFICATION Spec
CONSTANTS
  a = a
  b = b
  c = c
  Nodes = {a, b, c}
  Deps <- MCDeps
  Order <- MCOrder
  Fixable = {a, b, c}
  Reopt = {}
  FixState = FALSE
  Target = c
  Budget <- BudgetNone
  LossyTable = FALSE
  Others = FALSE
INVARIANT
  NoTrialTrusted
