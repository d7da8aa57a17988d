SPECIFICATION FairSpec
CONSTANTS
  a = a
  c = c
  Nodes = {a, c}
  Order <- MCOrder
  Fixable = {a}
  Zero = {c}
  MaxRecalibrations = 2
INVARIANTS
  SettlesAfterFix
  ForcedBeforeScience
PROPERTIES
  NoStaleScience
  NoEscapeLoop
CHECK_DEADLOCK FALSE
