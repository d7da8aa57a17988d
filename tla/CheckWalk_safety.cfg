SPECIFICATION Spec
CONSTANTS
  a = a
  b = b
  Nodes = {a, b}
  Deps <- MCDeps
  Order <- MCOrder
  Fixable = {a}
  Reopt = {}
  Scanned = {b}
  None = None
INVARIANTS
  OkMeansGood
PROPERTIES
  ChecksKeepMarks
