SPECIFICATION FairSpec
CONSTANTS
  NaN = NaN
  None = None
  Low <- MCLow
  High <- MCHigh
  NumPoints <- Twice
  Stages <- Twice
  ZoomFactor = 2
  Strategy = "max"
  Numbers = {0, 1}
  Data = {0, 1}
  Candidates <- Corners
  Starts <- MCStarts
  MaxPoints = 3
  Kinds <- MCKinds
INVARIANTS
  PersistsBest
  ZoomAgrees
  InRange
  GoodOrUnmoved
  EachPointOnce
PROPERTIES
  SweepEnds
