SPECIFICATION FairSpec
CONSTANTS
  m1 = m1
  m2 = m2
  m3 = m3
  w1 = w1
  w2 = w2
  NoMonitor = NoMonitor
  Monitors = {m1, m2, m3}
  Executor = {w1, w2}
  Hung = {m1}
INVARIANTS
  OneCheckAtATime
PROPERTIES
  EveryMonitorProbed
  StopReturns
CHECK_DEADLOCK FALSE
