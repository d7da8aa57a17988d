SPECIFICATION FairSpec
CONSTANTS
  main = main
  compiler = compiler
  m1 = m1
  m2 = m2
  m3 = m3
  None = None
  Main = main
  Others = {compiler, m1, m2, m3}
INVARIANTS
  OwnReply
PROPERTIES
  TransactionsEnd
