SPECIFICATION Spec
CONSTANTS
  a = a
  b = b
  c = c
  NoThread = NoThread
  Threads = {t1, t2}
  Classes = {a, b, c}
  Needs <- MCNeeds
  Clients <- MCClients
  MaxObjects = 4
  MaxTrees = 2
INVARIANTS
  WalksInOrder
  TreesApart
  OneForAll
  ScopeClosed
SYMMETRY
  BothThreads
