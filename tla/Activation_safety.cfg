SPECIFICATION Spec
CONSTANTS
  t1 = t1
  t2 = t2
  k1 = k1
  k2 = k2
  k3 = k3
  h1 = h1
  h2 = h2
  h3 = h3
  None = None
  Kernel <- KernelDef
  Host <- HostDef
  Attached <- AttachedDef
  Threads <- TwoThreads
  Fragile <- AllNodes
INVARIANTS
  OneSetUp
  IdleMeansClean
  SetupHoldsWhenCalm
  HostReadyWhenCalm
SYMMETRY Symmetry
