CONSTANTS
  c1 = c1
  c2 = c2
  CPU <- TwoCPUs
  MaxTasks = 1
  Lengths <- OddLengths
  Quantum = 2
  Allot = 1
  HeapNsec = {"zero"}
  Types <- TwoTypes
  TypeOf <- ByParity
  Spurious = FALSE
SPECIFICATION FairSpec
INVARIANT ReadyHasWork
PROPERTIES BoostEnds DispatchEnds
