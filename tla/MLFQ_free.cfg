CONSTANTS
  c1 = c1
  c2 = c2
  CPU <- OneCPU
  MaxTasks = 2
  Lengths = {3}
  Quantum = 2
  Allot = 1
  HeapNsec = {"zero"}
  Types <- TwoTypes
  TypeOf <- ByParity
  Spurious = FALSE
SPECIFICATION Spec
INVARIANT NoUseAfterFree
