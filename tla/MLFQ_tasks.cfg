CONSTANTS
  c1 = c1
  c2 = c2
  CPU <- TwoCPUs
  MaxTasks = 2
  Lengths = {0, 3}
  Quantum = 2
  Allot = 1
  HeapNsec = {"zero"}
  Types <- TwoTypes
  TypeOf <- ByParity
  Spurious = TRUE
SPECIFICATION Spec
SYMMETRY CpuSymmetry
INVARIANTS TypeOK OnePlace OwnsLocks AllReported PermitBound ScanStable
PROPERTY LifeSpec
