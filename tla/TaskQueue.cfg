CONSTANTS
  p1 = p1
  p2 = p2
  p3 = p3
  p4 = p4
  n1 = n1
  n2 = n2
  n3 = n3
  n4 = n4
  Null = Null
  Thread <- FourThreads
  Node <- FourNodes
SPECIFICATION Spec
SYMMETRY Sym
INVARIANTS TypeOK ListSound
PROPERTY FifoSpec
