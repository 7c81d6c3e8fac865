CONSTANTS
  Racers = 7
  Processes = 3
  Tourists = 4
  ArrayLength = 7
  Values = {0, 1, 2}
  VectorLength = 7
  EvenOrder = 6
  UnevenOrder = 7
SPECIFICATION Spec
INVARIANT ResultsDocumented
