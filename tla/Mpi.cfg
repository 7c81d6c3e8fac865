CONSTANTS
  Racers = 7
  Processes = 3
  Tourists = 4
  ArrayLength = 6
  Values = {0, 1, 2}
  VectorLength = 7
  EvenOrder = 6
  UnevenOrder = 7
SPECIFICATION FairSpec
INVARIANTS
  TypeOK
  BatonKept
  BothTimed
  SecondRight
  IndexRight
  ProductRight
  Delivered
PROPERTY Ends
