SPECIFICATION MCSpec
CONSTANTS
  N = 4
  W = 8
  Calls = 3
  Shapes <- LongShapes
INVARIANTS
  DescriptorsAccounted
  ChainsIntact
  CallsApart
VIEW LiveCall
