SPECIFICATION InputFairSpec
CONSTANTS
  N = 2
  W = 4
  K = 4
  Shapes <- OneBuffer
INVARIANTS
  BufferOfDescriptor
PROPERTIES
  EventsInOrder
  BuffersReturn
VIEW LiveInput
