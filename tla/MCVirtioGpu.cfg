SPECIFICATION GpuSpec
CONSTANTS
  s1 = s1
  s2 = s2
  s3 = s3
  Request <- ThreeSlots
  N = 7
  R = 3
  C = 1
  F = 5
  NoSlot = NoSlot
INVARIANTS
  ReplyIsOwn
  SlotsReturned
  CommandsAccepted
  FencesCounted
  BlocksOnlyOnDevice
PROPERTIES
  FencesInOrder
VIEW LiveGpu
CONSTRAINT Moderate
SYMMETRY SlotSymmetry
