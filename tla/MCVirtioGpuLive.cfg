SPECIFICATION GpuFairSpec
CONSTANTS
  s1 = s1
  s2 = s2
  s3 = s3
  Request <- TwoSlots
  N = 5
  R = 1
  C = 1
  F = 4
  NoSlot = NoSlot
PROPERTIES
  CallsReturn
  CompletionsCollected
VIEW LiveGpu
