SPECIFICATION FairSpec
CONSTANTS
  N = 2
  W = 4
  Shapes <- ShortShapes
INVARIANTS
  RequestsAccounted
  NoLostNotification
  NoLostInterrupt
PROPERTIES
  ElemStable
  ImplementsChannel
  EveryRequestCollected
