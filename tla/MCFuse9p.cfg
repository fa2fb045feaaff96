CONSTANTS
  Qid <- ThreeFiles
  root_qid = 2
  NoQid = 0
  MaxFid = 7
  MaxLookup = 2
  MaxOpen = 2
  MaxLost = 1
SPECIFICATION Spec
INVARIANTS
  LookupsCounted
  FidsAccounted
  ServedFromOwnFile
PROPERTIES
  NodeStableInUse
