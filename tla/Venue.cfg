SPECIFICATION MCSpec
CONSTANTS
  Peers = {p, q}
  Headers <- MCHeaders
  Anchor = "anchor"
  Parent <- MCParent
  Difficulty <- MCDifficulty
  Suppliers <- MCSuppliers
  Honest = "node"
  Chain <- MCChain
  Depth = 1
  Budget = 1
  SideQuota = 3
  SideHeights = 1
  MaxProtected = 2
  MaxFailures = 2
  MaxCrashes = 1
  SizeT = 1
  SizeM = 2
  SizeU = 2
  Periods <- MCPeriods
  MaxProofFaults = 2
  MaxStops = 1
  MaxHeight = 3
  Period = 2
  KeptTries = 2
  MaxFaults = 2
INVARIANTS
  RowsReproduce
  WitnessesHeaviest
  ProvingSound
  LeavesSpan
  FoldsSound
PROPERTIES
  ViewReachesHeaviest
  FoldMadeInPart
  FoldReachesTopInPart
CHECK_DEADLOCK FALSE
