CONSTANTS
  PodCount = 3
  PodWidth = 1
  CoresPerSpine = 1
  HostsPerLeaf = 2
  NoAddr = NoAddr
  None = None
  VIP = {1, 2, 3}
  Placement <- MCPlacement
  Gateways <- MCGateways
  PerFlowGateways = FALSE
  Flows <- MCFlows
  Slot = {0}
  Index <- MCIndex
  CacheApp = "SwitchV2P"
  SourceLearning = TRUE
  AccessBit = TRUE
  BloomFilter = TRUE
  GenerateInvalidation = TRUE
  LearningDraws = {TRUE}
  Migrated = 2
  NewHost <- MCNewHost
  MaxSends = 2
  MaxInFlight = 2
  Lossy = FALSE
SPECIFICATION Spec
INVARIANTS TypeOK CacheSound TransitSound StrayGoesHome NoSecondTag AtMostOneStray
PROPERTIES FreshNeverInvalidated
