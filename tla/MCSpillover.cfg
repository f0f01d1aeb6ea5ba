CONSTANTS
  PodCount = 3
  PodWidth = 1
  CoresPerSpine = 1
  HostsPerLeaf = 2
  NoAddr = NoAddr
  None = None
  VIP = {1, 2, 3}
  Placement <- MCPlacement
  Gateways <- MCGateways
  PerFlowGateways = FALSE
  Flows <- MCFlowsPod
  Slot = {0, 1}
  Index <- MCIndexPod
  CacheApp = "SwitchV2P"
  SourceLearning = FALSE
  AccessBit = TRUE
  BloomFilter = FALSE
  GenerateInvalidation = TRUE
  LearningDraws = {TRUE, FALSE}
  Migrated = None
  NewHost <- MCNewHost
  MaxSends = 5
  MaxInFlight = 1
  Lossy = FALSE
SPECIFICATION Spec
INVARIANTS PromotesUntagged
PROPERTIES InUseNotDisplaced
