CONSTANTS
  PodCount = 3
  PodWidth = 1
  CoresPerSpine = 1
  HostsPerLeaf = 2
  NoAddr = NoAddr
  None = None
  VIP = {1, 2, 3}
  Placement <- MCPlacement
  Gateways <- MCGateways
  PerFlowGateways = FALSE
  Flows <- MCFlows
  Slot = {0}
  Index <- MCIndex
  CacheApp = "SwitchV2P"
  SourceLearning = TRUE
  AccessBit = TRUE
  BloomFilter = FALSE
  GenerateInvalidation = TRUE
  LearningDraws = {TRUE, FALSE}
  Migrated = 2
  NewHost <- MCNewHost
  MaxSends = 2
  MaxInFlight = 2
  Lossy = FALSE
SPECIFICATION Spec
INVARIANTS LearnsSourceAddress
