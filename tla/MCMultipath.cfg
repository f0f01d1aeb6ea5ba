CONSTANTS
  PodCount = 2
  PodWidth = 2
  CoresPerSpine = 1
  HostsPerLeaf = 2
  NoAddr = NoAddr
  None = None
  VIP = {0, 1}
  Placement <- MCPlacement
  Gateways <- MCGateways
  PerFlowGateways = TRUE
  Flows <- MCFlows
  Slot = {0}
  Index <- MCIndex
  CacheApp = "GwCache"
  SourceLearning = TRUE
  AccessBit = FALSE
  BloomFilter = FALSE
  GenerateInvalidation = TRUE
  LearningDraws = {TRUE}
  Migrated = 0
  NewHost <- MCNewHost
  MaxSends = 3
  MaxInFlight = 2
  Lossy = TRUE
SPECIFICATION FairSpec
PROPERTIES ImplementsDelivery
