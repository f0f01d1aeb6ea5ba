CONSTANTS
  PodCount = 2
  PodWidth = 2
  CoresPerSpine = 2
  HostsPerLeaf = 2
  None = None
  Modes = {"NoCache", "Direct", "OnDemand", "Controller"}
  VIP = {1, 2, 3, 4}
  Placement <- MCPlacement
  Flow <- MCFlow
  GatewayOf <- MCGatewayOf
  FlowHash <- MCFlowHash
  MemorySize = 1
  GatewayCost = 40
  Migrated = 4
  NewHost <- MCNewHost
  MaxSends = 3
  MaxQueries = 2
  MaxInFlight <- MCInFlight
SPECIFICATION FairSpec
INVARIANTS AnsweredAsExpected SameWayInOrder UpdateEndsStrays
PROPERTIES ImplementsDelivery
