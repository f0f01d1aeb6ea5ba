CONSTANTS
  h1 = h1
  h2 = h2
  h3 = h3
  VIP = {1, 2, 3}
  Host = {h1, h2, h3}
  Placement <- MCPlacement
  Migrated = 1
  NewHost = h3
  Capacity = 2
  QueueLimit = 2
  MaxPackets = 5
SPECIFICATION Spec
INVARIANTS HoldsMostRecent TransmitterConsistent NothingLeaks SlowPathInOrder
PROPERTIES StaleOnlyFromBefore AcceptedLeave
