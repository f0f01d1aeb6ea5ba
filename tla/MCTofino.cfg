CONSTANTS
  VIP = {2, 3}
  Phys = {h, m}
  GwAddress = gw
  Misdelivering = {m}
  HitId = {0}
  OwnId = 0
  Slot = {0}
  Index <- MCIndex
  Timeout = 1
  ClockMod = 16
  MaxTime = 3
SPECIFICATION Spec
INVARIANTS KeyValTogether SaysOnlyHeard BitMeansUsed
PROPERTIES ActiveDisplacedByLearning OnePerTimeout HeldBackBriefly
