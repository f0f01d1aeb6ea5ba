CONSTANTS
  VIP = {2, 3}
  Phys = {m}
  GwAddress = gw
  Misdelivering = {m}
  HitId = {0}
  OwnId = 0
  Slot = {0}
  Index <- MCIndex
  Timeout = 1
  ClockMod = 5
  MaxTime = 6
SPECIFICATION Spec
PROPERTY HeldBackBriefly
