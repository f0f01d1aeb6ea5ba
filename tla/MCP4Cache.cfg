CONSTANTS
  NoAddr = NoAddr
  Key = {0, 1, 2, 3}
  Val = {a, b}
  Slot = {0, 1}
  Index <- MCIndex
SPECIFICATION Spec
INVARIANTS SlotsWellFormed CoherentWithStored
PROPERTIES DisplacedOnlyWithReport
