SPECIFICATION Spec
CONSTANTS
  d1 = d1
  d2 = d2
  Devices <- MCDevices
  MaxGenerations = 2
  MaxSlotBytes = 3
  Size <- MCSize
  Faults <- MCNoFaults
  MaxFaults = 0
  MaxMoves = 2
SYMMETRY Symmetry
INVARIANTS
  ConflictWaitsForUser
CHECK_DEADLOCK FALSE
