SPECIFICATION FairSpec
CONSTANTS
  d1 = d1
  d2 = d2
  Devices <- MCDevices
  MaxGenerations = 2
  MaxSlotBytes = 3
  Size <- MCSize
  Faults <- MCAllFaults
  MaxFaults = 1
  MaxMoves = 1
PROPERTIES
  ChangesAreBackedUp
CHECK_DEADLOCK FALSE
