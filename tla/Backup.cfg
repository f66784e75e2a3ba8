SPECIFICATION Spec
CONSTANTS
  d1 = d1
  d2 = d2
  Devices <- MCDevices
  MaxGenerations = 2
  MaxSlotBytes = 3
  Size <- MCSize
  Faults <- MCAllFaults
  MaxFaults = 1
  MaxMoves = 2
CONSTRAINT MCFewUploads
SYMMETRY Symmetry
INVARIANTS
  TypeOK
  IndexedIsRestorable
  AckedSurvives
  BaseIsWhatWasSeen
PROPERTIES
  GarbageIsFromFaults
  GenerationsGrow
CHECK_DEADLOCK FALSE
