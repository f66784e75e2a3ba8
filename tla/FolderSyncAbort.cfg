SPECIFICATION Spec
CONSTANTS
  Names <- MCNames
  Above <- MCAbove
  Big <- MCBig
  RemoveExtra = TRUE
  PullConcurrency = 2
  MaxConsecutive = 2
  MaxMoves = 2
  MaxChanges = 2
  MaxFaults = 0
PROPERTIES
  DeletionsNeedDownloads
CHECK_DEADLOCK FALSE
