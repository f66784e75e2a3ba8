SPECIFICATION FairSpec
CONSTANTS
  Names <- MCPlain
  Above <- MCPlainAbove
  Big <- MCNone
  RemoveExtra = TRUE
  PullConcurrency = 2
  MaxConsecutive = 2
  MaxMoves = 4
  MaxChanges = 2
  MaxFaults = 1
INVARIANTS
  TypeOK
  SkippedIsMirrored
  CleanCycleMirrors
PROPERTIES
  Converges
CHECK_DEADLOCK FALSE
