SPECIFICATION FairSpec
CONSTANTS
  k1 = k1
  s1 = s1
  s2 = s2
  c1 = c1
  c2 = c2
  c3 = c3
  None = None
  Keys <- MCKeys
  Sessions <- MCTwoShells
  Clients <- MCTwoTabs
  SubBuffer = 1
  MaxOut = 0
CONSTRAINT MCInOrder
CHECK_DEADLOCK FALSE
INVARIANTS
  LiveSessionsMapped
PROPERTIES
  ClosedIsCleanedUp
  ShutdownCompletes
  TTLEnds
