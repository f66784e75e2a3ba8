SPECIFICATION Spec
CONSTANTS
  k1 = k1
  s1 = s1
  s2 = s2
  c1 = c1
  c2 = c2
  c3 = c3
  None = None
  Keys <- MCKeys
  Sessions <- MCOneShell
  Clients <- MCThreeTabs
  SubBuffer = 1
  MaxOut = 2
CONSTRAINT MCInOrder
CHECK_DEADLOCK FALSE
INVARIANTS
  TypeOK
  NoPanic
  CurrentMissesNothing
  FramesConsecutive
  OneWriter
  NoUseAfterRelease
PROPERTY
  ScreenIsExact
