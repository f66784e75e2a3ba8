\* Three sessions, so that two reapers overlap and meet a third session; one
\* Xorg dies by itself.
SPECIFICATION FairSpec
CONSTANTS
  c1 = c1
  c2 = c2
  None = None
  Conns <- MCConns
  MaxVisits = 3
  MaxCrashes = 1
INVARIANTS
  TypeOK
  OneSession
PROPERTIES
  ReachableIsOwned
  IdleIsReaped
\* The server exits, and visits are bounded.
CHECK_DEADLOCK FALSE
