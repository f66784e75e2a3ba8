SPECIFICATION Spec
CONSTANTS
 Fwd = {f1, f2}
 Port = {tcp, udp}
 Udp = {udp}
 Flow = {x1}
 NoFwd = NoFwd
 Client = {c1}
 Number <- MCNumber
 Buffer = 1
 MaxBusy = 2
CHECK_DEADLOCK FALSE
INVARIANTS TypeOK StatusIsTrue SubscribersAreOpen
PROPERTIES StoppedDrains ShutdownEndsSubscribers
