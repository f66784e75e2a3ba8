SPECIFICATION Spec
CONSTANTS
 Fwd = {f1, f2}
 Port = {tcp}
 Udp = {}
 Flow = {x1}
 NoFwd = NoFwd
 Client = {c1}
 Number <- MCNumber
 Buffer = 1
 MaxBusy = 2
CHECK_DEADLOCK FALSE
PROPERTY StopTakesTheRunningOne
