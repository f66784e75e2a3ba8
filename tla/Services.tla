------------------------------ MODULE Services ------------------------------
(***************************************************************************)
(* The server process around port forwarding and notifications             *)
(* (cmd/Suwu/main.go): HTTP requests and WebSockets use the two parts      *)
(* directly, a command of the suwu program goes through both, and the      *)
(* shutdown takes them down one after the other while requests are still   *)
(* served.  Bounds: one command connection at a time, and at most MaxBusy  *)
(* forwards, connections through them and notification WebSockets together.*)
(***************************************************************************)
EXTENDS Forwarding, NotifyHub

CONSTANTS
  Number(_),  \* the number of a port: a TCP and a UDP port may have the same
  MaxBusy     \* bound: forwards, connections and WebSockets under way

VARIABLES
  cmd,    \* the command under way: its kind and step, and its forward
  main    \* how far run() is

vars == <<fvars, hvars, cmd, main>>

NoCmd == [op |-> "none", of |-> NoFwd]

Init == FInit /\ HInit /\ cmd = NoCmd /\ main = "serving"

-----------------------------------------------------------------------------
(* suwu forward: forward-start and forward-stop *)
CommandStarts(f) ==
  /\ cmd = NoCmd /\ hub = "open" /\ Check(f)
  /\ cmd' = [op |-> "start", of |-> f]
  /\ UNCHANGED <<hvars, main>>

\* After Start has returned the browsers are told.
CommandStarted ==
  /\ cmd.op = "start" /\ call[cmd.of] = "listed"
  /\ Broadcast /\ cmd' = NoCmd
  /\ UNCHANGED <<fvars, main>>

CommandRefused ==
  /\ cmd.op = "start" /\ call[cmd.of] = "failed"
  /\ cmd' = NoCmd
  /\ UNCHANGED <<fvars, hvars, main>>

\* --stop takes the first forward with the number out of a map in random order,
\* whatever its protocol.
CommandLooksUp(n) ==
  /\ cmd = NoCmd /\ hub = "open" /\ lock = Free
  /\ \E f \in forwards : Number(port[f]) = n /\ cmd' = [op |-> "found", of |-> f]
  /\ UNCHANGED <<fvars, hvars, main>>

CommandStops ==
  /\ cmd.op = "found"
  /\ IF cmd.of \in forwards THEN Stop(cmd.of) /\ cmd' = [cmd EXCEPT !.op = "stopping"]
     ELSE lock = Free /\ cmd' = NoCmd /\ UNCHANGED fvars
  /\ UNCHANGED <<hvars, main>>

\* Stop has returned; somebody else may have removed the forward meanwhile.
CommandRemoves ==
  /\ cmd.op = "stopping" /\ status[cmd.of] = "stopped"
  /\ IF cmd.of \in forwards THEN RemoveBegins(cmd.of) ELSE lock = Free /\ UNCHANGED fvars
  /\ cmd' = [cmd EXCEPT !.op = "removing"]
  /\ UNCHANGED <<hvars, main>>

CommandStopped ==
  /\ cmd.op = "removing" /\ cmd.of \notin forwards
  /\ Broadcast /\ cmd' = NoCmd
  /\ UNCHANGED <<fvars, main>>

Command ==
  \/ \E f \in Fwd : CommandStarts(f)
  \/ \E p \in Port : CommandLooksUp(Number(p))
  \/ CommandStarted \/ CommandRefused \/ CommandStops \/ CommandRemoves \/ CommandStopped

-----------------------------------------------------------------------------
(* The shutdown: CloseAll, Close of the hub, StopAll *)
ClosesConnections ==
  /\ main = "serving" /\ main' = "closing hub"
  /\ CloseAll
  /\ UNCHANGED <<fvars, cmd>>

ClosesSocket ==
  /\ main = "closing hub" /\ CloseSocket
  /\ UNCHANGED <<fvars, cmd, main>>

ClosesSubs ==
  /\ main = "closing hub" /\ CloseSubs
  /\ main' = "stopping forwards"
  /\ UNCHANGED <<fvars, cmd>>

StopsForwards ==
  /\ main = "stopping forwards" /\ StopAllBegins
  /\ main' = "draining"
  /\ UNCHANGED <<hvars, cmd>>

Shutdown == ClosesConnections \/ ClosesSocket \/ ClosesSubs \/ StopsForwards

-----------------------------------------------------------------------------
Part ==
  \/ FNext /\ UNCHANGED <<hvars, cmd, main>>
  \/ HNext /\ UNCHANGED <<fvars, cmd, main>>

Busy ==
  Cardinality({f \in Fwd : call[f] # "none"}) + Cardinality({x \in Flow : flow[x] # Idle})
    + Cardinality({c \in Client : at[c] # "away"})

Next == (Part \/ Command \/ Shutdown) /\ Busy' <= MaxBusy

\* Goroutines run on: a move of Stop, a dial, a write and the copying of a
\* cancelled connection come to an end, and so does the Close of the hub, as
\* long as the process lives: the listeners or the watchdog end it at some time
\* after the shutdown began.  Nobody has to start anything.
Alone(F) == F /\ UNCHANGED <<hvars, cmd, main>>
Reads(H) == H /\ UNCHANGED <<fvars, cmd, main>>

Fairness ==
  /\ \A f \in Fwd :
       /\ WF_vars(Alone(Cancel(f) \/ CloseListener(f) \/ MarkStopped(f)))
       /\ WF_vars(Alone(LoopEnds(f)))
  /\ \A x \in Flow :
       /\ WF_vars(Alone(flow[x].at = "dialing" /\ (Dialled(x) \/ FlowEnds(x))))
       /\ WF_vars(Alone(flow[x].of \in done /\ FlowEnds(x)))
  /\ \A c \in Client :
       WF_vars(Reads(Take(c) \/ Written(c) \/ WriteFails(c) \/ RangeEnds(c) \/ Unsubscribe(c)))
  /\ WF_vars(ClosesSocket \/ ClosesSubs)

Spec == Init /\ [][Next]_vars /\ Fairness
=============================================================================
