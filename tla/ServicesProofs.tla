--------------------------- MODULE ServicesProofs ---------------------------
(***************************************************************************)
(* The invariants of port forwarding and of the notification hub, for any  *)
(* number of forwards, ports, clients and WebSockets.  A step of the       *)
(* server is a step of one part, of the other or of both, and each part    *)
(* has an inductive invariant of its own.                                  *)
(***************************************************************************)
EXTENDS ServicesProps, FiniteSetTheorems, TLAPS

FwdStep == FNext \/ StopAllBegins
HubStep == HNext \/ CloseAll \/ CloseSocket \/ CloseSubs

\* What a step of the server does to each part.
LEMMA StepOfParts ==
  ASSUME [Next]_vars, forwards \subseteq Fwd
  PROVE  /\ FwdStep \/ UNCHANGED fvars
         /\ HubStep \/ UNCHANGED hvars
<1>1. CASE Part
  BY <1>1 DEF Part, FwdStep, HubStep
<1>2. CASE Command
  <2>1. CASE \E f \in Fwd : CommandStarts(f)
    BY <2>1 DEF CommandStarts, FwdStep, FNext
  <2>2. CASE \E p \in Port : CommandLooksUp(Number(p))
    BY <2>2 DEF CommandLooksUp
  <2>3. CASE CommandStarted
    BY <2>3 DEF CommandStarted, HubStep, HNext
  <2>4. CASE CommandRefused
    BY <2>4 DEF CommandRefused
  <2>5. CASE CommandStops
    BY <2>5 DEF CommandStops, FwdStep, FNext, Stop
  <2>6. CASE CommandRemoves
    BY <2>6 DEF CommandRemoves, FwdStep, FNext, RemoveBegins
  <2>7. CASE CommandStopped
    BY <2>7 DEF CommandStopped, HubStep, HNext
  <2>8. QED
    BY <1>2, <2>1, <2>2, <2>3, <2>4, <2>5, <2>6, <2>7 DEF Command
<1>3. CASE Shutdown
  BY <1>3 DEF Shutdown, ClosesConnections, ClosesSocket, ClosesSubs, StopsForwards, FwdStep, HubStep
<1>4. CASE UNCHANGED vars
  BY <1>4 DEF vars
<1>5. QED
  BY <1>1, <1>2, <1>3, <1>4 DEF Next

-----------------------------------------------------------------------------
(* The hub *)
HubInv ==
  /\ hub \in {"open", "closing", "closed"} /\ subs \subseteq Client
  /\ chan \in [Client -> {"none", "open", "closed"}] /\ queue \in [Client -> 0..Buffer]
  /\ at \in [Client -> {"away", "accepted", "registered", "waiting", "writing", "leaving"}]
  /\ up \in [Client -> BOOLEAN]
  /\ SubscribersAreOpen

LEMMA HubInit == HInit => HubInv
  BY HubAssumption DEF HInit, HubInv, SubscribersAreOpen

\* The handler of one client: the others keep their part of the invariant.
LEMMA HandlerKeepsHubInv ==
  ASSUME NEW c \in Client, HubInv,
         Connect(c) \/ Register(c) \/ Subscribe(c) \/ Take(c) \/ Written(c)
           \/ WriteFails(c) \/ RangeEnds(c) \/ Unsubscribe(c) \/ Disconnect(c)
  PROVE  HubInv'
<1> USE HubAssumption DEF HubInv, SubscribersAreOpen
<1>1. CASE Connect(c)
  BY <1>1 DEF Connect
<1>2. CASE Register(c)
  BY <1>2 DEF Register
<1>3. CASE Subscribe(c)
  BY <1>3 DEF Subscribe
<1>4. CASE Take(c)
  BY <1>4 DEF Take
<1>5. CASE Written(c)
  BY <1>5 DEF Written
<1>6. CASE WriteFails(c)
  BY <1>6 DEF WriteFails
<1>7. CASE RangeEnds(c)
  BY <1>7 DEF RangeEnds
<1>8. CASE Unsubscribe(c)
  BY <1>8 DEF Unsubscribe
<1>9. CASE Disconnect(c)
  BY <1>9 DEF Disconnect
<1>10. QED
  BY <1>1, <1>2, <1>3, <1>4, <1>5, <1>6, <1>7, <1>8, <1>9

LEMMA HubKeepsHubInv ==
  ASSUME HubInv, HubStep \/ UNCHANGED hvars
  PROVE  HubInv'
<1>1. CASE \E c \in Client : \/ Connect(c) \/ Register(c) \/ Subscribe(c) \/ Take(c) \/ Written(c)
                             \/ WriteFails(c) \/ RangeEnds(c) \/ Unsubscribe(c) \/ Disconnect(c)
  BY <1>1, HandlerKeepsHubInv
<1>2. CASE Broadcast
  BY <1>2, HubAssumption DEF Broadcast, HubInv, SubscribersAreOpen
<1>3. CASE CloseAll
  BY <1>3 DEF CloseAll, HubInv, SubscribersAreOpen
<1>4. CASE CloseSocket
  BY <1>4 DEF CloseSocket, HubInv, SubscribersAreOpen
<1>5. CASE CloseSubs
  BY <1>5 DEF CloseSubs, HubInv, SubscribersAreOpen
<1>6. CASE UNCHANGED hvars
  BY <1>6 DEF hvars, HubInv, SubscribersAreOpen
<1>7. QED
  BY <1>1, <1>2, <1>3, <1>4, <1>5, <1>6 DEF HubStep, HNext

-----------------------------------------------------------------------------
(* Port forwarding *)
FwdTypes ==
  /\ forwards \subseteq Fwd /\ done \subseteq Fwd /\ wanted \subseteq Fwd
  /\ lock.op \in {"free", "remove", "all"} /\ lock.of \subseteq Fwd
  /\ port \in [Fwd -> Port] /\ bound \in [Port -> Fwd \cup {NoFwd}]
  /\ call \in [Fwd -> {"none", "checked", "open", "listed", "failed"}]
  /\ status \in [Fwd -> {"none", "running", "error", "stopped"}]
  /\ loop \in [Fwd -> {"none", "running", "ended"}]
  /\ flow \in [Flow -> [of : Fwd \cup {NoFwd}, at : {"free", "dialing", "copying"}]]
  /\ sockets \subseteq Fwd \X Flow

\* A flow that is under way has a forward.
FlowsCarried == \A x \in Flow : flow[x] = Idle \/ (flow[x].of \in Fwd /\ flow[x].at # "free")

CountsRight == active = [f \in Fwd |-> Cardinality(FlowsOf(f))]

\* What holds of a forward at each step of its life; StatusIsTrue follows.
Life(f) ==
  /\ f \in forwards => call[f] = "listed"
  /\ call[f] = "listed" => f \in forwards \/ f \in wanted
  /\ call[f] = "listed" => status[f] \in {"running", "stopped"}
  /\ f \in wanted => call[f] = "listed"
  /\ f \in done => f \in wanted
  /\ call[f] \in {"none", "checked", "failed"} => ~Bound(f) /\ status[f] # "stopped"
  /\ call[f] \in {"open", "listed"} /\ f \notin wanted =>
       Bound(f) /\ loop[f] = "running" /\ status[f] = "running"
  /\ status[f] = "stopped" => ~Bound(f) /\ f \in done
  /\ Bound(f) /\ call[f] = "listed" => f \in forwards

FwdInv == FwdTypes /\ FlowsCarried /\ CountsRight /\ \A f \in Fwd : Life(f)

LEMMA FwdInitInv == FInit => FwdInv
<1> SUFFICES ASSUME FInit PROVE FwdInv
  OBVIOUS
<1>1. FwdTypes /\ FlowsCarried
  BY ForwardingAssumption DEF FInit, FwdTypes, FlowsCarried, Idle, Free
<1>2. \A f \in Fwd : FlowsOf(f) = {}
  BY ForwardingAssumption DEF FInit, FlowsOf, Idle
<1>3. CountsRight
  BY <1>2, FS_EmptySet DEF FInit, CountsRight
<1>4. \A f \in Fwd : Life(f)
  BY ForwardingAssumption DEF FInit, Life, Bound
<1>5. QED
  BY <1>1, <1>3, <1>4 DEF FwdInv

\* The counter: one flow more, one less, or none of them changed.
LEMMA Counting ==
  ASSUME FwdInv, FwdStep
  PROVE  CountsRight'
<1>0. \A f \in Fwd : IsFiniteSet(FlowsOf(f))
  BY ForwardingAssumption, FS_Subset DEF FlowsOf
<1>1. ASSUME NEW f \in Fwd, NEW x \in Flow, Accept(f, x)
      PROVE  CountsRight'
  <2>1. flow' = [flow EXCEPT ![x] = [of |-> f, at |-> "dialing"]] /\ flow[x] = Idle
        /\ active' = [active EXCEPT ![f] = @ + 1]
    BY <1>1 DEF Accept
  <2>2. FlowsOf(f)' = FlowsOf(f) \cup {x} /\ x \notin FlowsOf(f)
    BY <2>1, ForwardingAssumption DEF FlowsOf, Idle, FwdInv, FwdTypes
  <2>3. \A g \in Fwd \ {f} : FlowsOf(g)' = FlowsOf(g)
    BY <2>1, ForwardingAssumption DEF FlowsOf, Idle, FwdInv, FwdTypes
  <2>4. Cardinality(FlowsOf(f)') = Cardinality(FlowsOf(f)) + 1
    BY <1>0, <2>2, FS_AddElement
  <2>5. QED
    BY <2>1, <2>3, <2>4 DEF FwdInv, CountsRight
<1>2. ASSUME NEW x \in Flow, FlowEnds(x)
      PROVE  CountsRight'
  <2>0. flow[x].of \in Fwd
    BY <1>2 DEF FlowEnds, FwdInv, FlowsCarried, Idle
  <2>1. PICK f \in Fwd : /\ flow[x].of = f /\ flow' = [flow EXCEPT ![x] = Idle]
                         /\ active' = [active EXCEPT ![f] = @ - 1]
    BY <1>2, <2>0 DEF FlowEnds
  <2>2. FlowsOf(f)' = FlowsOf(f) \ {x} /\ x \in FlowsOf(f)
    BY <2>1, ForwardingAssumption DEF FlowsOf, Idle, FwdInv, FwdTypes
  <2>3. \A g \in Fwd \ {f} : FlowsOf(g)' = FlowsOf(g)
    BY <2>1, ForwardingAssumption DEF FlowsOf, Idle, FwdInv, FwdTypes
  <2>4. Cardinality(FlowsOf(f)') = Cardinality(FlowsOf(f)) - 1
    BY <1>0, <2>1, <2>2, FS_RemoveElement
  <2>5. QED
    BY <2>1, <2>3, <2>4 DEF FwdInv, CountsRight
<1>3. ASSUME NEW x \in Flow, Dialled(x)
      PROVE  CountsRight'
  <2>1. \A g \in Fwd : FlowsOf(g)' = FlowsOf(g)
    BY <1>3 DEF Dialled, FlowsOf, FwdInv, FwdTypes
  <2>2. QED
    BY <1>3, <2>1 DEF Dialled, FwdInv, CountsRight
<1>4. ASSUME UNCHANGED <<flow, active>>
      PROVE  CountsRight'
  BY <1>4 DEF FwdInv, CountsRight, FlowsOf
<1>5. QED
  BY <1>1, <1>2, <1>3, <1>4 DEF FwdStep, FNext, Check, Listen, ListenFails, Insert, Stop, RemoveBegins,
     StopAllBegins, Unlock, Cancel, CloseListener, MarkStopped, Cleanup, LoopEnds

LEMMA Typing ==
  ASSUME FwdInv, FwdStep
  PROVE  FwdTypes' /\ FlowsCarried'
<1> USE ForwardingAssumption DEF FwdInv, FwdTypes, FlowsCarried, Idle
<1>1. ASSUME NEW f \in Fwd, Check(f) \/ Listen(f) \/ ListenFails(f) \/ Insert(f)
      PROVE  FwdTypes' /\ FlowsCarried'
  BY <1>1 DEF Check, Listen, ListenFails, Insert
<1>2. ASSUME NEW f \in Fwd, Stop(f) \/ RemoveBegins(f)
      PROVE  FwdTypes' /\ FlowsCarried'
  BY <1>2 DEF Stop, RemoveBegins
<1>3. ASSUME NEW f \in Fwd, Cancel(f) \/ CloseListener(f) \/ MarkStopped(f)
      PROVE  FwdTypes' /\ FlowsCarried'
  BY <1>3 DEF Cancel, CloseListener, MarkStopped
<1>4. CASE Unlock \/ StopAllBegins
  BY <1>4 DEF Unlock, StopAllBegins, Free
<1>5. ASSUME NEW f \in Fwd, NEW x \in Flow, Accept(f, x) \/ Cleanup(f, x)
      PROVE  FwdTypes' /\ FlowsCarried'
  BY <1>5 DEF Accept, Cleanup
<1>6. ASSUME NEW x \in Flow, Dialled(x)
      PROVE  FwdTypes' /\ FlowsCarried'
  <2>1. flow[x].of \in Fwd
    BY <1>6 DEF Dialled
  <2>2. sockets' \subseteq Fwd \X Flow
    BY <1>6, <2>1 DEF Dialled
  <2>3. QED
    BY <1>6, <2>2 DEF Dialled
<1>7. ASSUME NEW x \in Flow, FlowEnds(x)
      PROVE  FwdTypes' /\ FlowsCarried'
  BY <1>7 DEF FlowEnds
<1>8. ASSUME NEW f \in Fwd, LoopEnds(f)
      PROVE  FwdTypes' /\ FlowsCarried'
  BY <1>8 DEF LoopEnds
<1>9. QED
  BY <1>1, <1>2, <1>3, <1>4, <1>5, <1>6, <1>7, <1>8 DEF FwdStep, FNext

LEMMA Living ==
  ASSUME FwdInv, FwdStep, NEW g \in Fwd
  PROVE  Life(g)'
<1> USE ForwardingAssumption DEF FwdInv, FwdTypes, Life, Bound
<1>1. ASSUME NEW f \in Fwd, Check(f) \/ ListenFails(f) \/ Insert(f)
      PROVE  Life(g)'
  BY <1>1 DEF Check, ListenFails, Insert
<1>2. ASSUME NEW f \in Fwd, Listen(f)
      PROVE  Life(g)'
  BY <1>2 DEF Listen
<1>3. ASSUME NEW f \in Fwd, Stop(f) \/ RemoveBegins(f)
      PROVE  Life(g)'
  BY <1>3 DEF Stop, RemoveBegins
<1>4. ASSUME NEW f \in Fwd, Cancel(f) \/ MarkStopped(f)
      PROVE  Life(g)'
  BY <1>4 DEF Cancel, MarkStopped
<1>5. ASSUME NEW f \in Fwd, CloseListener(f)
      PROVE  Life(g)'
  BY <1>5 DEF CloseListener
<1>6. CASE Unlock
  BY <1>6 DEF Unlock, Free
<1>7. CASE StopAllBegins
  BY <1>7 DEF StopAllBegins
<1>8. ASSUME NEW f \in Fwd, LoopEnds(f)
      PROVE  Life(g)'
  BY <1>8 DEF LoopEnds
<1>9. CASE UNCHANGED <<port, forwards, call, status, bound, done, wanted, loop>>
  BY <1>9
<1>10. QED
  BY <1>1, <1>2, <1>3, <1>4, <1>5, <1>6, <1>7, <1>8, <1>9 DEF FwdStep, FNext, Accept, Cleanup, Dialled, FlowEnds

LEMMA ForwardingKeepsFwdInv ==
  ASSUME FwdInv, FwdStep \/ UNCHANGED fvars
  PROVE  FwdInv'
<1>1. CASE FwdStep
  BY <1>1, Counting, Typing, Living DEF FwdInv
<1>2. CASE UNCHANGED fvars
  BY <1>2 DEF fvars, FwdInv, FwdTypes, FlowsCarried, CountsRight, FlowsOf, Life, Bound
<1>3. QED
  BY <1>1, <1>2

-----------------------------------------------------------------------------
IInv == FwdInv /\ HubInv

LEMMA ServicesInvariant == Spec => []IInv
<1>1. Init => IInv
  BY HubInit, FwdInitInv DEF Init, IInv
<1>2. IInv /\ [Next]_vars => IInv'
  <2> SUFFICES ASSUME IInv, [Next]_vars PROVE IInv'
    OBVIOUS
  <2>1. (FwdStep \/ UNCHANGED fvars) /\ (HubStep \/ UNCHANGED hvars)
    BY StepOfParts DEF IInv, FwdInv, FwdTypes
  <2>2. QED
    BY <2>1, HubKeepsHubInv, ForwardingKeepsFwdInv DEF IInv
<1>3. QED
  BY <1>1, <1>2, PTL DEF Spec

(* The types, and ActiveConns as the number of flows under way. *)
THEOREM ServicesTypeCorrect == Spec => []TypeOK
<1>1. IInv => TypeOK
  BY DEF IInv, FwdInv, FwdTypes, CountsRight, HubInv, TypeOK
<1>2. QED
  BY <1>1, ServicesInvariant, PTL

(* A listed forward is what its status says, and no port is open without a  *)
(* forward that is listed or about to be, for any number of forwards.       *)
THEOREM StatusStaysTrue == Spec => []StatusIsTrue
<1>1. IInv => StatusIsTrue
  BY DEF IInv, FwdInv, FwdTypes, Life, StatusIsTrue
<1>2. QED
  BY <1>1, ServicesInvariant, PTL

(* No send on a closed channel and no second close: for any number of       *)
(* notification WebSockets the hub's map holds exactly the open channels.   *)
THEOREM SubscribersStayOpen == Spec => []SubscribersAreOpen
<1>1. IInv => SubscribersAreOpen
  BY DEF IInv, HubInv
<1>2. QED
  BY <1>1, ServicesInvariant, PTL
=============================================================================
