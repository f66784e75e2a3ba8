----------------------------- MODULE Forwarding -----------------------------
(***************************************************************************)
(* Port forwarding (pkg/forward): the manager's map under its lock, the    *)
(* Start and Stop of a forward, the accept or read loop, and the           *)
(* connections or datagrams it carries.  A forward of Fwd is one request,  *)
(* with the port it asks for; a flow is a TCP connection or a UDP datagram *)
(* together with its client.  A step is what happens between two points    *)
(* where another goroutine can get in.                                     *)
(*                                                                         *)
(* Several Stop calls on one forward make the same three moves in the same *)
(* order and a forward never starts again, so only the first of each move  *)
(* changes anything: wanted says that some call is making them.            *)
(***************************************************************************)
EXTENDS Integers, FiniteSets

CONSTANTS
  Fwd,     \* forwards: the requests to start one
  Port,    \* external ports, each of one protocol
  Udp,     \* those that are UDP ports
  Flow,    \* clients; each has one connection or datagram under way
  NoFwd
ASSUME ForwardingAssumption == IsFiniteSet(Flow) /\ NoFwd \notin Fwd /\ Udp \subseteq Port

VARIABLES
  port,      \* the port a forward asks for
  forwards,  \* the forwards in the manager's map
  lock,      \* who holds the manager's lock across steps, and for which forwards
  call,      \* how far the Start call of a forward is
  status,    \* Forward.Status
  bound,     \* the operating system: which forward has a port open
  done,      \* the forwards whose context is cancelled
  wanted,    \* the forwards some Stop call is at
  loop,      \* the accept loop or read loop
  flow,      \* for each client, the forward that carries it and how far it is
  sockets,   \* the UDP sessions: pairs of a forward and a client
  active     \* Forward.ActiveConns

fvars == <<port, forwards, lock, call, status, bound, done, wanted, loop, flow, sockets, active>>

Free == [op |-> "free", of |-> {}]
Bound(f) == bound[port[f]] = f
IsUdp(f) == port[f] \in Udp
Idle == [of |-> NoFwd, at |-> "free"]
FlowsOf(f) == {x \in Flow : flow[x].of = f}

FInit ==
  /\ port \in [Fwd -> Port]
  /\ forwards = {} /\ lock = Free
  /\ call = [f \in Fwd |-> "none"] /\ status = [f \in Fwd |-> "none"]
  /\ bound = [p \in Port |-> NoFwd]
  /\ done = {} /\ wanted = {}
  /\ loop = [f \in Fwd |-> "none"]
  /\ flow = [x \in Flow |-> Idle] /\ sockets = {}
  /\ active = [f \in Fwd |-> 0]

-----------------------------------------------------------------------------
(* Manager.Start *)
\* No listed forward runs on the port: the check and the id, under the lock.
Check(f) ==
  /\ call[f] = "none" /\ lock = Free
  /\ \A g \in forwards : port[g] = port[f] => status[g] # "running"
  /\ call' = [call EXCEPT ![f] = "checked"]
  /\ UNCHANGED <<port, forwards, lock, status, bound, done, wanted, loop, flow, sockets, active>>

\* Forward.Start outside the lock: the port is opened and the loop started.
Listen(f) ==
  /\ call[f] = "checked" /\ bound[port[f]] = NoFwd
  /\ call' = [call EXCEPT ![f] = "open"]
  /\ status' = [status EXCEPT ![f] = "running"]
  /\ bound' = [bound EXCEPT ![port[f]] = f]
  /\ loop' = [loop EXCEPT ![f] = "running"]
  /\ UNCHANGED <<port, forwards, lock, done, wanted, flow, sockets, active>>

\* The port belongs to another forward or to another program.
ListenFails(f) ==
  /\ call[f] = "checked"
  /\ call' = [call EXCEPT ![f] = "failed"]
  /\ status' = [status EXCEPT ![f] = "error"]
  /\ UNCHANGED <<port, forwards, lock, bound, done, wanted, loop, flow, sockets, active>>

Insert(f) ==
  /\ call[f] = "open" /\ lock = Free
  /\ call' = [call EXCEPT ![f] = "listed"]
  /\ forwards' = forwards \cup {f}
  /\ UNCHANGED <<port, lock, status, bound, done, wanted, loop, flow, sockets, active>>

-----------------------------------------------------------------------------
(* Stop, Remove and StopAll, and the three moves of Forward.Stop *)
Stop(f) ==
  /\ f \in forwards /\ lock = Free
  /\ wanted' = wanted \cup {f}
  /\ UNCHANGED <<port, forwards, lock, call, status, bound, done, loop, flow, sockets, active>>

\* Remove and StopAll keep the lock until Forward.Stop has returned.
RemoveBegins(f) ==
  /\ f \in forwards /\ lock = Free
  /\ lock' = [op |-> "remove", of |-> {f}] /\ wanted' = wanted \cup {f}
  /\ UNCHANGED <<port, forwards, call, status, bound, done, loop, flow, sockets, active>>

StopAllBegins ==
  /\ lock = Free
  /\ lock' = [op |-> "all", of |-> forwards] /\ wanted' = wanted \cup forwards
  /\ UNCHANGED <<port, forwards, call, status, bound, done, loop, flow, sockets, active>>

Unlock ==
  /\ lock # Free /\ \A f \in lock.of : status[f] = "stopped"
  /\ forwards' = IF lock.op = "remove" THEN forwards \ lock.of ELSE forwards
  /\ lock' = Free
  /\ UNCHANGED <<port, call, status, bound, done, wanted, loop, flow, sockets, active>>

Cancel(f) ==
  /\ f \in wanted \ done
  /\ done' = done \cup {f}
  /\ UNCHANGED <<port, forwards, lock, call, status, bound, wanted, loop, flow, sockets, active>>

CloseListener(f) ==
  /\ f \in wanted \cap done /\ Bound(f)
  /\ bound' = [bound EXCEPT ![port[f]] = NoFwd]
  /\ UNCHANGED <<port, forwards, lock, call, status, done, wanted, loop, flow, sockets, active>>

\* Mutant: the status is set before the listener is closed.
MarkStoppedFirst(f) ==
  /\ f \in wanted \cap done /\ status[f] # "stopped"
  /\ status' = [status EXCEPT ![f] = "stopped"]
  /\ UNCHANGED <<port, forwards, lock, call, bound, done, wanted, loop, flow, sockets, active>>

MarkStopped(f) ==
  /\ f \in wanted \cap done /\ ~Bound(f) /\ status[f] # "stopped"
  /\ status' = [status EXCEPT ![f] = "stopped"]
  /\ UNCHANGED <<port, forwards, lock, call, bound, done, wanted, loop, flow, sockets, active>>

-----------------------------------------------------------------------------
(* The loop and its flows *)
Accept(f, x) ==
  /\ loop[f] = "running" /\ Bound(f) /\ flow[x] = Idle
  /\ flow' = [flow EXCEPT ![x] = [of |-> f, at |-> "dialing"]]
  /\ active' = [active EXCEPT ![f] = @ + 1]
  /\ UNCHANGED <<port, forwards, lock, call, status, bound, done, wanted, loop, sockets>>

\* The target is dialled; a datagram finds or creates the session of its client.
Dialled(x) ==
  /\ flow[x].at = "dialing"
  /\ flow' = [flow EXCEPT ![x].at = "copying"]
  /\ sockets' = IF IsUdp(flow[x].of) THEN sockets \cup {<<flow[x].of, x>>} ELSE sockets
  /\ UNCHANGED <<port, forwards, lock, call, status, bound, done, wanted, loop, active>>

\* Mutant: only a connection that was copied is counted out again.
FlowEndsUncounted(x) ==
  /\ flow[x].at \in {"dialing", "copying"}
  /\ flow' = [flow EXCEPT ![x] = Idle]
  /\ active' = [active EXCEPT ![flow[x].of] = IF flow[x].at = "copying" THEN @ - 1 ELSE @]
  /\ UNCHANGED <<port, forwards, lock, call, status, bound, done, wanted, loop, sockets>>

\* The dial fails; or one side closes, the reply or its timeout comes, or the
\* forward's context is cancelled.
FlowEnds(x) ==
  /\ flow[x].at \in {"dialing", "copying"}
  /\ flow' = [flow EXCEPT ![x] = Idle]
  /\ active' = [active EXCEPT ![flow[x].of] = @ - 1]
  /\ UNCHANGED <<port, forwards, lock, call, status, bound, done, wanted, loop, sockets>>

\* Sessions idle for a minute: a datagram waits for its reply for five seconds.
Cleanup(f, x) ==
  /\ <<f, x>> \in sockets /\ f \notin done /\ flow[x] # [of |-> f, at |-> "copying"]
  /\ sockets' = sockets \ {<<f, x>>}
  /\ UNCHANGED <<port, forwards, lock, call, status, bound, done, wanted, loop, flow, active>>

\* Mutant: the loop looks at the context only after it has accepted something.
LoopEndsAtNextAccept(f) ==
  /\ loop[f] = "running" /\ f \in done /\ Bound(f)
  /\ loop' = [loop EXCEPT ![f] = "ended"]
  /\ bound' = [bound EXCEPT ![port[f]] = NoFwd]
  /\ sockets' = sockets \ ({f} \X Flow)
  /\ UNCHANGED <<port, forwards, lock, call, status, done, wanted, flow, active>>

\* The accept loop ends when its listener is closed after the cancellation; the
\* read loop looks at the context once a second and closes everything itself.
LoopEnds(f) ==
  /\ loop[f] = "running" /\ f \in done /\ (IsUdp(f) \/ ~Bound(f))
  /\ loop' = [loop EXCEPT ![f] = "ended"]
  /\ bound' = IF Bound(f) THEN [bound EXCEPT ![port[f]] = NoFwd] ELSE bound
  /\ sockets' = sockets \ ({f} \X Flow)
  /\ UNCHANGED <<port, forwards, lock, call, status, done, wanted, flow, active>>

-----------------------------------------------------------------------------
\* Everything but StopAll, which only the shutdown calls.
FNext ==
  \/ \E f \in Fwd : Check(f) \/ Listen(f) \/ ListenFails(f) \/ Insert(f)
  \/ \E f \in Fwd : Stop(f) \/ RemoveBegins(f) \/ Cancel(f) \/ CloseListener(f) \/ MarkStopped(f)
  \/ Unlock
  \/ \E f \in Fwd, x \in Flow : Accept(f, x) \/ Cleanup(f, x)
  \/ \E x \in Flow : Dialled(x) \/ FlowEnds(x)
  \/ \E f \in Fwd : LoopEnds(f)
=============================================================================
