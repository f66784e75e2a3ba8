---------------------------- MODULE ServicesProps ----------------------------
(* What port forwarding, the notification hub and their shutdown must keep. *)
EXTENDS Services

(* The types, and the counter the panel shows: ActiveConns is the number of *)
(* connections and datagrams the forward carries, on every way out of them. *)
TypeOK ==
  /\ forwards \subseteq Fwd /\ done \subseteq Fwd /\ wanted \subseteq Fwd
  /\ lock.op \in {"free", "remove", "all"} /\ lock.of \subseteq Fwd
  /\ port \in [Fwd -> Port] /\ bound \in [Port -> Fwd \cup {NoFwd}]
  /\ call \in [Fwd -> {"none", "checked", "open", "listed", "failed"}]
  /\ status \in [Fwd -> {"none", "running", "error", "stopped"}]
  /\ loop \in [Fwd -> {"none", "running", "ended"}]
  /\ flow \in [Flow -> [of : Fwd \cup {NoFwd}, at : {"free", "dialing", "copying"}]]
  /\ sockets \subseteq Fwd \X Flow
  /\ active = [f \in Fwd |-> Cardinality(FlowsOf(f))]
  /\ hub \in {"open", "closing", "closed"} /\ subs \subseteq Client
  /\ chan \in [Client -> {"none", "open", "closed"}] /\ queue \in [Client -> 0..Buffer]
  /\ at \in [Client -> {"away", "accepted", "registered", "waiting", "writing", "leaving"}]
  /\ up \in [Client -> BOOLEAN]

(* The status does not lie: a listed forward that says it runs has its port *)
(* open and its loop running unless a Stop is at it, one that says it is    *)
(* stopped does not have the port any more; and a port that is open belongs *)
(* to a forward that is listed or about to be.                              *)
StatusIsTrue ==
  /\ \A f \in forwards :
       /\ status[f] = "running" /\ f \notin wanted => Bound(f) /\ loop[f] = "running"
       /\ status[f] = "stopped" => ~Bound(f) /\ f \in done
       /\ status[f] \in {"running", "stopped"}
  /\ \A f \in Fwd : Bound(f) => call[f] = "open" \/ f \in forwards

(* A handler closes, and the hub sends to, open channels only: a channel is *)
(* in the map exactly while it is open, and its handler is there to read it.*)
(* A second close or a send on a closed channel would panic the server.     *)
SubscribersAreOpen ==
  \A c \in Client :
    /\ c \in subs <=> at[c] \in {"waiting", "writing", "leaving"} /\ chan[c] = "open"
    /\ at[c] \in {"waiting", "writing", "leaving"} => chan[c] # "none"

(* A forward that is stopped gives up its port, and its loop and connections *)
(* come to an end.                                                           *)
StoppedDrains ==
  \A f \in Fwd :
    status[f] = "stopped" ~>
      (loop[f] = "ended" /\ ~Bound(f) /\ FlowsOf(f) = {})

(* A handler that is subscribed when the shutdown closes the hub comes to an *)
(* end, with whatever was left in its channel.                               *)
ShutdownEndsSubscribers ==
  \A c \in Client : hub = "closing" /\ c \in subs ~> at[c] = "away"

(* What the help text says of --stop ("Stop forward by local port"): the     *)
(* forward the command takes is one that runs, if one runs on that port.     *)
StopTakesTheRunningOne ==
  [][\A p \in Port :
       CommandLooksUp(Number(p))
           /\ (\E f \in forwards : Number(port[f]) = Number(p) /\ status[f] = "running")
         => status[cmd'.of] = "running"]_vars
=============================================================================
