------------------------------ MODULE NotifyHub ------------------------------
(***************************************************************************)
(* The notification hub (pkg/notify) and the WebSocket handlers that read  *)
(* from it (server/websocket_notify.go): subscriptions, the buffered       *)
(* channel of each, broadcast, and Close.  A channel is the number of      *)
(* messages in it, and whether it is closed.                               *)
(***************************************************************************)
EXTENDS Integers

CONSTANTS
  Client,   \* notification WebSockets; one that has ended may connect again
  Buffer    \* the capacity of a channel, 32 in the code
ASSUME HubAssumption == Buffer \in Nat \ {0}

VARIABLES
  hub,      \* "open", "closing" when the socket is closed, "closed"
  subs,     \* the subscriptions in the hub's map
  chan,     \* the channel of a handler: "none", "open" or "closed"
  queue,    \* the messages in it
  at,       \* the handler
  up        \* whether the WebSocket can still be written to

hvars == <<hub, subs, chan, queue, at, up>>

HInit ==
  /\ hub = "open" /\ subs = {}
  /\ chan = [c \in Client |-> "none"] /\ queue = [c \in Client |-> 0]
  /\ at = [c \in Client |-> "away"] /\ up = [c \in Client |-> FALSE]

-----------------------------------------------------------------------------
(* The handler *)
\* The WebSocket is accepted, and not yet in the map that CloseAll goes through.
Connect(c) ==
  /\ at[c] = "away"
  /\ at' = [at EXCEPT ![c] = "accepted"] /\ up' = [up EXCEPT ![c] = TRUE]
  /\ UNCHANGED <<hub, subs, chan, queue>>

Register(c) ==
  /\ at[c] = "accepted"
  /\ at' = [at EXCEPT ![c] = "registered"]
  /\ UNCHANGED <<hub, subs, chan, queue, up>>

Subscribe(c) ==
  /\ at[c] = "registered"
  /\ at' = [at EXCEPT ![c] = "waiting"]
  /\ subs' = subs \cup {c}
  /\ chan' = [chan EXCEPT ![c] = "open"]
  /\ UNCHANGED <<hub, queue, up>>

\* The handler takes a message and writes it.  It never reads from the socket,
\* so a client that has gone is noticed at the next write.
Take(c) ==
  /\ at[c] = "waiting" /\ queue[c] > 0
  /\ at' = [at EXCEPT ![c] = "writing"] /\ queue' = [queue EXCEPT ![c] = @ - 1]
  /\ UNCHANGED <<hub, subs, chan, up>>

Written(c) ==
  /\ at[c] = "writing" /\ up[c]
  /\ at' = [at EXCEPT ![c] = "waiting"]
  /\ UNCHANGED <<hub, subs, chan, queue, up>>

WriteFails(c) ==
  /\ at[c] = "writing"
  /\ at' = [at EXCEPT ![c] = "leaving"]
  /\ UNCHANGED <<hub, subs, chan, queue, up>>

\* The range over the channel is over: closed, and nothing left in it.
RangeEnds(c) ==
  /\ at[c] = "waiting" /\ queue[c] = 0 /\ chan[c] = "closed"
  /\ at' = [at EXCEPT ![c] = "leaving"]
  /\ UNCHANGED <<hub, subs, chan, queue, up>>

\* Mutant: the channel is closed and stays in the map.
UnsubscribeKeeps(c) ==
  /\ at[c] = "leaving"
  /\ at' = [at EXCEPT ![c] = "away"] /\ up' = [up EXCEPT ![c] = FALSE]
  /\ chan' = [chan EXCEPT ![c] = IF c \in subs THEN "closed" ELSE @]
  /\ queue' = [queue EXCEPT ![c] = 0]
  /\ UNCHANGED <<hub, subs>>

\* The deferred Unsubscribe: the channel leaves the map, is closed unless the
\* hub did it, and goes with the handler.
Unsubscribe(c) ==
  /\ at[c] = "leaving"
  /\ at' = [at EXCEPT ![c] = "away"] /\ up' = [up EXCEPT ![c] = FALSE]
  /\ subs' = subs \ {c}
  /\ chan' = [chan EXCEPT ![c] = "none"]
  /\ queue' = [queue EXCEPT ![c] = 0]
  /\ UNCHANGED hub

\* The browser goes, or CloseAll closes every WebSocket in its map.
Disconnect(c) ==
  /\ up[c] /\ up' = [up EXCEPT ![c] = FALSE]
  /\ UNCHANGED <<hub, subs, chan, queue, at>>

CloseAll ==
  /\ up' = [c \in Client |-> up[c] /\ at[c] = "accepted"]
  /\ UNCHANGED <<hub, subs, chan, queue, at>>

-----------------------------------------------------------------------------
(* The hub *)
\* Every subscriber with room gets the message; a full one misses it.
Broadcast ==
  /\ queue' = [c \in Client |-> IF c \in subs /\ queue[c] < Buffer THEN queue[c] + 1 ELSE queue[c]]
  /\ UNCHANGED <<hub, subs, chan, at, up>>

CloseSocket ==
  /\ hub = "open" /\ hub' = "closing"
  /\ UNCHANGED <<subs, chan, queue, at, up>>

\* Mutant: the subscriptions are dropped with their channels open.
ForgetSubs ==
  /\ hub = "closing" /\ hub' = "closed"
  /\ subs' = {}
  /\ UNCHANGED <<chan, queue, at, up>>

CloseSubs ==
  /\ hub = "closing" /\ hub' = "closed"
  /\ chan' = [c \in Client |-> IF c \in subs THEN "closed" ELSE chan[c]]
  /\ subs' = {}
  /\ UNCHANGED <<queue, at, up>>

HNext ==
  \/ \E c \in Client : Connect(c) \/ Register(c) \/ Subscribe(c) \/ Take(c) \/ Written(c)
  \/ \E c \in Client : WriteFails(c) \/ RangeEnds(c) \/ Unsubscribe(c) \/ Disconnect(c)
  \/ Broadcast
=============================================================================
