----------------------------- MODULE PtySession -----------------------------
(***************************************************************************)
(* The keyed shell sessions of the Suwu server: session.Manager            *)
(* (pkg/session/session.go), the goroutines that work on a session (PTY    *)
(* reader, state poller, TTL timers, shutdown) and the WebSocket handler   *)
(* that owns one attachment (pkg/server/websocket.go).                     *)
(*                                                                         *)
(* Manager.mu makes each critical section one action.  What a goroutine    *)
(* does after it has unlocked (Kill, wait for the poller, release the      *)
(* emulator) is an action of its own, remembered in "task".  A session     *)
(* value is one shell, so a key that is attached again after its shell     *)
(* died gets another session value; a client value is one WebSocket        *)
(* connection, which calls Attach once.                                    *)
(*                                                                         *)
(* Output is abstracted to numbered chunks (one PTY read each); the        *)
(* emulator's screen is the number of chunks fed to it.                    *)
(***************************************************************************)
EXTENDS Naturals, Sequences

CONSTANTS Keys,         \* pane keys
          Sessions,     \* shells; bounds how many the run may start
          Clients,      \* attachments; bounds how many the run may make
          None,         \* the nil pointer
          SubBuffer,    \* capacity of an attachment's frame channel
          MaxOut        \* bound: chunks a shell prints

ASSUME PtyAssumption ==
  /\ None \notin Keys \cup Sessions \cup Clients
  /\ SubBuffer \in Nat \ {0}
  /\ MaxOut \in Nat

\* The "Shell exited" message: it is a frame but not a chunk of the shell's.
ExitNotice == 0

VARIABLES
  \* --- Manager ---
  sessions,   \* [Keys -> Sessions \cup {None}], the map of live sessions
  runtime,    \* "open", "closing" (inside Close) or "closed"
  lastId,     \* nextID, the number of the latest attachment
  \* --- session ---
  key,        \* [Sessions -> Keys \cup {None}], None: not started yet
  client,     \* [Sessions -> Clients \cup {None}], the current attachment
  timer,      \* [Sessions -> Clients \cup {None}], the TTL timer, named by
              \*   the attachment whose Detach armed it
  closed,     \* [Sessions -> BOOLEAN]
  done,       \* [Sessions -> BOOLEAN], the channel that stops the poller
  poller,     \* [Sessions -> {"none", "running", "done"}]
  reader,     \* [Sessions -> {"none", "running", "done"}], readLoop
  shell,      \* [Sessions -> {"none", "running", "dead"}]
  vt,         \* [Sessions -> {"none", "open", "released"}], the emulator
  fed,        \* [Sessions -> Nat], chunks fed to the emulator
  task,       \* [Sessions -> Tasks], what the closing goroutine has to do
  \* --- Client ---
  of,         \* [Clients -> Sessions \cup {None}]
  id,         \* [Clients -> Nat]
  active,     \* [Clients -> BOOLEAN]
  ready,      \* [Clients -> BOOLEAN]
  chan,       \* [Clients -> {"none", "open", "closed"}], the frame channel
  queue,      \* [Clients -> Seq(Nat)], frames in it
  \* --- WebSocket handler and browser ---
  phase,      \* [Clients -> Phases]
  conn,       \* [Clients -> BOOLEAN], the connection is up
  seen,       \* [Clients -> Nat], the last chunk on the browser's screen
  \* --- timers, and what happened ---
  tm,         \* [Clients -> TimerStates]
  driver,     \* [Sessions -> Clients \cup {None}], whose input, resize or
              \*   refresh the PTY took last since the latest attachment
  panicked    \* a channel was closed twice or sent to after its close

managerVars == <<sessions, runtime, lastId>>
linkVars    == <<client, timer>>
closeVars   == <<closed, done, task>>
procVars    == <<poller, reader, shell>>
vtVars      == <<vt, fed>>
clientVars  == <<of, id, active, ready, chan, queue>>
socketVars  == <<phase, conn, seen>>

vars == <<managerVars, key, linkVars, closeVars, procVars, vtVars, clientVars,
          socketVars, tm, driver, panicked>>

Tasks == {"none", "release", "kill", "shut", "await", "over"}
Phases == {"new", "handshake", "serving", "gone"}
TimerStates == {"unset", "armed", "fired", "over"}

\* The types; and no frame channel holds more than it was made for, as a send to
\* a full one under Manager.mu would block every session.
TypeOK ==
  /\ sessions \in [Keys -> Sessions \cup {None}]
  /\ runtime \in {"open", "closing", "closed"}
  /\ lastId \in Nat
  /\ key \in [Sessions -> Keys \cup {None}]
  /\ client \in [Sessions -> Clients \cup {None}]
  /\ timer \in [Sessions -> Clients \cup {None}]
  /\ closed \in [Sessions -> BOOLEAN]
  /\ done \in [Sessions -> BOOLEAN]
  /\ poller \in [Sessions -> {"none", "running", "done"}]
  /\ reader \in [Sessions -> {"none", "running", "done"}]
  /\ shell \in [Sessions -> {"none", "running", "dead"}]
  /\ vt \in [Sessions -> {"none", "open", "released"}]
  /\ fed \in [Sessions -> Nat]
  /\ task \in [Sessions -> Tasks]
  /\ of \in [Clients -> Sessions \cup {None}]
  /\ id \in [Clients -> Nat]
  /\ active \in [Clients -> BOOLEAN]
  /\ ready \in [Clients -> BOOLEAN]
  /\ chan \in [Clients -> {"none", "open", "closed"}]
  /\ queue \in [Clients -> Seq(Nat)]
  /\ \A c \in Clients : Len(queue[c]) <= SubBuffer
  /\ phase \in [Clients -> Phases]
  /\ conn \in [Clients -> BOOLEAN]
  /\ seen \in [Clients -> Nat]
  /\ tm \in [Clients -> TimerStates]
  /\ driver \in [Sessions -> Clients \cup {None}]
  /\ panicked \in BOOLEAN

Init ==
  /\ sessions = [k \in Keys |-> None]
  /\ runtime = "open"
  /\ lastId = 0
  /\ key = [s \in Sessions |-> None]
  /\ client = [s \in Sessions |-> None]
  /\ timer = [s \in Sessions |-> None]
  /\ closed = [s \in Sessions |-> FALSE]
  /\ done = [s \in Sessions |-> FALSE]
  /\ poller = [s \in Sessions |-> "none"]
  /\ reader = [s \in Sessions |-> "none"]
  /\ shell = [s \in Sessions |-> "none"]
  /\ vt = [s \in Sessions |-> "none"]
  /\ fed = [s \in Sessions |-> 0]
  /\ task = [s \in Sessions |-> "none"]
  /\ of = [c \in Clients |-> None]
  /\ id = [c \in Clients |-> 0]
  /\ active = [c \in Clients |-> FALSE]
  /\ ready = [c \in Clients |-> FALSE]
  /\ chan = [c \in Clients |-> "none"]
  /\ queue = [c \in Clients |-> << >>]
  /\ phase = [c \in Clients |-> "new"]
  /\ conn = [c \in Clients |-> TRUE]
  /\ seen = [c \in Clients |-> 0]
  /\ tm = [c \in Clients |-> "unset"]
  /\ driver = [s \in Sessions |-> None]
  /\ panicked = FALSE
-----------------------------------------------------------------------------
(* revokeLocked, the timer and the close of done, on a set of sessions.     *)

\* The attachments whose frame channel revokeLocked closes.
Cut(S) == {c \in Clients : active[c] /\ \E s \in S : client[s] = c}

Revoke(S) ==
  /\ client' = [s \in Sessions |-> IF s \in S THEN None ELSE client[s]]
  /\ active' = [c \in Clients |-> active[c] /\ c \notin Cut(S)]
  /\ ready' = [c \in Clients |-> ready[c] /\ c \notin Cut(S)]
  /\ chan' = [c \in Clients |-> IF c \in Cut(S) THEN "closed" ELSE chan[c]]

\* Closing a closed channel, or sending to one, panics.
RevokePanics(S) == \E c \in Cut(S) : chan[c] = "closed"
ClosePanics(S) == \E s \in S : done[s]

\* time.Timer.Stop: too late once the timer's goroutine is on its way.
Stopped(state) == IF state = "armed" THEN "over" ELSE state

\* Mutant: "s.timer = nil" is forgotten.
StopTimersOnly(S) ==
  /\ timer' = timer
  /\ tm' = [c \in Clients |-> IF \E s \in S : timer[s] = c THEN Stopped(tm[c])
                                                            ELSE tm[c]]

StopTimers(S) ==
  /\ timer' = [s \in Sessions |-> IF s \in S THEN None ELSE timer[s]]
  /\ tm' = [c \in Clients |-> IF \E s \in S : timer[s] = c THEN Stopped(tm[c])
                                                            ELSE tm[c]]

\* Mutant: "close(s.done)" is forgotten.
MarkClosedOnly(S, next) ==
  /\ closed' = [s \in Sessions |-> closed[s] \/ s \in S]
  /\ done' = done
  /\ task' = [s \in Sessions |-> IF s \in S THEN next ELSE task[s]]

\* What finish, expire and Close do to the sessions they close.
MarkClosed(S, next) ==
  /\ closed' = [s \in Sessions |-> closed[s] \/ s \in S]
  /\ done' = [s \in Sessions |-> done[s] \/ s \in S]
  /\ task' = [s \in Sessions |-> IF s \in S THEN next ELSE task[s]]

\* "if cur == s { delete }"
Unmap(s) ==
  sessions' = [k \in Keys |-> IF k = key[s] /\ sessions[k] = s THEN None
                                                               ELSE sessions[k]]

-----------------------------------------------------------------------------
(* Manager.Attach, one critical section.                                    *)

\* Mutant: a session that nobody is attached to is started over.
UsableWhileAttached(k) ==
  sessions[k] # None /\ ~closed[sessions[k]] /\ client[sessions[k]] # None

\* The key has a session that Attach can return.
Usable(k) == sessions[k] # None /\ ~closed[sessions[k]]

\* Mutant: the screen starts empty.
NoSnapshot(s) == 0

\* DumpScreen: the replay shows what the emulator was fed.
Snapshot(s) == fed[s]

\* The end of Attach: c becomes the current attachment of s and its screen
\* starts from the dump, or the dump fails and nobody is attached.
Register(c, s) ==
  /\ lastId' = lastId + 1
  /\ id' = [id EXCEPT ![c] = lastId + 1]
  /\ of' = [of EXCEPT ![c] = s]
  /\ client' = [client EXCEPT ![s] = c]
  /\ active' = [x \in Clients |-> x = c \/ (active[x] /\ x \notin Cut({s}))]
  /\ ready' = [x \in Clients |-> ready[x] /\ x \notin Cut({s})]
  /\ chan' = [x \in Clients |-> IF x = c THEN "open"
                                ELSE IF x \in Cut({s}) THEN "closed" ELSE chan[x]]
  /\ seen' = [seen EXCEPT ![c] = Snapshot(s)]
  /\ phase' = [phase EXCEPT ![c] = "handshake"]
  /\ driver' = [driver EXCEPT ![s] = None]
  /\ UNCHANGED <<queue, conn>>

\* An Attach that returns an error; handleWS closes the connection.
Refuse(c) ==
  /\ phase' = [phase EXCEPT ![c] = "gone"]
  /\ conn' = [conn EXCEPT ![c] = FALSE]
  /\ UNCHANGED <<lastId, id, of, seen, queue>>

DumpFails(c, s) == Revoke({s}) /\ Refuse(c) /\ UNCHANGED driver

Reattach(c, k) ==
  LET s == sessions[k] IN
  /\ phase[c] = "new"
  /\ Usable(k)
  /\ StopTimers({s})
  /\ Register(c, s) \/ DumpFails(c, s)
  /\ panicked' = (panicked \/ RevokePanics({s}))
  /\ UNCHANGED <<sessions, runtime, key, closeVars, procVars, vtVars>>

\* start and the rest of Attach, for a key without a live session.
AttachNew(c, k, s) ==
  /\ phase[c] = "new"
  /\ ~Usable(k)
  /\ runtime # "closed"
  /\ key[s] = None
  /\ key' = [key EXCEPT ![s] = k]
  /\ sessions' = [sessions EXCEPT ![k] = s]
  /\ shell' = [shell EXCEPT ![s] = "running"]
  /\ reader' = [reader EXCEPT ![s] = "running"]
  /\ poller' = [poller EXCEPT ![s] = "running"]
  /\ vt' = [vt EXCEPT ![s] = "open"]
  /\ Register(c, s) \/ DumpFails(c, s)
  /\ UNCHANGED <<runtime, timer, closeVars, fed, tm, panicked>>

\* No shell or no emulator: a started shell is killed again at once.
StartFails(c, k) ==
  /\ phase[c] = "new"
  /\ ~Usable(k)
  /\ sessions' = [sessions EXCEPT ![k] = None]
  /\ Refuse(c)
  /\ UNCHANGED <<runtime, key, linkVars, closeVars, procVars, vtVars, active,
                 ready, chan, tm, driver, panicked>>

-----------------------------------------------------------------------------
(* The WebSocket handler of one connection.                                 *)

Current(c) == of[c] # None /\ client[of[c]] = c

\* The attach, snapshot and ready messages are on the wire; the frame writer
\* and the read loop start.
SendPrefix(c) ==
  /\ phase[c] = "handshake"
  /\ conn[c]
  /\ phase' = [phase EXCEPT ![c] = "serving"]
  /\ UNCHANGED <<managerVars, key, linkVars, closeVars, procVars, vtVars,
                 clientVars, conn, seen, tm, driver, panicked>>

\* The browser acknowledges the replay: Client.Activate.
Activate(c) ==
  /\ phase[c] = "serving"
  /\ conn[c]
  /\ Current(c)
  /\ ~closed[of[c]]
  /\ ready' = [ready EXCEPT ![c] = TRUE]
  /\ UNCHANGED <<managerVars, key, linkVars, closeVars, procVars, vtVars, of, id,
                 active, chan, queue, socketVars, tm, driver, panicked>>

\* Mutant: input is accepted from every attachment of an open session.
AnyAttachment(c) == of[c] # None /\ ~closed[of[c]]

\* The guard of Client.Write, Resize and Refresh.
HoldsInput(c) == Current(c) /\ ~closed[of[c]] /\ active[c] /\ ready[c]

\* Client.Write, Resize or Refresh: they differ in what they do to the PTY.  A
\* call that fails the guard changes nothing.
Drive(c) ==
  /\ phase[c] = "serving"
  /\ conn[c]
  /\ HoldsInput(c)
  /\ driver' = [driver EXCEPT ![of[c]] = c]
  /\ UNCHANGED <<managerVars, key, linkVars, closeVars, procVars, vtVars,
                 clientVars, socketVars, tm, panicked>>

\* The frame writer sends one frame.
Deliver(c) ==
  /\ phase[c] = "serving"
  /\ conn[c]
  /\ queue[c] # << >>
  /\ queue' = [queue EXCEPT ![c] = Tail(@)]
  /\ seen' = [seen EXCEPT ![c] = IF Head(queue[c]) = ExitNotice THEN @
                                                               ELSE Head(queue[c])]
  /\ UNCHANGED <<managerVars, key, linkVars, closeVars, procVars, vtVars, of, id,
                 active, ready, chan, phase, conn, tm, driver, panicked>>

\* The channel is closed and drained: "session detached".
StreamEnds(c) ==
  /\ phase[c] = "serving"
  /\ conn[c]
  /\ chan[c] = "closed"
  /\ queue[c] = << >>
  /\ conn' = [conn EXCEPT ![c] = FALSE]
  /\ UNCHANGED <<managerVars, key, linkVars, closeVars, procVars, vtVars,
                 clientVars, phase, seen, tm, driver, panicked>>

\* The tab is closed, the network fails, or the server's CloseAll.
ConnDrop(c) ==
  /\ phase[c] \in {"handshake", "serving"}
  /\ conn[c]
  /\ conn' = [conn EXCEPT ![c] = FALSE]
  /\ UNCHANGED <<managerVars, key, linkVars, closeVars, procVars, vtVars,
                 clientVars, phase, seen, tm, driver, panicked>>

\* detachLocked: revoke, and start the TTL if no timer runs.
DetachLocked(c, s) ==
  /\ Revoke({s})
  /\ IF timer[s] = None
       THEN /\ timer' = [timer EXCEPT ![s] = c]
            /\ tm' = [tm EXCEPT ![c] = "armed"]
       ELSE UNCHANGED <<timer, tm>>

\* The handler returns; its deferred Client.Detach runs.  It does nothing when
\* the session is closed or c is no longer its attachment.  Frames left in the
\* channel go nowhere: the frame writer's next write fails.
HandlerExit(c) ==
  /\ phase[c] \in {"handshake", "serving"}
  /\ ~conn[c]
  /\ phase' = [phase EXCEPT ![c] = "gone"]
  /\ queue' = [queue EXCEPT ![c] = << >>]
  /\ IF Current(c) /\ ~closed[of[c]]
       THEN /\ DetachLocked(c, of[c])
            /\ panicked' = (panicked \/ RevokePanics({of[c]}))
       ELSE UNCHANGED <<linkVars, active, ready, chan, tm, panicked>>
  /\ UNCHANGED <<managerVars, key, closeVars, procVars, vtVars, of, id, conn, seen,
                 driver>>

-----------------------------------------------------------------------------
(* The goroutines of a session.                                             *)

\* Mutants: a full channel loses the new chunk, or its oldest one.
DropNewest(s) == UNCHANGED <<client, active, ready, chan, queue, panicked>>

DropOldest(s) ==
  /\ queue' = [queue EXCEPT ![client[s]] = Append(Tail(@), fed[s] + 1)]
  /\ UNCHANGED <<client, active, ready, chan, panicked>>

\* The attachment is too slow: it is revoked, and left to attach again.
Overflow(s) ==
  /\ Revoke({s})
  /\ panicked' = (panicked \/ RevokePanics({s}))
  /\ UNCHANGED queue

\* readLoop read one chunk: broadcast feeds the emulator and hands the chunk
\* to the attachment, which is revoked when its channel is full.
Broadcast(s) ==
  LET c == client[s] IN
  /\ reader[s] = "running"
  /\ ~closed[s]
  /\ fed[s] < MaxOut
  /\ fed' = [fed EXCEPT ![s] = @ + 1]
  /\ IF c = None \/ ~active[c]
       THEN UNCHANGED <<client, active, ready, chan, queue, panicked>>
     ELSE IF Len(queue[c]) < SubBuffer
       THEN /\ queue' = [queue EXCEPT ![c] = Append(@, fed[s] + 1)]
            /\ panicked' = (panicked \/ chan[c] = "closed")
            /\ UNCHANGED <<client, active, ready, chan>>
       ELSE Overflow(s)
  /\ UNCHANGED <<managerVars, key, timer, closeVars, procVars, vt, of, id,
                 socketVars, tm, driver>>

ShellExits(s) ==
  /\ shell[s] = "running"
  /\ shell' = [shell EXCEPT ![s] = "dead"]
  /\ UNCHANGED <<managerVars, key, linkVars, closeVars, poller, reader, vtVars,
                 clientVars, socketVars, tm, driver, panicked>>

\* Mutant: the exit notice is sent whether the channel has room or not.
NotifiedAlways(s) == Cut({s})

\* The attachment that is told that the shell exited, if its channel has room.
Notified(s) == {c \in Cut({s}) : Len(queue[c]) < SubBuffer}

\* readLoop met the end of the PTY: finish.
Finish(s) ==
  /\ reader[s] = "running"
  /\ shell[s] = "dead"
  /\ reader' = [reader EXCEPT ![s] = "done"]
  /\ IF closed[s]
       THEN UNCHANGED <<sessions, linkVars, closeVars, active, ready, chan, queue,
                        tm, panicked>>
       ELSE /\ MarkClosed({s}, "release")
            /\ StopTimers({s})
            /\ Unmap(s)
            /\ Revoke({s})
            /\ queue' = [c \in Clients |-> IF c \in Notified(s)
                                             THEN Append(queue[c], ExitNotice)
                                             ELSE queue[c]]
            /\ panicked' = (panicked \/ ClosePanics({s}) \/ RevokePanics({s}))
  /\ UNCHANGED <<runtime, lastId, key, poller, shell, vtVars, of, id, socketVars,
                 driver>>

PollerStops(s) ==
  /\ poller[s] = "running"
  /\ done[s]
  /\ poller' = [poller EXCEPT ![s] = "done"]
  /\ UNCHANGED <<managerVars, key, linkVars, closeVars, reader, shell, vtVars,
                 clientVars, socketVars, tm, driver, panicked>>

\* The TTL has passed: the runtime starts the goroutine that calls expire.
TimerFires(c) ==
  /\ tm[c] = "armed"
  /\ tm' = [tm EXCEPT ![c] = "fired"]
  /\ UNCHANGED <<managerVars, key, linkVars, closeVars, procVars, vtVars,
                 clientVars, socketVars, driver, panicked>>

\* Mutants: expire forgets that the session may be closed, or attached, by now.
ExpirableIfUnattended(s) == client[s] = None
ExpirableIfOpen(s) == ~closed[s]

Expirable(s) == ~closed[s] /\ client[s] = None

\* expire, up to its unlock.
Expire(c) ==
  LET s == of[c] IN
  /\ tm[c] = "fired"
  /\ tm' = [tm EXCEPT ![c] = "over"]
  /\ IF Expirable(s)
       THEN /\ MarkClosed({s}, "kill")
            /\ timer' = [timer EXCEPT ![s] = None]
            /\ Unmap(s)
            /\ panicked' = (panicked \/ ClosePanics({s}))
       ELSE UNCHANGED <<sessions, timer, closeVars, panicked>>
  /\ UNCHANGED <<runtime, lastId, key, client, procVars, vtVars, clientVars,
                 socketVars, driver>>

\* Mutant: expire leaves the shell running.
ExpireSkipsKill(s) ==
  /\ task[s] = "kill"
  /\ task' = [task EXCEPT ![s] = "release"]
  /\ UNCHANGED <<managerVars, key, linkVars, closed, done, procVars, vtVars,
                 clientVars, socketVars, tm, driver, panicked>>

\* The end of expire, and the end that finish shares with it.
ExpireKill(s) ==
  /\ task[s] = "kill"
  /\ shell' = [shell EXCEPT ![s] = "dead"]
  /\ task' = [task EXCEPT ![s] = "release"]
  /\ UNCHANGED <<managerVars, key, linkVars, closed, done, poller, reader, vtVars,
                 clientVars, socketVars, tm, driver, panicked>>

ReleaseVT(s) ==
  /\ task[s] = "release"
  /\ vt' = [vt EXCEPT ![s] = "released"]
  /\ task' = [task EXCEPT ![s] = "over"]
  /\ UNCHANGED <<managerVars, key, linkVars, closed, done, procVars, fed,
                 clientVars, socketVars, tm, driver, panicked>>

-----------------------------------------------------------------------------
(* Manager.Close, called once by the server's shutdown.                     *)

Mapped == {s \in Sessions : \E k \in Keys : sessions[k] = s}

CloseBegins ==
  /\ runtime = "open"
  /\ runtime' = "closing"
  /\ sessions' = [k \in Keys |-> None]
  /\ MarkClosed(Mapped, "shut")
  /\ StopTimers(Mapped)
  /\ Revoke(Mapped)
  /\ panicked' = (panicked \/ ClosePanics(Mapped) \/ RevokePanics(Mapped))
  /\ UNCHANGED <<lastId, key, procVars, vtVars, of, id, queue, socketVars, driver>>

\* The loop over the live sessions: Kill, wait for the poller, release.
CloseKill(s) ==
  /\ task[s] = "shut"
  /\ \A other \in Sessions : task[other] # "await"
  /\ shell' = [shell EXCEPT ![s] = "dead"]
  /\ task' = [task EXCEPT ![s] = "await"]
  /\ UNCHANGED <<managerVars, key, linkVars, closed, done, poller, reader, vtVars,
                 clientVars, socketVars, tm, driver, panicked>>

CloseRelease(s) ==
  /\ task[s] = "await"
  /\ poller[s] = "done"
  /\ vt' = [vt EXCEPT ![s] = "released"]
  /\ task' = [task EXCEPT ![s] = "over"]
  /\ UNCHANGED <<managerVars, key, linkVars, closed, done, procVars, fed,
                 clientVars, socketVars, tm, driver, panicked>>

CloseRuntime ==
  /\ runtime = "closing"
  /\ \A s \in Sessions : task[s] \notin {"shut", "await"}
  /\ runtime' = "closed"
  /\ UNCHANGED <<sessions, lastId, key, linkVars, closeVars, procVars, vtVars,
                 clientVars, socketVars, tm, driver, panicked>>

-----------------------------------------------------------------------------
\* The goroutine that closed s goes on after its unlock.
Aftermath(s) == ExpireKill(s) \/ ReleaseVT(s) \/ CloseKill(s) \/ CloseRelease(s)

SessionStep(s) ==
  \/ Broadcast(s) \/ ShellExits(s) \/ Finish(s) \/ PollerStops(s) \/ Aftermath(s)

Timeout(c) == TimerFires(c) \/ Expire(c)

HandlerStep(c) ==
  \/ SendPrefix(c) \/ Activate(c) \/ Drive(c) \/ Deliver(c) \/ StreamEnds(c)
  \/ ConnDrop(c) \/ HandlerExit(c)

AttachStep(c) ==
  \E k \in Keys : \/ Reattach(c, k)
                  \/ \E s \in Sessions : AttachNew(c, k, s)
                  \/ StartFails(c, k)

Next ==
  \/ \E c \in Clients : AttachStep(c) \/ HandlerStep(c) \/ Timeout(c)
  \/ \E s \in Sessions : SessionStep(s)
  \/ CloseBegins \/ CloseRuntime

Spec == Init /\ [][Next]_vars

\* The server's own goroutines run: timers fire when their time has come, the
\* goroutines they start get the lock, readLoop reaches the end of a dead PTY,
\* the poller sees done, and whoever closed a session goes on.  Nothing is
\* assumed of browsers, networks and shells.
Fairness ==
  /\ \A c \in Clients : WF_vars(Timeout(c))
  /\ \A s \in Sessions : /\ WF_vars(Finish(s))
                         /\ WF_vars(PollerStops(s))
                         /\ WF_vars(Aftermath(s))
  /\ WF_vars(CloseRuntime)

FairSpec == Spec /\ Fairness
=============================================================================
