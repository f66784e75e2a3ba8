-------------------------- MODULE PtySessionProps --------------------------
(***************************************************************************)
(* The correctness properties of the keyed shell sessions.                 *)
(***************************************************************************)
EXTENDS PtySession

\* No goroutine closes a session's done channel or an attachment's frame
\* channel twice, or sends a frame after the close, whatever the order in which
\* shell exit, TTL expiry, a newer attachment, a slow browser and shutdown meet
\* (a Go panic would end the server, and with it every other session).
NoPanic == ~panicked

\* Every shell that nobody has closed is the one its key leads to: a reconnect
\* finds it and shutdown kills it.  (Attach, finish, expire and Close each edit
\* the map; an entry lost or overwritten leaves a shell nobody can reach.)
LiveSessionsMapped ==
  \A s \in Sessions : key[s] # None /\ ~closed[s] => sessions[key[s]] = s

\* What a current attachment has shown and what waits in its channel is all the
\* emulator was fed: the replay and the live frames meet without a gap.
CurrentMissesNothing ==
  \A s \in Sessions :
    client[s] # None => seen[client[s]] + Len(queue[client[s]]) = fed[s]

\* A revoked attachment's frames still are consecutive chunks that follow its
\* screen, and the exit notice, if it is there, is the last frame of all.
FramesConsecutive ==
  \A c \in Clients : \A i \in 1..Len(queue[c]) :
    \/ queue[c][i] = seen[c] + i
    \/ queue[c][i] = ExitNotice /\ i = Len(queue[c]) /\ chan[c] = "closed"

\* "There is deliberately one writable attachment per session": whoever typed
\* into, resized or refreshed the PTY is the newest attachment of that session;
\* a tab that lost its session to another one cannot write into the shell.
OneWriter ==
  \A s \in Sessions : driver[s] # None =>
    /\ of[driver[s]] = s
    /\ \A c \in Clients : of[c] = s => id[c] <= id[driver[s]]

\* The emulator of a session is released only once no critical section can use
\* it again, and shutdown closes the runtime only after the emulators of the
\* sessions it closed.
NoUseAfterRelease ==
  /\ \A s \in Sessions : vt[s] = "released" => closed[s] /\ client[s] = None
  /\ runtime = "closed" => \A s \in Sessions : task[s] \notin {"shut", "await"}

\* A browser is shown a complete replay and then every chunk in order.
Stream == INSTANCE ScreenStream
            WITH Viewers <- Clients, printed <- fed, shown <- seen, watching <- of
ScreenIsExact == Stream!Spec

\* A session that finish, expire or Close has closed loses its shell and its
\* emulator in the end, whichever of them closed it.
ClosedIsCleanedUp ==
  \A s \in Sessions : closed[s] ~> (shell[s] = "dead" /\ vt[s] = "released")

\* Close returns: it waits for every state poller, and all of them stop.
ShutdownCompletes == (runtime = "closing") ~> (runtime = "closed")

\* An armed TTL ends: a new attachment, the shell's exit or shutdown cancels it,
\* or it closes the session.
TTLEnds == \A s \in Sessions : (timer[s] # None) ~> (timer[s] = None)

\* "DefaultTTL is how long a session with no attached client stays alive before
\* its shell is killed": a session does not stay without a client for ever.
UnattendedEnds ==
  \A s \in Sessions :
    (key[s] # None /\ client[s] = None) ~> (closed[s] \/ client[s] # None)
=============================================================================
