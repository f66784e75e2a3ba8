------------------------------ MODULE XDisplay ------------------------------
(***************************************************************************)
(* The graphic tile's display (pkg/xdisplay): which connection may stream  *)
(* one X display, the Xorg that EnsureDisplay starts for it, the reaper    *)
(* that kills an idle display, and the shutdown of the server.             *)
(*                                                                         *)
(* There is one display; another one has map entries, files and timers of  *)
(* its own.  Xorg processes and timers are numbered in the order in which  *)
(* they are made; 0 is none.  A reaper's timer, once fired, is a goroutine *)
(* of several steps, and so is the stream's handler.                       *)
(***************************************************************************)
EXTENDS Naturals, Sequences

CONSTANTS Conns,       \* the connections
          None,
          MaxVisits,   \* bound: sessions admitted to the display
          MaxCrashes   \* bound: Xorg processes that die by themselves

ASSUME XDisplayAssumption ==
  /\ None \notin Conns
  /\ MaxVisits \in Nat
  /\ MaxCrashes \in Nat

VARIABLES
  phase,     \* the server: "up", "stopping" after StopDisplay, "exited"
  active,    \* activeDisplays[display]: the connection that holds it
  reaper,    \* displayReapers[display]: the timer the map knows
  timers,    \* all timers, each with the process its goroutine took
  cmds,      \* displayCmds[display]: the process the map knows
  xorgs,     \* the state of each Xorg process
  lock,      \* the process named in /tmp/.X99-lock
  sock,      \* the process that made /tmp/.X11-unix/X99
  at,        \* where each connection's handler is
  started,   \* the handler's own cmd
  crashes

files == <<lock, sock>>
maps == <<active, reaper, cmds>>
handlers == <<at, started>>
vars == <<phase, maps, timers, xorgs, files, handlers, crashes>>

XorgStates == {"starting", "up", "dead"}
TimerStates == {"armed", "stopped", "fired", "killing", "cleaning",
                "forgetting", "done"}
HandlerStates == {"idle", "ensure", "launch", "store", "wait", "open",
                  "stream", "leave"}
Procs == 0 .. Len(xorgs)
Timers == 1 .. Len(timers)

TypeOK ==
  /\ phase \in {"up", "stopping", "exited"}
  /\ xorgs \in Seq(XorgStates)
  /\ timers \in Seq([st : TimerStates, victim : Procs])
  /\ active \in Conns \cup {None}
  /\ reaper \in 0 .. Len(timers)
  /\ reaper # 0 => timers[reaper].st \notin {"stopped", "done"}
  /\ {cmds, lock, sock} \subseteq Procs
  /\ at \in [Conns -> HandlerStates]
  /\ started \in [Conns -> Procs]
  /\ \A c \in Conns : at[c] \in {"store", "wait"} => started[c] # 0
  /\ crashes \in Nat

Init ==
  /\ phase = "up"
  /\ active = None
  /\ reaper = 0
  /\ timers = <<>>
  /\ cmds = 0
  /\ xorgs = <<>>
  /\ lock = 0
  /\ sock = 0
  /\ at = [c \in Conns |-> "idle"]
  /\ started = [c \in Conns |-> 0]
  /\ crashes = 0

Running == phase # "exited"
Alive(p) == p # 0 /\ xorgs[p] # "dead"
Killed(p) == IF p = 0 THEN xorgs ELSE [xorgs EXCEPT ![p] = "dead"]
Goto(c, step) == at' = [at EXCEPT ![c] = step]

-----------------------------------------------------------------------------
(* Admission and release, under activeDisplaysMu.                          *)

\* timer.Stop: no effect once the timer has fired.
StopTimer(t) ==
  IF t # 0 /\ timers[t].st = "armed"
  THEN [timers EXCEPT ![t].st = "stopped"] ELSE timers

\* Mutant: an earlier session of the same display is not asked about.
Unasked == active \in Conns \cup {None}

Free == active = None

\* TryAcquireDisplay; a refused connection ends.
Acquire(c) ==
  /\ Running /\ at[c] = "idle"
  /\ Len(timers) < MaxVisits
  /\ timers' = StopTimer(reaper)
  /\ reaper' = 0
  /\ IF Free THEN active' = c /\ Goto(c, "ensure")
     ELSE UNCHANGED <<active, at>>
  /\ UNCHANGED <<phase, cmds, xorgs, files, started, crashes>>

\* Mutant: no timer for a display that does not listen.
ReapListening ==
  IF Alive(lock)
  THEN /\ timers' = Append(StopTimer(reaper), [st |-> "armed", victim |-> 0])
       /\ reaper' = Len(timers')
  ELSE UNCHANGED <<timers, reaper>>

StartReaper ==
  /\ timers' = Append(StopTimer(reaper), [st |-> "armed", victim |-> 0])
  /\ reaper' = Len(timers')

Release(c) ==
  /\ Running /\ at[c] = "leave"
  /\ IF active = c THEN active' = None /\ StartReaper
     ELSE UNCHANGED <<active, timers, reaper>>
  /\ Goto(c, "idle")
  /\ started' = [started EXCEPT ![c] = 0]
  /\ UNCHANGED <<phase, cmds, xorgs, files, crashes>>

-----------------------------------------------------------------------------
(* EnsureDisplay.                                                          *)

\* probeDisplay: a live process and a socket; what a dead one left is
\* removed, and a socket without a lock file too.
Listening == Alive(lock) /\ sock # 0
SweepStale == IF Alive(lock) THEN UNCHANGED files ELSE lock' = 0 /\ sock' = 0

Ensure(c) ==
  /\ Running /\ at[c] = "ensure"
  /\ SweepStale
  /\ Goto(c, IF Listening THEN "open" ELSE "launch")
  /\ UNCHANGED <<phase, maps, timers, xorgs, started, crashes>>

Launch(c) ==
  /\ Running /\ at[c] = "launch"
  /\ xorgs' = Append(xorgs, "starting")
  /\ started' = [started EXCEPT ![c] = Len(xorgs')]
  /\ Goto(c, "store")
  /\ UNCHANGED <<phase, maps, timers, files, crashes>>

LaunchFails(c) ==
  /\ Running /\ at[c] = "launch"
  /\ Goto(c, "leave")
  /\ UNCHANGED <<phase, maps, timers, xorgs, files, started, crashes>>

\* Mutant: an entry that is there is kept.
StoreFirst(c) ==
  /\ Running /\ at[c] = "store"
  /\ cmds' = IF cmds = 0 THEN started[c] ELSE cmds
  /\ Goto(c, "wait")
  /\ UNCHANGED <<phase, active, reaper, timers, xorgs, files, started, crashes>>

Store(c) ==
  /\ Running /\ at[c] = "store"
  /\ cmds' = started[c]
  /\ Goto(c, "wait")
  /\ UNCHANGED <<phase, active, reaper, timers, xorgs, files, started, crashes>>

\* One probe of waitReady.
Poll(c) ==
  /\ Running /\ at[c] = "wait"
  /\ SweepStale
  /\ Goto(c, IF Listening THEN "open" ELSE "wait")
  /\ UNCHANGED <<phase, maps, timers, xorgs, started, crashes>>

\* Five seconds are over.
WaitEnds(c) ==
  /\ Running /\ at[c] = "wait"
  /\ xorgs' = Killed(started[c])
  /\ Goto(c, "leave")
  /\ UNCHANGED <<phase, maps, timers, files, started, crashes>>

-----------------------------------------------------------------------------
(* The session.                                                            *)

Answers == sock # 0 /\ xorgs[sock] = "up"

\* NewSession connects to the display, and may miss the window it looks for.
Open(c) ==
  /\ Running /\ at[c] = "open"
  /\ \/ Answers /\ Goto(c, "stream")
     \/ Goto(c, "leave")
  /\ UNCHANGED <<phase, maps, timers, xorgs, files, started, crashes>>

\* The browser goes away, or the server closes its connections.
Disconnect(c) ==
  /\ Running /\ at[c] = "stream"
  /\ Goto(c, "leave")
  /\ UNCHANGED <<phase, maps, timers, xorgs, files, started, crashes>>

-----------------------------------------------------------------------------
(* The reaper.                                                             *)

Becomes(t, from, to) ==
  /\ Running /\ timers[t].st = from
  /\ timers' = [timers EXCEPT ![t].st = to]

TimerFires(t) ==
  /\ Becomes(t, "armed", "fired")
  /\ UNCHANGED <<phase, maps, xorgs, files, handlers, crashes>>

\* KillDisplay takes the entry under displayCmdsMu, then kills and sweeps.
TakeVictim(t) ==
  /\ Running /\ timers[t].st = "fired"
  /\ timers' = [timers EXCEPT ![t] = [st |-> "killing", victim |-> cmds]]
  /\ cmds' = 0
  /\ UNCHANGED <<phase, active, reaper, xorgs, files, handlers, crashes>>

KillVictim(t) ==
  /\ Becomes(t, "killing", "cleaning")
  /\ xorgs' = Killed(timers[t].victim)
  /\ UNCHANGED <<phase, maps, files, handlers, crashes>>

RemoveFiles(t) ==
  /\ Becomes(t, "cleaning", "forgetting")
  /\ lock' = 0
  /\ sock' = 0
  /\ UNCHANGED <<phase, maps, xorgs, handlers, crashes>>

\* Mutant: the map keeps the entry of a timer that is over.
ForgetNothing(t) ==
  /\ Becomes(t, "forgetting", "done")
  /\ UNCHANGED <<phase, maps, xorgs, files, handlers, crashes>>

Forget(t) ==
  /\ Becomes(t, "forgetting", "done")
  /\ reaper' = 0
  /\ UNCHANGED <<phase, active, cmds, xorgs, files, handlers, crashes>>

-----------------------------------------------------------------------------
(* Xorg, and the end of the server.                                        *)

\* Xorg replaces the files of a dead server and yields to a living one.
XorgUp(p) ==
  /\ xorgs[p] = "starting"
  /\ IF Alive(lock)
     THEN xorgs' = Killed(p) /\ UNCHANGED files
     ELSE xorgs' = [xorgs EXCEPT ![p] = "up"] /\ lock' = p /\ sock' = p
  /\ UNCHANGED <<phase, maps, timers, handlers, crashes>>

\* Xorg dies; its files stay.
XorgDies(p) ==
  /\ Alive(p)
  /\ crashes < MaxCrashes
  /\ crashes' = crashes + 1
  /\ xorgs' = Killed(p)
  /\ UNCHANGED <<phase, maps, timers, files, handlers>>

StopDisplay ==
  /\ phase = "up"
  /\ phase' = "stopping"
  /\ xorgs' = Killed(cmds)
  /\ cmds' = 0
  /\ UNCHANGED <<active, reaper, timers, files, handlers, crashes>>

\* main returns, or its watchdog ends the process.
Exit ==
  /\ phase = "stopping"
  /\ phase' = "exited"
  /\ UNCHANGED <<maps, timers, xorgs, files, handlers, crashes>>

-----------------------------------------------------------------------------
\* What a handler does without waiting for anyone.
HandlerStep(c) ==
  Ensure(c) \/ Launch(c) \/ LaunchFails(c) \/ Store(c) \/ WaitEnds(c)
    \/ Open(c) \/ Release(c)

ReaperStep(t) ==
  TimerFires(t) \/ TakeVictim(t) \/ KillVictim(t) \/ RemoveFiles(t) \/ Forget(t)

Next ==
  \/ \E c \in Conns : Acquire(c) \/ HandlerStep(c) \/ Poll(c) \/ Disconnect(c)
  \/ \E t \in Timers : ReaperStep(t)
  \/ \E p \in Procs \ {0} : XorgUp(p) \/ XorgDies(p)
  \/ StopDisplay \/ Exit

\* Handlers run, waitReady ends after five seconds, timers fire.  Browsers,
\* Xorg and the operator owe nothing.
Fairness ==
  /\ \A c \in Conns : WF_vars(HandlerStep(c))
  /\ \A t \in 1 .. MaxVisits : WF_vars(t \in Timers /\ ReaperStep(t))

Spec == Init /\ [][Next]_vars
FairSpec == Spec /\ Fairness

-----------------------------------------------------------------------------
\* TryAcquireDisplay and ReleaseDisplay: from its admission to its release a
\* connection is the one the display belongs to, so two handlers never launch
\* Xorg, resize or inject input at once, and no release strands the display.
OneSession == \A c \in Conns : at[c] # "idle" <=> active = c

\* A display that is left alone is reaped: whatever sessions, failures and
\* reapers came before, and whichever of them overlapped, no process entry
\* outlives the last session for ever.
IdleIsReaped ==
  <>[](active = None /\ phase = "up") => <>[](cmds = 0)

\* An Xorg that the map does not name yet, or names no longer: its handler is
\* about to put it there, or a reaper has taken it and not killed it yet.
InFlight(p) ==
  \/ \E c \in Conns : at[c] = "store" /\ started[c] = p
  \/ \E t \in Timers : timers[t] = [st |-> "killing", victim |-> p]

\* Until StopDisplay, an Xorg that clients can reach is in the map, where the
\* next reaper or StopDisplay finds it, or in flight; a reaper that removes the
\* files of a newer Xorg makes it unreachable, but leaves none reachable and
\* unowned.  StopDisplay itself spares only what is in flight, and nothing is
\* promised of what is launched or stored after it: nobody kills that any more,
\* so it outlives the server against main.go:744 ("don't orphan it") and
\* xvfb.go:340-342 ("don't outlive their owner").
ReachableIsOwned ==
  [][ /\ phase' = "up" /\ Alive(lock)' => cmds' = lock' \/ InFlight(lock)'
      /\ phase = "up" /\ phase' # phase /\ Alive(lock)' => InFlight(lock)'
    ]_vars

=============================================================================
