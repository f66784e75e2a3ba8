--------------------------- MODULE XDisplayProofs ---------------------------
(***************************************************************************)
(* X11 displays, for any number of connections, visits, overlapping        *)
(* reapers and dying Xorg processes: one session at a time; the type       *)
(* invariant; and that a reachable Xorg has somebody to kill it.           *)
(***************************************************************************)
EXTENDS XDisplay, SequenceTheorems, TLAPS

\* OneSession is inductive as soon as `at' is known to be a function.
Admitted ==
  /\ at \in [Conns -> HandlerStates]
  /\ OneSession

\* A handler that moves on within its session keeps the display.
LEMMA Moving ==
  ASSUME NEW c \in Conns, NEW step \in HandlerStates \ {"idle"},
         Admitted, at[c] # "idle", Goto(c, step), UNCHANGED active
  PROVE  Admitted'
  BY DEF Admitted, OneSession, Goto

\* Whatever touches neither the map nor a handler disturbs nothing.
LEMMA Elsewhere ==
  ASSUME Admitted, UNCHANGED <<active, at>>
  PROVE  Admitted'
  BY DEF Admitted, OneSession

\* TryAcquireDisplay admits one connection and only to a free display.
LEMMA Admission ==
  ASSUME NEW c \in Conns, Admitted, Acquire(c)
  PROVE  Admitted'
<1>1. CASE Free
  <2>1. active' = c /\ at' = [at EXCEPT ![c] = "ensure"]
    BY <1>1 DEF Acquire, Goto
  <2>2. \A d \in Conns : at[d] = "idle"
    BY <1>1, XDisplayAssumption DEF Admitted, OneSession, Free
  <2>3. QED
    BY <2>1, <2>2 DEF Admitted, OneSession, HandlerStates
<1>2. CASE ~Free
  BY <1>2, Elsewhere DEF Acquire
<1>3. QED
  BY <1>1, <1>2

\* ReleaseDisplay frees the display of the connection that holds it.
LEMMA Releasing ==
  ASSUME NEW c \in Conns, Admitted, Release(c)
  PROVE  Admitted'
<1>1. active = c
  BY DEF Admitted, OneSession, Release
<1>2. active' = None /\ at' = [at EXCEPT ![c] = "idle"]
  BY <1>1 DEF Release, Goto
<1>3. \A d \in Conns \ {c} : at[d] = "idle"
  BY <1>1 DEF Admitted, OneSession
<1>4. QED
  BY <1>2, <1>3, XDisplayAssumption DEF Admitted, OneSession, HandlerStates

LEMMA HandlerKeepsAdmitted ==
  ASSUME NEW c \in Conns, Admitted,
         HandlerStep(c) \/ Poll(c) \/ Disconnect(c)
  PROVE  Admitted'
<1>1. CASE Ensure(c)
  BY <1>1, Moving DEF Ensure, maps, HandlerStates
<1>2. CASE Launch(c)
  BY <1>2, Moving DEF Launch, maps, HandlerStates
<1>3. CASE LaunchFails(c)
  BY <1>3, Moving DEF LaunchFails, maps, HandlerStates
<1>4. CASE Store(c)
  BY <1>4, Moving DEF Store, HandlerStates
<1>5. CASE WaitEnds(c)
  BY <1>5, Moving DEF WaitEnds, maps, HandlerStates
<1>6. CASE Open(c)
  BY <1>6, Moving DEF Open, maps, HandlerStates
<1>7. CASE Release(c)
  BY <1>7, Releasing
<1>8. CASE Poll(c)
  BY <1>8, Moving DEF Poll, maps, HandlerStates
<1>9. CASE Disconnect(c)
  BY <1>9, Moving DEF Disconnect, maps, HandlerStates
<1>10. QED
  BY <1>1, <1>2, <1>3, <1>4, <1>5, <1>6, <1>7, <1>8, <1>9 DEF HandlerStep

LEMMA OthersKeepAdmitted ==
  ASSUME Admitted,
         \/ \E t \in Timers : ReaperStep(t)
         \/ \E p \in Procs \ {0} : XorgUp(p) \/ XorgDies(p)
         \/ StopDisplay \/ Exit
  PROVE  Admitted'
<1>1. UNCHANGED <<active, at>>
  BY DEF ReaperStep, TimerFires, TakeVictim, KillVictim, RemoveFiles, Forget,
         XorgUp, XorgDies, StopDisplay, Exit, maps, handlers
<1>2. QED
  BY <1>1, Elsewhere

-----------------------------------------------------------------------------
\* At any time the display belongs to the one connection that is between
\* TryAcquireDisplay and ReleaseDisplay, if there is one.
THEOREM DisplayHasOneSession == Spec => []OneSession
<1>1. Init => Admitted
  BY XDisplayAssumption DEF Init, Admitted, OneSession, HandlerStates
<1>2. Admitted /\ [Next]_vars => Admitted'
  <2> SUFFICES ASSUME Admitted, [Next]_vars PROVE Admitted'
    OBVIOUS
  <2>1. ASSUME NEW c \in Conns,
               Acquire(c) \/ HandlerStep(c) \/ Poll(c) \/ Disconnect(c)
        PROVE  Admitted'
    BY <2>1, Admission, HandlerKeepsAdmitted
  <2>2. CASE UNCHANGED vars
    BY <2>2, Elsewhere DEF vars, maps, handlers
  <2>3. QED
    BY <2>1, <2>2, OthersKeepAdmitted DEF Next
<1>3. Admitted => OneSession
  BY DEF Admitted
<1>4. QED
  BY <1>1, <1>2, <1>3, PTL DEF Spec

-----------------------------------------------------------------------------
(* Types, and who owns Xorg. *)
Timer == [st : TimerStates, victim : Procs]

-----------------------------------------------------------------------------
(* What the operators on the two sequences do.                             *)

LEMMA ProcsAreNumbers == TypeOK => Procs \subseteq Nat /\ Len(xorgs) \in Nat
  BY LenProperties DEF TypeOK, Procs

\* Only the process that is killed changes.
LEMMA Killing ==
  ASSUME TypeOK, NEW p \in Procs, xorgs' = Killed(p)
  PROVE  /\ xorgs' \in Seq(XorgStates)
         /\ Len(xorgs') = Len(xorgs)
         /\ \A q \in Procs \ {0} : xorgs'[q] = IF q = p THEN "dead" ELSE xorgs[q]
<1>1. CASE p = 0
  BY <1>1 DEF Killed, TypeOK, Procs
<1>2. CASE p # 0
  <2>1. p \in 1 .. Len(xorgs) /\ "dead" \in XorgStates
    BY <1>2, ProcsAreNumbers DEF Procs, XorgStates
  <2>2. xorgs' = [xorgs EXCEPT ![p] = "dead"]
    BY <1>2 DEF Killed
  <2>3. QED
    BY <2>1, <2>2, ExceptSeq, ProcsAreNumbers DEF TypeOK, Procs
<1>3. QED
  BY <1>1, <1>2

\* A timer moves to another state or takes a victim, and the others stay.
LEMMA TimerSet ==
  ASSUME TypeOK, NEW t \in Timers, NEW new \in Timer,
         timers' = [timers EXCEPT ![t] = new]
  PROVE  /\ timers' \in Seq(Timer)
         /\ Len(timers') = Len(timers)
         /\ \A u \in Timers : timers'[u] = IF u = t THEN new ELSE timers[u]
  BY ExceptSeq DEF TypeOK, Timers, Timer

LEMMA TimerMoves ==
  ASSUME TypeOK, NEW t \in Timers, NEW from, NEW to \in TimerStates, Becomes(t, from, to)
  PROVE  /\ timers[t].st = from
         /\ timers' \in Seq(Timer)
         /\ Len(timers') = Len(timers)
         /\ \A u \in Timers :
              timers'[u] = IF u = t THEN [st |-> to, victim |-> timers[t].victim] ELSE timers[u]
<1>1. timers[t] \in Timer
  BY ElementOfSeq DEF TypeOK, Timers, Timer
<1>2. [timers[t] EXCEPT !.st = to] = [st |-> to, victim |-> timers[t].victim]
  BY <1>1 DEF Timer
<1>3. [st |-> to, victim |-> timers[t].victim] \in Timer
  BY <1>1 DEF Timer
<1>4. timers' = [timers EXCEPT ![t] = [st |-> to, victim |-> timers[t].victim]]
  BY <1>2 DEF Becomes
<1>5. QED
  BY <1>3, <1>4, TimerSet DEF Becomes

\* timer.Stop stops the timer of the map if it has not fired.
LEMMA TimerStops ==
  ASSUME TypeOK
  PROVE  /\ StopTimer(reaper) \in Seq(Timer)
         /\ Len(StopTimer(reaper)) = Len(timers)
         /\ \A u \in Timers :
              timers[u].st # "armed" => StopTimer(reaper)[u] = timers[u]
         /\ \A u \in Timers :
              StopTimer(reaper)[u].st = "killing" => StopTimer(reaper)[u] = timers[u]
<1>1. CASE reaper # 0 /\ timers[reaper].st = "armed"
  <2>0. reaper \in Timers
    <3>1. Len(timers) \in Nat /\ reaper \in 0 .. Len(timers)
      BY LenProperties DEF TypeOK
    <3>2. QED
      BY <1>1, <3>1 DEF Timers
  <2>1. timers[reaper] \in Timer
    BY <2>0, ElementOfSeq DEF TypeOK, Timers, Timer
  <2>2. [timers[reaper] EXCEPT !.st = "stopped"] = [st |-> "stopped", victim |-> timers[reaper].victim]
    BY <2>1 DEF Timer
  <2>3. [st |-> "stopped", victim |-> timers[reaper].victim] \in Timer
    BY <2>1 DEF Timer, TimerStates
  <2>4. StopTimer(reaper) = [timers EXCEPT ![reaper] = [st |-> "stopped", victim |-> timers[reaper].victim]]
    BY <1>1, <2>2 DEF StopTimer
  <2>5. QED
    BY <1>1, <2>0, <2>3, <2>4, ExceptSeq DEF TypeOK, Timers, Timer
<1>2. CASE ~(reaper # 0 /\ timers[reaper].st = "armed")
  BY <1>2 DEF StopTimer, TypeOK, Timer
<1>3. QED
  BY <1>1, <1>2

\* A new timer comes after the others.
LEMMA TimerStarts ==
  ASSUME TypeOK, StartReaper
  PROVE  /\ timers' \in Seq(Timer)
         /\ Len(timers') = Len(timers) + 1 /\ reaper' = Len(timers')
         /\ timers'[Len(timers')] = [st |-> "armed", victim |-> 0]
         /\ \A u \in Timers :
              /\ timers[u].st # "armed" => timers'[u] = timers[u]
              /\ timers'[u].st = "killing" => timers'[u] = timers[u]
<1>1. [st |-> "armed", victim |-> 0] \in Timer
  BY ProcsAreNumbers DEF Timer, TimerStates, Procs
<1>2. QED
  BY <1>1, TimerStops, AppendProperties DEF StartReaper, Timers

-----------------------------------------------------------------------------
(* Type correctness.                                                       *)

XorgTypes ==
  /\ xorgs \in Seq(XorgStates)
  /\ {cmds, lock, sock} \subseteq Procs
  /\ started \in [Conns -> Procs]
  /\ \A c \in Conns : at[c] \in {"store", "wait"} => started[c] # 0
TimerTypes ==
  /\ timers \in Seq(Timer)
  /\ reaper \in 0 .. Len(timers)
  /\ reaper # 0 => timers[reaper].st \notin {"stopped", "done"}
OtherTypes ==
  /\ phase \in {"up", "stopping", "exited"}
  /\ active \in Conns \cup {None}
  /\ at \in [Conns -> HandlerStates]
  /\ crashes \in Nat

LEMMA TypesSplit == TypeOK <=> XorgTypes /\ TimerTypes /\ OtherTypes
  BY DEF TypeOK, XorgTypes, TimerTypes, OtherTypes, Timer

LEMMA OtherTypesKept == TypeOK /\ [Next]_vars => OtherTypes'
  <1> SUFFICES ASSUME TypeOK, [Next]_vars PROVE OtherTypes'
    OBVIOUS
  <1> USE DEF TypeOK, OtherTypes, HandlerStates, Goto, maps, handlers, files
  <1>1. ASSUME NEW c \in Conns, Acquire(c) \/ HandlerStep(c) \/ Poll(c) \/ Disconnect(c)
        PROVE  OtherTypes'
    BY <1>1 DEF Acquire, HandlerStep, Ensure, Launch, LaunchFails, Store, Poll, WaitEnds,
       Open, Disconnect, Release
  <1>2. ASSUME NEW t \in Timers, ReaperStep(t) PROVE OtherTypes'
    BY <1>2 DEF ReaperStep, TimerFires, TakeVictim, KillVictim, RemoveFiles, Forget
  <1>3. ASSUME NEW p \in Procs \ {0}, XorgUp(p) \/ XorgDies(p) PROVE OtherTypes'
    BY <1>3 DEF XorgUp, XorgDies
  <1>4. CASE StopDisplay \/ Exit
    BY <1>4 DEF StopDisplay, Exit
  <1>5. CASE UNCHANGED vars
    BY <1>5 DEF vars
  <1>6. QED
    BY <1>1, <1>2, <1>3, <1>4, <1>5 DEF Next

\* Processes are appended, come up, or end.
LEMMA XorgsChange ==
  ASSUME TypeOK, [Next]_vars
  PROVE  \/ UNCHANGED xorgs
         \/ \E p \in Procs : xorgs' = Killed(p)
         \/ xorgs' = Append(xorgs, "starting")
         \/ \E p \in Procs \ {0} : xorgs' = [xorgs EXCEPT ![p] = "up"]
<1>1. \A t \in Timers : timers[t] \in Timer
  BY ElementOfSeq DEF TypeOK, Timers, Timer
<1>2. ASSUME NEW c \in Conns, Acquire(c) \/ HandlerStep(c) \/ Poll(c) \/ Disconnect(c)
      PROVE  \/ UNCHANGED xorgs
             \/ \E p \in Procs : xorgs' = Killed(p)
             \/ xorgs' = Append(xorgs, "starting")
  BY <1>2 DEF Acquire, HandlerStep, Ensure, Launch, LaunchFails, Store, Poll, WaitEnds,
     Open, Disconnect, Release, TypeOK
<1>3. ASSUME NEW t \in Timers, ReaperStep(t)
      PROVE  UNCHANGED xorgs \/ \E p \in Procs : xorgs' = Killed(p)
  BY <1>1, <1>3 DEF ReaperStep, TimerFires, TakeVictim, KillVictim, RemoveFiles, Forget, Timer
<1>4. ASSUME NEW p \in Procs \ {0}, XorgUp(p) \/ XorgDies(p)
      PROVE  xorgs' = Killed(p) \/ xorgs' = [xorgs EXCEPT ![p] = "up"]
  BY <1>4 DEF XorgUp, XorgDies
<1>5. CASE StopDisplay \/ Exit \/ UNCHANGED vars
  BY <1>5 DEF StopDisplay, Exit, vars, TypeOK
<1>6. QED
  BY <1>2, <1>3, <1>4, <1>5 DEF Next

\* No process is ever forgotten.
LEMMA XorgsGrow ==
  ASSUME TypeOK, [Next]_vars
  PROVE  Len(xorgs') \in Nat /\ Len(xorgs) <= Len(xorgs')
<1>1. xorgs \in Seq(XorgStates) /\ Len(xorgs) \in Nat
  BY ProcsAreNumbers DEF TypeOK
<1>2. ASSUME NEW p \in Procs, xorgs' = Killed(p) PROVE Len(xorgs') = Len(xorgs)
  BY <1>2, Killing
<1>3. CASE xorgs' = Append(xorgs, "starting")
  BY <1>1, <1>3, AppendProperties DEF XorgStates
<1>4. ASSUME NEW p \in Procs \ {0}, xorgs' = [xorgs EXCEPT ![p] = "up"]
      PROVE  Len(xorgs') = Len(xorgs)
  BY <1>1, <1>4, ExceptSeq DEF XorgStates, Procs
<1>5. QED
  BY <1>1, <1>2, <1>3, <1>4, XorgsChange

LEMMA XorgTypesKept == TypeOK /\ [Next]_vars => XorgTypes'
  <1> SUFFICES ASSUME TypeOK, [Next]_vars PROVE XorgTypes'
    OBVIOUS
  <1>0. /\ XorgTypes /\ at \in [Conns -> HandlerStates]
        /\ Procs \subseteq Nat /\ Len(xorgs) \in Nat
    BY TypesSplit, ProcsAreNumbers DEF TypeOK
  <1>1. ASSUME UNCHANGED <<xorgs, cmds, started>>, lock' \in {0, lock}, sock' \in {0, sock},
               \A c \in Conns : at'[c] \in {"store", "wait"} => at[c] \in {"store", "wait"}
        PROVE  XorgTypes'
    BY <1>0, <1>1 DEF XorgTypes, Procs
  <1>2. ASSUME NEW p \in Procs, xorgs' = Killed(p), cmds' \in {0, cmds},
               UNCHANGED <<lock, sock, started>>,
               \A c \in Conns : at'[c] \in {"store", "wait"} => at[c] \in {"store", "wait"}
        PROVE  XorgTypes'
    BY <1>0, <1>2, Killing DEF XorgTypes, Procs
  <1>3. ASSUME NEW c \in Conns, Acquire(c) PROVE XorgTypes'
    BY <1>0, <1>1, <1>3 DEF Acquire, files, Goto
  <1>4. ASSUME NEW c \in Conns, Ensure(c) \/ Poll(c) PROVE XorgTypes'
    BY <1>0, <1>1, <1>4 DEF Ensure, Poll, SweepStale, files, maps, Goto
  <1>5. ASSUME NEW c \in Conns, Launch(c) PROVE XorgTypes'
    <2>1. xorgs' \in Seq(XorgStates) /\ Len(xorgs') = Len(xorgs) + 1
      BY <1>0, <1>5, AppendProperties DEF Launch, XorgTypes, XorgStates
    <2>2. Procs' = Procs \cup {Len(xorgs) + 1}
      BY <1>0, <2>1 DEF Procs
    <2>3. started' = [started EXCEPT ![c] = Len(xorgs) + 1] /\ at' = [at EXCEPT ![c] = "store"]
      BY <1>5, <2>1 DEF Launch, Goto
    <2>4. UNCHANGED <<cmds, lock, sock>>
      BY <1>5 DEF Launch, maps, files
    <2>5. QED
      BY <1>0, <2>1, <2>2, <2>3, <2>4 DEF XorgTypes
  <1>6. ASSUME NEW c \in Conns, Store(c) PROVE XorgTypes'
    BY <1>0, <1>6 DEF Store, Goto, files, XorgTypes, Procs
  <1>7. ASSUME NEW c \in Conns, WaitEnds(c) PROVE XorgTypes'
    <2>1. started[c] \in Procs
      BY <1>0 DEF XorgTypes
    <2>2. QED
      BY <1>0, <1>2, <1>7, <2>1 DEF WaitEnds, Goto, files, maps
  <1>8. ASSUME NEW c \in Conns, LaunchFails(c) \/ Open(c) \/ Disconnect(c) PROVE XorgTypes'
    BY <1>0, <1>1, <1>8 DEF LaunchFails, Open, Disconnect, Goto, files, maps
  <1>9. ASSUME NEW c \in Conns, Release(c) PROVE XorgTypes'
    BY <1>0, <1>9 DEF Release, Goto, files, XorgTypes, Procs
  <1>10. ASSUME NEW t \in Timers, ReaperStep(t) PROVE XorgTypes'
    <2>1. CASE KillVictim(t)
      <3>0. timers[t] \in [st : TimerStates, victim : Procs]
        BY ElementOfSeq DEF TypeOK, Timers
      <3>1. timers[t].victim \in Procs
        BY <3>0
      <3>2. QED
        BY <1>2, <2>1, <3>1 DEF KillVictim, files, maps, handlers
    <2>2. CASE TakeVictim(t)
      BY <1>0, <2>2 DEF TakeVictim, files, handlers, XorgTypes, Procs
    <2>3. CASE RemoveFiles(t)
      BY <1>1, <2>3 DEF RemoveFiles, handlers, maps
    <2>4. QED
      BY <1>1, <1>10, <2>1, <2>2, <2>3 DEF ReaperStep, TimerFires, Forget, files, handlers, maps
  <1>11. ASSUME NEW p \in Procs \ {0}, XorgUp(p) PROVE XorgTypes'
    <2>1. CASE Alive(lock)
      BY <1>2, <1>11, <2>1 DEF XorgUp, files, handlers, maps
    <2>2. CASE ~Alive(lock)
      <3>1. /\ xorgs' = [xorgs EXCEPT ![p] = "up"] /\ lock' = p /\ sock' = p
            /\ UNCHANGED <<cmds, started, at>>
        BY <1>11, <2>2 DEF XorgUp, handlers, maps
      <3>2. xorgs' \in Seq(XorgStates) /\ Len(xorgs') = Len(xorgs)
        BY <1>0, <3>1, ExceptSeq DEF XorgTypes, Procs, XorgStates
      <3>3. QED
        BY <1>0, <3>1, <3>2 DEF XorgTypes, Procs
    <2>3. QED
      BY <2>1, <2>2
  <1>12. ASSUME NEW p \in Procs \ {0}, XorgDies(p) PROVE XorgTypes'
    BY <1>2, <1>12 DEF XorgDies, files, handlers, maps
  <1>13. CASE StopDisplay
    BY <1>0, <1>2, <1>13 DEF StopDisplay, files, handlers, XorgTypes
  <1>14. CASE Exit \/ UNCHANGED vars
    BY <1>1, <1>14 DEF Exit, vars, files, handlers, maps
  <1>15. QED
    BY <1>3, <1>4, <1>5, <1>6, <1>7, <1>8, <1>9, <1>10, <1>11, <1>12, <1>13, <1>14
       DEF Next, HandlerStep

LEMMA TimerTypesKept == TypeOK /\ [Next]_vars => TimerTypes'
  <1> SUFFICES ASSUME TypeOK, [Next]_vars PROVE TimerTypes'
    OBVIOUS
  <1>0. TimerTypes /\ Len(timers) \in Nat /\ Len(xorgs) \in Nat
    BY TypesSplit, ProcsAreNumbers, LenProperties DEF TimerTypes
  <1>1. ASSUME timers' \in Seq(Timer), reaper' \in 0 .. Len(timers'), Len(xorgs') \in Nat,
               reaper' # 0 => timers'[reaper'].st \notin {"stopped", "done"},
               Len(xorgs) <= Len(xorgs')
        PROVE  TimerTypes'
    <2>1. Timer \subseteq Timer'
      BY <1>0, <1>1 DEF Timer, Procs
    <2>2. timers' \in Seq(Timer')
      BY <1>1, <2>1
    <2>3. QED
      BY <1>1, <2>2 DEF TimerTypes
  <1>2. Len(xorgs') \in Nat /\ Len(xorgs) <= Len(xorgs')
    BY XorgsGrow
  <1>3. ASSUME UNCHANGED <<timers, reaper>> PROVE TimerTypes'
    BY <1>0, <1>1, <1>2, <1>3 DEF TimerTypes
  <1>4. ASSUME NEW c \in Conns, Acquire(c) PROVE TimerTypes'
    BY <1>0, <1>1, <1>2, <1>4, TimerStops DEF Acquire
  <1>5. ASSUME NEW c \in Conns, Release(c) PROVE TimerTypes'
    <2>1. CASE active = c
      BY <1>0, <1>1, <1>2, <1>5, <2>1, TimerStarts DEF Release
    <2>2. CASE active # c
      BY <1>3, <1>5, <2>2 DEF Release
    <2>3. QED
      BY <2>1, <2>2
  <1>6. ASSUME NEW t \in Timers, NEW from, NEW to \in TimerStates \ {"stopped", "done"},
               Becomes(t, from, to), UNCHANGED reaper
        PROVE  TimerTypes'
    <2>1. /\ timers' \in Seq(Timer) /\ Len(timers') = Len(timers)
          /\ \A u \in Timers :
               timers'[u] = IF u = t THEN [st |-> to, victim |-> timers[t].victim] ELSE timers[u]
      BY <1>6, TimerMoves
    <2>2. reaper # 0 => reaper \in Timers
      BY <1>0 DEF TimerTypes, Timers
    <2>3. \A u \in Timers : timers'[u].st = to \/ timers'[u] = timers[u]
      BY <2>1
    <2>4. reaper' # 0 => timers'[reaper'].st \notin {"stopped", "done"}
      BY <1>0, <1>6, <2>2, <2>3 DEF TimerTypes
    <2>5. QED
      BY <1>0, <1>1, <1>2, <1>6, <2>1, <2>4 DEF TimerTypes
  <1>7. ASSUME NEW t \in Timers, ReaperStep(t) PROVE TimerTypes'
    <2>1. CASE TakeVictim(t)
      <3>1. [st |-> "killing", victim |-> cmds] \in Timer
        BY DEF TypeOK, Timer, TimerStates
      <3>2. /\ timers' \in Seq(Timer) /\ Len(timers') = Len(timers)
            /\ \A u \in Timers : timers'[u].st = "killing" \/ timers'[u] = timers[u]
        <4>1. timers' = [timers EXCEPT ![t] = [st |-> "killing", victim |-> cmds]]
          BY <2>1 DEF TakeVictim
        <4>2. /\ timers' \in Seq(Timer) /\ Len(timers') = Len(timers)
              /\ \A u \in Timers :
                   timers'[u] = IF u = t THEN [st |-> "killing", victim |-> cmds] ELSE timers[u]
          BY <3>1, <4>1, TimerSet
        <4>3. QED
          BY <4>2
      <3>3. reaper' = reaper /\ (reaper # 0 => reaper \in Timers)
        BY <1>0, <2>1 DEF TakeVictim, TimerTypes, Timers
      <3>4. reaper' # 0 => timers'[reaper'].st \notin {"stopped", "done"}
        BY <1>0, <3>2, <3>3 DEF TimerTypes
      <3>5. QED
        BY <1>0, <1>1, <1>2, <3>2, <3>3, <3>4 DEF TimerTypes
    <2>2. CASE Forget(t)
      <3>1. "done" \in TimerStates
        BY DEF TimerStates
      <3>2. QED
        <4>1. Becomes(t, "forgetting", "done") /\ reaper' = 0
          BY <2>2 DEF Forget
        <4>2. timers' \in Seq(Timer) /\ Len(timers') = Len(timers)
          BY <3>1, <4>1, TimerMoves
        <4>3. QED
          BY <1>0, <1>1, <1>2, <4>1, <4>2
    <2>3. QED
      BY <1>6, <1>7, <2>1, <2>2 DEF ReaperStep, TimerFires, KillVictim, RemoveFiles, maps, TimerStates
  <1>8. QED
    BY <1>3, <1>4, <1>5, <1>7 DEF Next, HandlerStep, Ensure, Launch, LaunchFails, Store, Poll, WaitEnds,
       Open, Disconnect, XorgUp, XorgDies, StopDisplay, Exit, maps, vars

\* The types of the display's state, for any number of sessions: the map knows
\* no timer that is over, and a handler that waits has started an Xorg.
THEOREM DisplayTypeCorrect == Spec => []TypeOK
<1>1. Init => TypeOK
  <2> SUFFICES ASSUME Init PROVE TypeOK
    OBVIOUS
  <2>1. Len(xorgs) = 0 /\ Len(timers) = 0
    BY DEF Init
  <2>2. QED
    BY <2>1, EmptySeq DEF Init, TypeOK, Procs, HandlerStates
<1>2. TypeOK /\ [Next]_vars => TypeOK'
  BY TypesSplit, XorgTypesKept, TimerTypesKept, OtherTypesKept DEF TypeOK, XorgTypes, TimerTypes, OtherTypes, Timer
<1>3. QED
  BY <1>1, <1>2, PTL DEF Spec

-----------------------------------------------------------------------------
(* Ownership.                                                              *)

Taken(p) == \E t \in Timers : timers[t] = [st |-> "killing", victim |-> p]

\* In the map or in flight.  This holds of a reachable Xorg even after
\* StopDisplay, but then the map that names it is one nobody reads again.
Owned(p) ==
  \/ cmds = p
  \/ \E c \in Conns : at[c] = "store" /\ started[c] = p
  \/ Taken(p)

\* "What is reachable is owned" is not inductive: an Xorg must be owned already
\* while it comes up, which takes that its handler still waits for it; and a handler
\* that replaces the entry of the map must know that the display has no other
\* live server, which it saw before it started its own.
Starters ==
  \A p \in Procs \ {0} : xorgs[p] = "starting" =>
    /\ \E c \in Conns : at[c] \in {"store", "wait"} /\ started[c] = p
    /\ Owned(p)
NoRival ==
  \A c \in Conns :
    /\ at[c] = "launch" => ~Alive(lock)
    /\ at[c] \in {"store", "wait"} /\ Alive(lock) => lock = started[c]
XorgInv ==
  /\ sock = lock
  /\ lock # 0 => xorgs[lock] # "starting"
  /\ Alive(lock) => Owned(lock)
  /\ Starters
  /\ NoRival

DInv == TypeOK /\ OneSession /\ XorgInv

\* Facts of types, in the form in which the steps below use them.
LEMMA DFacts ==
  ASSUME DInv
  PROVE  /\ Len(xorgs) \in Nat /\ Procs = 0 .. Len(xorgs) /\ lock \in Procs /\ cmds \in Procs
         /\ xorgs \in Seq(XorgStates)
         /\ at \in [Conns -> HandlerStates] /\ started \in [Conns -> Procs]
         /\ \A c, d \in Conns : at[c] # "idle" /\ at[d] # "idle" => c = d
  BY ProcsAreNumbers DEF DInv, TypeOK, Procs, OneSession

\* A step that leaves every process as it is or dead, that moves no handler to
\* launching, storing or waiting or away from it, and keeps what owns.
LEMMA Disowning ==
  ASSUME DInv, NEW p \in Procs, xorgs' = Killed(p),
         lock' \in {0, lock}, sock' = lock',
         \A c \in Conns : at[c] \in {"store", "wait"} => started'[c] = started[c],
         \A c \in Conns : at'[c] \in {"launch", "store", "wait"} => at'[c] = at[c],
         \A q \in Procs \ {0, p} : Owned(q) => Owned(q)',
         \A q \in Procs \ {0, p}, c \in Conns :
           xorgs[q] = "starting" /\ at[c] \in {"store", "wait"} /\ started[c] = q => at'[c] = at[c]
  PROVE  XorgInv'
<1>1. /\ Procs' = Procs
      /\ \A q \in Procs \ {0} : xorgs'[q] = IF q = p THEN "dead" ELSE xorgs[q]
  BY Killing DEF DInv, Procs
<1>2. \A q \in Procs : Alive(q)' => Alive(q) /\ q # p /\ q # 0
  BY <1>1, DFacts DEF Alive
<1>3. lock' # 0 => lock' = lock /\ lock \in Procs \ {0}
  BY DFacts
<1>4. (sock = lock)' /\ (lock # 0 => xorgs[lock] # "starting")'
  BY <1>1, <1>3 DEF DInv, XorgInv
<1>5. (Alive(lock) => Owned(lock))'
  BY <1>2, <1>3, DFacts DEF DInv, XorgInv, Alive
<1>6. Starters'
  BY <1>1 DEF DInv, XorgInv, Starters
<1>7. NoRival'
  BY <1>2, <1>3, DFacts DEF DInv, XorgInv, NoRival, Alive
<1>8. QED
  BY <1>4, <1>5, <1>6, <1>7 DEF XorgInv

\* ... and the same for a step that ends no process.
LEMMA Resting ==
  ASSUME DInv, UNCHANGED xorgs, lock' \in {0, lock}, sock' = lock',
         \A c \in Conns : at[c] \in {"store", "wait"} => started'[c] = started[c],
         \A c \in Conns : at'[c] \in {"launch", "store", "wait"} => at'[c] = at[c],
         \A q \in Procs \ {0} : Owned(q) => Owned(q)',
         \A q \in Procs \ {0}, c \in Conns :
           xorgs[q] = "starting" /\ at[c] \in {"store", "wait"} /\ started[c] = q => at'[c] = at[c]
  PROVE  XorgInv'
  BY Disowning, DFacts DEF Killed

\* Owned only by what neither the handlers nor the reapers lose.
LEMMA OwnersKept ==
  ASSUME DInv, UNCHANGED cmds, Len(timers') \in Nat, Len(timers) \in Nat, Len(timers) <= Len(timers'),
         \A t \in Timers : timers[t].st = "killing" => timers'[t] = timers[t],
         \A c \in Conns : at[c] = "store" => at'[c] = "store" /\ started'[c] = started[c],
         NEW q \in Procs, Owned(q)
  PROVE  Owned(q)'
  BY DEF Owned, Taken, Timers

LEMMA TimersAreNumbered == TypeOK => Len(timers) \in Nat
  BY LenProperties DEF TypeOK

LEMMA HandlerKeepsXorgs ==
  ASSUME DInv, NEW c \in Conns,
         Acquire(c) \/ LaunchFails(c) \/ Poll(c) \/ WaitEnds(c) \/ Open(c) \/ Disconnect(c) \/ Release(c)
  PROVE  XorgInv'
<1>0. TypeOK /\ Len(timers) \in Nat /\ at \in [Conns -> HandlerStates] /\ started \in [Conns -> Procs]
  BY DFacts, TimersAreNumbered DEF DInv
<1>1. CASE Acquire(c)
  <2>1. UNCHANGED <<xorgs, cmds, lock, sock, started>> /\ timers' = StopTimer(reaper)
    BY <1>1 DEF Acquire, files
  <2>2. at[c] = "idle" /\ (at' = at \/ at' = [at EXCEPT ![c] = "ensure"])
    BY <1>1 DEF Acquire, Goto
  <2>3. \A q \in Procs : Owned(q) => Owned(q)'
    BY <1>0, <2>1, <2>2, TimerStops, OwnersKept
  <2>4. QED
    BY <1>0, <2>1, <2>2, <2>3, Resting DEF DInv, XorgInv
<1>2. CASE LaunchFails(c) \/ Open(c) \/ Disconnect(c)
  <2>1. UNCHANGED <<xorgs, cmds, lock, sock, started, timers>>
    BY <1>2 DEF LaunchFails, Open, Disconnect, maps, files
  <2>2. /\ at[c] \notin {"store", "wait"}
        /\ at' = [at EXCEPT ![c] = "leave"] \/ at' = [at EXCEPT ![c] = "stream"]
    BY <1>2 DEF LaunchFails, Open, Disconnect, Goto
  <2>3. \A q \in Procs : Owned(q) => Owned(q)'
    BY <1>0, <2>1, <2>2, OwnersKept
  <2>4. QED
    BY <1>0, <2>1, <2>2, <2>3, Resting DEF DInv, XorgInv
<1>3. CASE Poll(c)
  <2>1. UNCHANGED <<xorgs, cmds, started, timers>> /\ at[c] = "wait"
    BY <1>3 DEF Poll, maps
  <2>2. lock' \in {0, lock} /\ sock' = lock'
    BY <1>3 DEF Poll, SweepStale, files, DInv, XorgInv
  <2>3. CASE Listening
    <3>1. at' = [at EXCEPT ![c] = "open"]
      BY <1>3, <2>3 DEF Poll, Goto
    <3>2. lock = started[c] /\ lock # 0 /\ xorgs[lock] # "starting"
      BY <2>1, <2>3 DEF Listening, DInv, XorgInv, NoRival, Alive
    <3>3. \A q \in Procs : Owned(q) => Owned(q)'
      BY <1>0, <2>1, <3>1, OwnersKept
    <3>4. \A q \in Procs \ {0}, d \in Conns :
            xorgs[q] = "starting" /\ at[d] \in {"store", "wait"} /\ started[d] = q => at'[d] = at[d]
      BY <1>0, <3>1, <3>2
    <3>5. QED
      BY <1>0, <2>1, <2>2, <3>1, <3>3, <3>4, Resting
  <2>4. CASE ~Listening
    <3>1. at' = at
      BY <1>0, <1>3, <2>1, <2>4 DEF Poll, Goto
    <3>2. \A q \in Procs : Owned(q) => Owned(q)'
      BY <1>0, <2>1, <3>1, OwnersKept
    <3>3. QED
      BY <1>0, <2>1, <2>2, <3>1, <3>2, Resting
  <2>5. QED
    BY <2>3, <2>4
<1>4. CASE WaitEnds(c)
  <2>1. /\ UNCHANGED <<cmds, lock, sock, started, timers>> /\ xorgs' = Killed(started[c])
        /\ at[c] = "wait" /\ at' = [at EXCEPT ![c] = "leave"] /\ started[c] \in Procs
    BY <1>0, <1>4 DEF WaitEnds, maps, files, Goto
  <2>2. \A q \in Procs : Owned(q) => Owned(q)'
    BY <1>0, <2>1, OwnersKept
  <2>3. QED
    BY <1>0, <2>1, <2>2, Disowning DEF DInv, XorgInv
<1>5. CASE Release(c)
  <2>1. /\ UNCHANGED <<xorgs, cmds, lock, sock>> /\ at[c] = "leave" /\ at' = [at EXCEPT ![c] = "idle"]
        /\ started' = [started EXCEPT ![c] = 0]
    BY <1>5 DEF Release, files, Goto
  <2>2. /\ Len(timers') \in Nat /\ Len(timers) <= Len(timers')
        /\ \A t \in Timers : timers[t].st = "killing" => timers'[t] = timers[t]
    BY <1>0, <1>5, TimerStarts DEF Release
  <2>3. \A q \in Procs : Owned(q) => Owned(q)'
    BY <1>0, <2>1, <2>2, OwnersKept
  <2>4. QED
    BY <1>0, <2>1, <2>3, Resting DEF DInv, XorgInv
<1>6. QED
  BY <1>1, <1>2, <1>3, <1>4, <1>5

\* EnsureDisplay launches an Xorg only where it found none.
LEMMA EnsureKeepsXorgs ==
  ASSUME DInv, NEW c \in Conns, Ensure(c)
  PROVE  XorgInv'
<1>0. TypeOK /\ Len(timers) \in Nat /\ at \in [Conns -> HandlerStates]
  BY DFacts, TimersAreNumbered DEF DInv
<1>1. UNCHANGED <<xorgs, cmds, started, timers>> /\ at[c] = "ensure"
  BY DEF Ensure, maps
<1>2. lock' \in {0, lock} /\ sock' = lock'
  BY DEF Ensure, SweepStale, files, DInv, XorgInv
<1>3. at' = [at EXCEPT ![c] = "open"] \/ at' = [at EXCEPT ![c] = "launch"]
  BY DEF Ensure, Goto
<1>4. \A q \in Procs : Owned(q) => Owned(q)'
  BY <1>0, <1>1, <1>3, OwnersKept
<1>5. CASE Listening
  BY <1>0, <1>1, <1>2, <1>4, <1>5, Resting DEF Ensure, Goto
<1>6. CASE ~Listening
  <2>1. lock' = 0
    BY <1>6 DEF Ensure, Listening, SweepStale, DInv, XorgInv, Alive
  <2>2. Starters'
    BY <1>0, <1>1, <1>3, <1>4 DEF DInv, XorgInv, Starters, Procs
  <2>3. QED
    BY <1>2, <2>1, <2>2 DEF XorgInv, NoRival, Alive
<1>7. QED
  BY <1>5, <1>6

\* No other handler is in a session while one is.
LEMMA Alone ==
  ASSUME DInv, NEW c \in Conns, at[c] # "idle", NEW d \in Conns, d # c
  PROVE  at[d] = "idle"
  BY DFacts

LEMMA LaunchKeepsXorgs ==
  ASSUME DInv, NEW c \in Conns, Launch(c)
  PROVE  XorgInv'
<1>n. PICK n : n = Len(xorgs) + 1
  OBVIOUS
<1>0. TypeOK /\ Len(timers) \in Nat /\ Len(xorgs) \in Nat
      /\ at \in [Conns -> HandlerStates] /\ started \in [Conns -> Procs] /\ lock \in Procs
  BY DFacts, TimersAreNumbered DEF DInv
<1>1. /\ xorgs' = Append(xorgs, "starting") /\ UNCHANGED <<cmds, lock, sock, timers>>
      /\ at[c] = "launch" /\ at' = [at EXCEPT ![c] = "store"]
  BY DEF Launch, maps, files, Goto
<1>2. /\ Len(xorgs') = n /\ Procs' = Procs \cup {n} /\ n \notin Procs
      /\ \A q \in Procs \ {0} : xorgs'[q] = xorgs[q]
  BY <1>0, <1>1, <1>n, AppendProperties DEF Procs, TypeOK, XorgStates
<1>3. started' = [started EXCEPT ![c] = n]
  BY <1>2, <1>n DEF Launch
<1>4. \A q \in Procs \ {0} : xorgs[q] # "starting"
  BY <1>1, Alone DEF DInv, XorgInv, Starters
<1>5. ~Alive(lock)
  BY <1>1 DEF DInv, XorgInv, NoRival
<1>6. ~Alive(lock)'
  BY <1>0, <1>1, <1>2, <1>5 DEF Alive
<1>7. at'[c] = "store" /\ started'[c] = n
  BY <1>0, <1>1, <1>3
<1>8. Starters'
  <2>1. Owned(n)'
    BY <1>7 DEF Owned
  <2>2. QED
    BY <1>2, <1>4, <1>7, <2>1 DEF Starters
<1>9. \A d \in Conns : at'[d] # "launch"
  BY <1>0, <1>1, Alone
<1>10. NoRival'
  BY <1>6, <1>9 DEF NoRival
<1>11. (sock = lock)' /\ (lock # 0 => xorgs[lock] # "starting")'
  BY <1>0, <1>1, <1>2 DEF DInv, XorgInv
<1>12. QED
  BY <1>6, <1>8, <1>10, <1>11 DEF XorgInv

\* The entry that is replaced names no Xorg that is reachable or may become so.
LEMMA StoreKeepsXorgs ==
  ASSUME DInv, NEW c \in Conns, Store(c)
  PROVE  XorgInv'
<1>0. at \in [Conns -> HandlerStates] /\ lock \in Procs
  BY DFacts
<1>1. /\ UNCHANGED <<xorgs, lock, sock, timers, started>> /\ cmds' = started[c]
      /\ at[c] = "store" /\ at' = [at EXCEPT ![c] = "wait"]
  BY DEF Store, Goto, files
<1>2. Owned(started[c])'
  BY <1>1 DEF Owned
<1>3. Alive(lock)' => lock' = started[c]
  BY <1>1 DEF DInv, XorgInv, NoRival, Alive
<1>4. \A q \in Procs \ {0} : xorgs[q] = "starting" => q = started[c]
  BY <1>1, Alone DEF DInv, XorgInv, Starters
<1>5. Starters'
  BY <1>0, <1>1, <1>2, <1>4 DEF Starters, Procs
<1>6. NoRival'
  BY <1>0, <1>1 DEF DInv, XorgInv, NoRival, Alive
<1>7. QED
  BY <1>1, <1>2, <1>3, <1>5, <1>6 DEF XorgInv, DInv

LEMMA ReaperKeepsXorgs ==
  ASSUME DInv, NEW t \in Timers, ReaperStep(t)
  PROVE  XorgInv'
<1>0. TypeOK /\ Len(timers) \in Nat /\ {"fired", "cleaning", "forgetting", "done"} \subseteq TimerStates
  BY DFacts, TimersAreNumbered DEF DInv, TimerStates
<1>1. ASSUME NEW from \in TimerStates \ {"killing"}, NEW to \in TimerStates, Becomes(t, from, to),
             UNCHANGED <<xorgs, cmds, at, started>>, lock' \in {0, lock}, sock' = lock'
      PROVE  XorgInv'
  <2>1. Len(timers') = Len(timers) /\ \A u \in Timers : timers[u].st = "killing" => timers'[u] = timers[u]
    BY <1>0, <1>1, TimerMoves
  <2>2. \A q \in Procs : Owned(q) => Owned(q)'
    BY <1>0, <1>1, <2>1, OwnersKept
  <2>3. QED
    BY <1>1, <2>2, Resting
<1>2. CASE TimerFires(t) \/ RemoveFiles(t) \/ Forget(t)
  BY <1>1, <1>2 DEF TimerFires, RemoveFiles, Forget, maps, files, handlers, DInv, XorgInv, TimerStates
<1>3. CASE TakeVictim(t)
  <2>1. /\ timers' = [timers EXCEPT ![t] = [st |-> "killing", victim |-> cmds]] /\ timers[t].st = "fired"
        /\ UNCHANGED <<xorgs, lock, sock, at, started>>
    BY <1>3 DEF TakeVictim, files, handlers
  <2>2. [st |-> "killing", victim |-> cmds] \in Timer
    BY <1>0 DEF TypeOK, Timer, TimerStates
  <2>3. /\ Len(timers') = Len(timers)
        /\ \A u \in Timers :
             timers'[u] = IF u = t THEN [st |-> "killing", victim |-> cmds] ELSE timers[u]
    BY <1>0, <2>1, <2>2, TimerSet
  <2>4. \A q \in Procs : cmds = q \/ Taken(q) => Taken(q)'
    BY <2>1, <2>3 DEF Taken, Timers
  <2>5. \A q \in Procs : Owned(q) => Owned(q)'
    BY <2>1, <2>4 DEF Owned
  <2>6. QED
    BY <2>1, <2>5, Resting DEF DInv, XorgInv
<1>4. CASE KillVictim(t)
  <2> DEFINE p == timers[t].victim
  <2>1. /\ Becomes(t, "killing", "cleaning") /\ xorgs' = Killed(p)
        /\ UNCHANGED <<cmds, lock, sock, at, started>>
    BY <1>4 DEF KillVictim, maps, files, handlers
  <2>2. timers[t] \in Timer
    BY <1>0, ElementOfSeq DEF TypeOK, Timers, Timer
  <2>3. /\ Len(timers') = Len(timers)
        /\ \A u \in Timers : timers'[u] = IF u = t THEN [st |-> "cleaning", victim |-> p] ELSE timers[u]
    BY <1>0, <2>1, TimerMoves
  <2>4. \A q \in Procs \ {p} : Taken(q) => Taken(q)'
    BY <2>3 DEF Taken, Timers
  <2>5. \A q \in Procs \ {p} : Owned(q) => Owned(q)'
    BY <2>1, <2>4 DEF Owned
  <2>6. p \in Procs
    BY <2>2 DEF Timer
  <2>7. QED
    BY <2>1, <2>5, <2>6, Disowning DEF DInv, XorgInv
<1>5. QED
  BY <1>2, <1>3, <1>4 DEF ReaperStep

LEMMA XorgKeepsXorgs ==
  ASSUME DInv, NEW p \in Procs \ {0}, XorgUp(p) \/ XorgDies(p)
  PROVE  XorgInv'
<1>0. /\ Len(timers) \in Nat /\ xorgs \in Seq(XorgStates) /\ Procs = 0 .. Len(xorgs) /\ Len(xorgs) \in Nat
  BY DFacts, TimersAreNumbered DEF DInv
<1>1. UNCHANGED <<cmds, timers, at, started>>
  BY DEF XorgUp, XorgDies, maps, handlers
<1>2. \A q \in Procs : Owned(q) => Owned(q)'
  BY <1>1 DEF Owned, Taken, Timers
<1>3. CASE xorgs' = Killed(p) /\ UNCHANGED files
  BY <1>1, <1>2, <1>3, Disowning DEF files, DInv, XorgInv
<1>4. CASE XorgUp(p) /\ ~Alive(lock)
  <2>1. xorgs' = [xorgs EXCEPT ![p] = "up"] /\ lock' = p /\ sock' = p /\ xorgs[p] = "starting"
    BY <1>4 DEF XorgUp
  <2>2. /\ Procs' = Procs
        /\ \A q \in Procs \ {0} : xorgs'[q] = IF q = p THEN "up" ELSE xorgs[q]
    BY <1>0, <2>1, ExceptSeq DEF Procs, XorgStates
  <2>3. Owned(p)'
    BY <1>2, <2>1 DEF DInv, XorgInv, Starters
  <2>4. PICK c \in Conns : at[c] \in {"store", "wait"} /\ started[c] = p
    BY <2>1 DEF DInv, XorgInv, Starters
  <2>5. NoRival'
    BY <1>1, <2>1, <2>4, Alone DEF NoRival
  <2>6. Starters'
    BY <1>1, <1>2, <2>2 DEF DInv, XorgInv, Starters
  <2>7. QED
    BY <2>1, <2>2, <2>3, <2>5, <2>6 DEF XorgInv
<1>5. QED
  BY <1>3, <1>4 DEF XorgUp, XorgDies

LEMMA MainKeepsXorgs ==
  ASSUME DInv, StopDisplay \/ Exit \/ UNCHANGED vars
  PROVE  XorgInv'
<1>0. cmds \in Procs
  BY DFacts
<1>1. UNCHANGED <<lock, sock, timers, at, started>>
  BY DEF StopDisplay, Exit, vars, maps, files, handlers
<1>2. CASE StopDisplay
  <2>1. xorgs' = Killed(cmds)
    BY <1>2 DEF StopDisplay
  <2>2. \A q \in Procs \ {cmds} : Owned(q) => Owned(q)'
    BY <1>1 DEF Owned, Taken, Timers
  <2>3. QED
    BY <1>0, <1>1, <2>1, <2>2, Disowning DEF DInv, XorgInv
<1>3. CASE Exit \/ UNCHANGED vars
  <2>1. UNCHANGED <<xorgs, cmds>>
    BY <1>3 DEF Exit, vars, maps
  <2>2. \A q \in Procs : Owned(q) => Owned(q)'
    BY <1>1, <2>1 DEF Owned, Taken, Timers
  <2>3. QED
    BY <1>1, <2>1, <2>2, Resting DEF DInv, XorgInv
<1>4. QED
  BY <1>2, <1>3

\* Until StopDisplay, an Xorg that clients can reach is in the map or in flight,
\* in whatever order EnsureDisplay and the reapers overlap and whichever Xorg
\* dies in between; StopDisplay spares only what is in flight.
THEOREM ReachableXorgIsOwned == Spec => ReachableIsOwned
<1> DEFINE StaysOwned ==
      /\ phase' = "up" /\ Alive(lock)' => cmds' = lock' \/ InFlight(lock)'
      /\ phase = "up" /\ phase' # phase /\ Alive(lock)' => InFlight(lock)'
<1>1. Init => XorgInv
  BY LenProperties, EmptySeq DEF Init, XorgInv, Starters, NoRival, Alive, Procs
<1>2. DInv /\ [Next]_vars => XorgInv'
  <2> SUFFICES ASSUME DInv, [Next]_vars PROVE XorgInv'
    OBVIOUS
  <2>1. ASSUME NEW c \in Conns, Acquire(c) \/ HandlerStep(c) \/ Poll(c) \/ Disconnect(c)
        PROVE  XorgInv'
    BY <2>1, HandlerKeepsXorgs, EnsureKeepsXorgs, LaunchKeepsXorgs, StoreKeepsXorgs DEF HandlerStep
  <2>2. QED
    BY <2>1, ReaperKeepsXorgs, XorgKeepsXorgs, MainKeepsXorgs DEF Next
<1>3. DInv' /\ [Next]_vars => [StaysOwned]_vars
  <2> SUFFICES ASSUME DInv', [Next]_vars, Alive(lock)' PROVE StaysOwned
    OBVIOUS
  <2>1. cmds' = lock' \/ InFlight(lock)'
    BY DEF DInv, XorgInv, Owned, Taken, InFlight
  <2>2. ASSUME phase = "up", phase' # phase PROVE InFlight(lock)'
    <3>1. cmds' = 0
      BY <2>2 DEF Next, HandlerStep, ReaperStep, Acquire, Ensure, Launch, LaunchFails, Store, WaitEnds,
                  Open, Release, Poll, Disconnect, Becomes, TimerFires, TakeVictim, KillVictim,
                  RemoveFiles, Forget, XorgUp, XorgDies, StopDisplay, Exit, vars
    <3>2. lock' # 0
      BY DEF Alive
    <3>3. QED
      BY <2>1, <3>1, <3>2
  <2>3. QED
    BY <2>1, <2>2
<1>4. QED
  BY <1>1, <1>2, <1>3, DisplayTypeCorrect, DisplayHasOneSession, PTL
  DEF Spec, DInv, ReachableIsOwned
=============================================================================
