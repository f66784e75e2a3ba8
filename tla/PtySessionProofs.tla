------------------------- MODULE PtySessionProofs -------------------------
(***************************************************************************)
(* Proofs about the keyed shell sessions, for any number of keys, shells   *)
(* and attachments, any channel capacity and any amount of output.         *)
(***************************************************************************)
EXTENDS PtySessionProps, TLAPS

-----------------------------------------------------------------------------
(* What the critical sections are built from keeps the types.               *)

LEMMA RevokeType ==
  ASSUME TypeOK, NEW S, Revoke(S)
  PROVE  /\ client' \in [Sessions -> Clients \cup {None}]
         /\ active' \in [Clients -> BOOLEAN]
         /\ ready' \in [Clients -> BOOLEAN]
         /\ chan' \in [Clients -> {"none", "open", "closed"}]
BY DEF TypeOK, Revoke, Cut

LEMMA MarkClosedType ==
  ASSUME TypeOK, NEW S, NEW next \in Tasks, MarkClosed(S, next)
  PROVE  /\ closed' \in [Sessions -> BOOLEAN]
         /\ done' \in [Sessions -> BOOLEAN]
         /\ task' \in [Sessions -> Tasks]
BY DEF TypeOK, MarkClosed

LEMMA StopTimersType ==
  ASSUME TypeOK, NEW S, StopTimers(S)
  PROVE  /\ timer' \in [Sessions -> Clients \cup {None}]
         /\ tm' \in [Clients -> TimerStates]
BY DEF TypeOK, StopTimers, Stopped, TimerStates

LEMMA UnmapType ==
  ASSUME TypeOK, NEW s, Unmap(s)
  PROVE  sessions' \in [Keys -> Sessions \cup {None}]
BY DEF TypeOK, Unmap

LEMMA RegisterType ==
  ASSUME TypeOK, NEW c \in Clients, NEW s \in Sessions, Register(c, s)
  PROVE  /\ lastId' \in Nat
         /\ id' \in [Clients -> Nat]
         /\ of' \in [Clients -> Sessions \cup {None}]
         /\ client' \in [Sessions -> Clients \cup {None}]
         /\ active' \in [Clients -> BOOLEAN]
         /\ ready' \in [Clients -> BOOLEAN]
         /\ chan' \in [Clients -> {"none", "open", "closed"}]
         /\ queue' = queue
         /\ phase' \in [Clients -> Phases]
         /\ conn' \in [Clients -> BOOLEAN]
         /\ seen' \in [Clients -> Nat]
         /\ driver' \in [Sessions -> Clients \cup {None}]
BY DEF TypeOK, Register, Snapshot, Cut, Phases

LEMMA RefuseType ==
  ASSUME TypeOK, NEW c \in Clients, Refuse(c)
  PROVE  /\ lastId' \in Nat
         /\ id' \in [Clients -> Nat]
         /\ of' \in [Clients -> Sessions \cup {None}]
         /\ queue' = queue
         /\ phase' \in [Clients -> Phases]
         /\ conn' \in [Clients -> BOOLEAN]
         /\ seen' \in [Clients -> Nat]
BY DEF TypeOK, Refuse, Phases

\* Register and DumpFails are the two ends of Attach.
LEMMA AttachEndType ==
  ASSUME TypeOK, NEW c \in Clients, NEW s \in Sessions,
         Register(c, s) \/ DumpFails(c, s)
  PROVE  /\ lastId' \in Nat
         /\ id' \in [Clients -> Nat]
         /\ of' \in [Clients -> Sessions \cup {None}]
         /\ client' \in [Sessions -> Clients \cup {None}]
         /\ active' \in [Clients -> BOOLEAN]
         /\ ready' \in [Clients -> BOOLEAN]
         /\ chan' \in [Clients -> {"none", "open", "closed"}]
         /\ queue' = queue
         /\ phase' \in [Clients -> Phases]
         /\ conn' \in [Clients -> BOOLEAN]
         /\ seen' \in [Clients -> Nat]
         /\ driver' \in [Sessions -> Clients \cup {None}]
<1>1. CASE Register(c, s)
  BY <1>1, RegisterType
<1>2. CASE DumpFails(c, s)
  <2>1. Revoke({s}) /\ Refuse(c) /\ driver' = driver
    BY <1>2 DEF DumpFails
  <2>2. QED BY <2>1, RevokeType, RefuseType DEF TypeOK
<1>3. QED BY <1>1, <1>2

\* The manager, its goroutines and the handlers only ever hold values of the
\* types the code declares for them.
THEOREM TypeCorrect == Spec => []TypeOK
<1>0. << >> \in Seq(Nat) /\ Len(<< >>) <= SubBuffer
  BY PtyAssumption
<1>1. Init => TypeOK
  <2> SUFFICES ASSUME Init PROVE TypeOK
    OBVIOUS
  <2>1. queue \in [Clients -> Seq(Nat)] /\ \A c \in Clients : Len(queue[c]) <= SubBuffer
    BY <1>0 DEF Init
  <2>2. QED
    BY <2>1, PtyAssumption DEF Init, TypeOK, Tasks, Phases, TimerStates
<1>2. TypeOK /\ [Next]_vars => TypeOK'
  <2> SUFFICES ASSUME TypeOK, [Next]_vars PROVE TypeOK'
    OBVIOUS
  <2> USE PtyAssumption DEF TypeOK, managerVars, linkVars, closeVars, procVars,
                            vtVars, clientVars, socketVars
  <2>1. ASSUME NEW c \in Clients, NEW k \in Keys, Reattach(c, k) PROVE TypeOK'
    <3>1. sessions[k] \in Sessions
      BY <2>1 DEF Reattach, Usable
    <3>2. StopTimers({sessions[k]})
      BY <2>1 DEF Reattach
    <3>3. Register(c, sessions[k]) \/ DumpFails(c, sessions[k])
      BY <2>1 DEF Reattach
    <3>4. panicked' \in BOOLEAN
      BY <2>1 DEF Reattach
    <3>5. UNCHANGED <<sessions, runtime, key, closeVars, procVars, vtVars>>
      BY <2>1 DEF Reattach
    <3>6. QED BY <3>1, <3>2, <3>3, <3>4, <3>5, StopTimersType, AttachEndType
  <2>2. ASSUME NEW c \in Clients, NEW k \in Keys, NEW s \in Sessions,
               AttachNew(c, k, s)
        PROVE TypeOK'
    <3>1. Register(c, s) \/ DumpFails(c, s)
      BY <2>2 DEF AttachNew
    <3>2. QED BY <2>2, <3>1, AttachEndType DEF AttachNew
  <2>3. ASSUME NEW c \in Clients, NEW k \in Keys, StartFails(c, k) PROVE TypeOK'
    BY <2>3 DEF StartFails, Refuse, Phases
  <2>4. ASSUME NEW c \in Clients, HandlerStep(c) PROVE TypeOK'
    <3>1. CASE SendPrefix(c) BY <3>1 DEF SendPrefix, Phases
    <3>2. CASE Activate(c) BY <3>2 DEF Activate
    <3>3. CASE Drive(c) BY <3>3 DEF Drive, HoldsInput, Current
    <3>4. CASE Deliver(c) BY <3>4 DEF Deliver
    <3>5. CASE StreamEnds(c) BY <3>5 DEF StreamEnds
    <3>6. CASE ConnDrop(c) BY <3>6 DEF ConnDrop
    <3>7. CASE HandlerExit(c)
      <4>1. /\ queue' \in [Clients -> Seq(Nat)]
            /\ \A d \in Clients : Len(queue'[d]) <= SubBuffer
        BY <3>7, <1>0 DEF HandlerExit
      <4>2. CASE Current(c) /\ ~closed[of[c]]
        <5>0. DetachLocked(c, of[c])
          BY <3>7, <4>2 DEF HandlerExit
        <5>1. Revoke({of[c]}) /\ panicked' \in BOOLEAN
          <6>1. Revoke({of[c]})
            BY <5>0 DEF DetachLocked
          <6>2. panicked' \in BOOLEAN
            BY <3>7, <4>2 DEF HandlerExit
          <6>3. QED BY <6>1, <6>2
        <5>2. /\ timer' \in [Sessions -> Clients \cup {None}]
              /\ tm' \in [Clients -> TimerStates]
          <6>1. CASE timer[of[c]] = None
            <7>1. /\ timer' = [timer EXCEPT ![of[c]] = c]
                  /\ tm' = [tm EXCEPT ![c] = "armed"]
              BY <5>0, <6>1 DEF DetachLocked
            <7>2. "armed" \in TimerStates
              BY DEF TimerStates
            <7>3. QED BY <7>1, <7>2
          <6>2. CASE timer[of[c]] # None
            BY <5>0, <6>2 DEF DetachLocked
          <6>3. QED BY <6>1, <6>2
        <5>3. /\ phase' \in [Clients -> Phases]
              /\ UNCHANGED <<managerVars, key, closeVars, procVars, vtVars, of, id,
                             conn, seen, driver>>
          BY <3>7 DEF HandlerExit, Phases
        <5>4. QED
          BY <4>1, <5>1, <5>2, <5>3, RevokeType
      <4>3. CASE ~(Current(c) /\ ~closed[of[c]])
        BY <3>7, <4>1, <4>3 DEF HandlerExit, Phases
      <4>4. QED BY <4>2, <4>3
    <3>8. QED BY <2>4, <3>1, <3>2, <3>3, <3>4, <3>5, <3>6, <3>7 DEF HandlerStep
  <2>5. ASSUME NEW c \in Clients, Timeout(c) PROVE TypeOK'
    <3>1. CASE TimerFires(c) BY <3>1 DEF TimerFires, TimerStates
    <3>2. CASE Expire(c)
      <4>1. CASE ~Expirable(of[c])
        BY <3>2, <4>1 DEF Expire, TimerStates
      <4>2. CASE Expirable(of[c])
        <5>1. /\ MarkClosed({of[c]}, "kill")
              /\ Unmap(of[c])
              /\ panicked' \in BOOLEAN
          BY <3>2, <4>2 DEF Expire
        <5>2. /\ timer' \in [Sessions -> Clients \cup {None}]
              /\ tm' \in [Clients -> TimerStates]
          BY <3>2, <4>2 DEF Expire, TimerStates
        <5>3. "kill" \in Tasks
          BY DEF Tasks
        <5>4. QED
          BY <3>2, <5>1, <5>2, <5>3, MarkClosedType, UnmapType DEF Expire
      <4>3. QED BY <4>1, <4>2
    <3>3. QED BY <2>5, <3>1, <3>2 DEF Timeout
  <2>6. ASSUME NEW s \in Sessions, SessionStep(s) PROVE TypeOK'
    <3>1. CASE Broadcast(s)
      <4>1. CASE client[s] = None \/ ~active[client[s]]
        BY <3>1, <4>1 DEF Broadcast
      <4>2. CASE /\ client[s] # None
                 /\ active[client[s]]
                 /\ Len(queue[client[s]]) < SubBuffer
        <5>1. /\ Append(queue[client[s]], fed[s] + 1) \in Seq(Nat)
              /\ Len(Append(queue[client[s]], fed[s] + 1)) <= SubBuffer
          BY <4>2
        <5>2. /\ queue' \in [Clients -> Seq(Nat)]
              /\ \A c \in Clients : Len(queue'[c]) <= SubBuffer
          <6>1. client[s] \in Clients
            BY <4>2
          <6>2. queue' = [queue EXCEPT ![client[s]] = Append(queue[client[s]], fed[s] + 1)]
            BY <3>1, <4>2 DEF Broadcast
          <6>3. QED BY <5>1, <6>1, <6>2
        <5>3. QED BY <3>1, <4>2, <5>2 DEF Broadcast
      <4>3. CASE /\ client[s] # None
                 /\ active[client[s]]
                 /\ ~(Len(queue[client[s]]) < SubBuffer)
        <5>1. Revoke({s}) /\ panicked' \in BOOLEAN
          <6>1. Revoke({s})
            BY <3>1, <4>3 DEF Broadcast, Overflow
          <6>2. panicked' \in BOOLEAN
            BY <3>1, <4>3 DEF Broadcast, Overflow
          <6>3. QED BY <6>1, <6>2
        <5>2. /\ fed' \in [Sessions -> Nat]
              /\ UNCHANGED <<managerVars, key, timer, closeVars, procVars, vt, of,
                             id, queue, socketVars, tm, driver>>
          BY <3>1, <4>3 DEF Broadcast, Overflow
        <5>3. QED BY <5>1, <5>2, RevokeType
      <4>4. QED BY <4>1, <4>2, <4>3
    <3>2. CASE ShellExits(s) BY <3>2 DEF ShellExits
    <3>3. CASE Finish(s)
      <4>1. CASE closed[s]
        BY <3>3, <4>1 DEF Finish
      <4>2. CASE ~closed[s]
        <5>1. \A c \in Clients : /\ Append(queue[c], ExitNotice) \in Seq(Nat)
                                 /\ c \in Notified(s) => Len(Append(queue[c], ExitNotice)) <= SubBuffer
          BY DEF ExitNotice, Notified
        <5>6. queue' = [c \in Clients |-> IF c \in Notified(s)
                                            THEN Append(queue[c], ExitNotice)
                                            ELSE queue[c]]
          BY <3>3, <4>2 DEF Finish
        <5>2. queue' \in [Clients -> Seq(Nat)] /\ \A c \in Clients : Len(queue'[c]) <= SubBuffer
          BY <5>1, <5>6
        <5>3. /\ MarkClosed({s}, "release")
              /\ StopTimers({s})
              /\ Unmap(s)
              /\ Revoke({s})
              /\ panicked' \in BOOLEAN
          BY <3>3, <4>2 DEF Finish
        <5>4. "release" \in Tasks
          BY DEF Tasks
        <5>5. QED
          BY <3>3, <5>2, <5>3, <5>4, MarkClosedType, StopTimersType, UnmapType,
             RevokeType DEF Finish
      <4>3. QED BY <4>1, <4>2
    <3>4. CASE PollerStops(s) BY <3>4 DEF PollerStops
    <3>5. CASE ExpireKill(s) BY <3>5 DEF ExpireKill, Tasks
    <3>6. CASE ReleaseVT(s) BY <3>6 DEF ReleaseVT, Tasks
    <3>7. CASE CloseKill(s) BY <3>7 DEF CloseKill, Tasks
    <3>8. CASE CloseRelease(s) BY <3>8 DEF CloseRelease, Tasks
    <3>9. QED
      BY <2>6, <3>1, <3>2, <3>3, <3>4, <3>5, <3>6, <3>7, <3>8
      DEF SessionStep, Aftermath
  <2>7. CASE CloseBegins
    <3>1. /\ MarkClosed(Mapped, "shut")
          /\ StopTimers(Mapped)
          /\ Revoke(Mapped)
          /\ panicked' \in BOOLEAN
      BY <2>7 DEF CloseBegins
    <3>2. "shut" \in Tasks
      BY DEF Tasks
    <3>3. QED
      BY <2>7, <3>1, <3>2, MarkClosedType, StopTimersType, RevokeType
      DEF CloseBegins
  <2>8. CASE CloseRuntime
    BY <2>8 DEF CloseRuntime
  <2>9. CASE UNCHANGED vars
    BY <2>9 DEF vars
  <2>10. QED
    BY <2>1, <2>2, <2>3, <2>4, <2>5, <2>6, <2>7, <2>8, <2>9 DEF Next, AttachStep
<1>3. QED BY <1>1, <1>2, PTL DEF Spec

-----------------------------------------------------------------------------
(* The structural invariant: how the map, the sessions, their attachments   *)
(* and their channels hang together between two critical sections.          *)

\* A session that was never started is blank and nobody refers to it.
UnstartedBlank ==
  \A s \in Sessions : key[s] = None =>
    /\ client[s] = None /\ driver[s] = None /\ reader[s] = "none"
    /\ ~closed[s] /\ fed[s] = 0 /\ vt[s] = "none" /\ task[s] = "none"
    /\ \A c \in Clients : of[c] # s

\* The map holds exactly the open sessions, each under its own key.
MapExact ==
  /\ \A k \in Keys : sessions[k] # None =>
       key[sessions[k]] = k /\ ~closed[sessions[k]]
  /\ LiveSessionsMapped

\* done is closed together with the session, and whoever closed it has a task.
CloseOnce ==
  \A s \in Sessions : /\ done[s] = closed[s]
                      /\ task[s] = "none" <=> ~closed[s]
                      /\ vt[s] = "released" => task[s] = "over"
                      /\ task[s] \in {"shut", "await"} => runtime = "closing"

\* An attachment is active exactly while it is its open session's client, and
\* its channel is open exactly while it is active.
Linked ==
  /\ \A s \in Sessions : client[s] # None =>
       ~closed[s] /\ active[client[s]] /\ of[client[s]] = s
  /\ \A c \in Clients : active[c] =>
       of[c] # None /\ client[of[c]] = c /\ chan[c] = "open"

\* Attachments and timers exist only after Attach.
NewBlank ==
  \A c \in Clients : /\ phase[c] = "new" => of[c] = None
                     /\ of[c] = None => queue[c] = << >> /\ tm[c] = "unset"

Structure == UnstartedBlank /\ MapExact /\ CloseOnce /\ Linked /\ NewBlank

\* Attachment numbers: the current attachment is its session's newest one.
Newest ==
  /\ \A c \in Clients : id[c] <= lastId
  /\ \A s \in Sessions : client[s] # None =>
       \A c \in Clients : of[c] = s => id[c] <= id[client[s]]
  /\ OneWriter

\* Frames wait in order, and the emulator has been fed every one of them.
FramesFed ==
  \A c \in Clients : \A i \in 1..Len(queue[c]) : queue[c][i] <= fed[of[c]]

Streams == CurrentMissesNothing /\ FramesConsecutive /\ FramesFed

-----------------------------------------------------------------------------
(* What revoking, registering and closing do to the structure.              *)

\* Linked, an attachment is cut exactly when it serves a session of S.
LEMMA CutOf ==
  ASSUME TypeOK, Linked, NEW S \in SUBSET Sessions, NEW c \in Clients
  PROVE  c \in Cut(S) <=> active[c] /\ of[c] \in S
<1>1. ASSUME c \in Cut(S) PROVE active[c] /\ of[c] \in S
  <2>1. PICK s \in S : client[s] = c
    BY <1>1 DEF Cut
  <2>2. active[c] /\ s \in Sessions /\ client[s] # None
    BY <1>1, <2>1, PtyAssumption DEF Cut
  <2>3. of[c] = s
    BY <2>1, <2>2 DEF Linked
  <2>4. QED BY <2>1, <2>2, <2>3
<1>2. ASSUME active[c], of[c] \in S PROVE c \in Cut(S)
  <2>1. client[of[c]] = c
    BY <1>2 DEF Linked
  <2>2. QED BY <1>2, <2>1 DEF Cut
<1>3. QED BY <1>1, <1>2

LEMMA RevokeLinked ==
  ASSUME TypeOK, Linked, NEW S \in SUBSET Sessions, Revoke(S), of' = of,
         \A s \in Sessions : s \notin S => closed'[s] = closed[s]
  PROVE  Linked'
<1>1. \A s \in Sessions : client'[s] = IF s \in S THEN None ELSE client[s]
  BY DEF Revoke
<1>2. \A c \in Clients : active'[c] <=> active[c] /\ c \notin Cut(S)
  BY DEF Revoke
<1>3. \A c \in Clients : chan'[c] = IF c \in Cut(S) THEN "closed" ELSE chan[c]
  BY DEF Revoke
<1>4. ASSUME NEW s \in Sessions, client'[s] # None
      PROVE  /\ ~closed'[s]
             /\ active'[client'[s]]
             /\ of'[client'[s]] = s
  <2>1. s \notin S /\ client'[s] = client[s] /\ client[s] # None
    BY <1>1, <1>4
  <2>2. client[s] \in Clients
    BY <2>1 DEF TypeOK
  <2>3. ~closed[s] /\ active[client[s]] /\ of[client[s]] = s
    BY <2>1 DEF Linked
  <2>4. client[s] \notin Cut(S)
    BY <2>1, <2>2, <2>3, CutOf
  <2>5. QED BY <1>2, <2>1, <2>2, <2>3, <2>4
<1>5. ASSUME NEW c \in Clients, active'[c]
      PROVE  /\ of'[c] # None
             /\ client'[of'[c]] = c
             /\ chan'[c] = "open"
  <2>1. active[c] /\ of[c] \notin S /\ c \notin Cut(S)
    BY <1>2, <1>5, CutOf
  <2>2. of[c] \in Sessions
    BY <2>1 DEF Linked, TypeOK
  <2>3. QED BY <1>1, <1>3, <2>1, <2>2 DEF Linked
<1>6. QED BY <1>4, <1>5 DEF Linked

LEMMA RegisterLinked ==
  ASSUME TypeOK, Linked, NEW c \in Clients, NEW s \in Sessions, Register(c, s),
         of[c] = None, ~closed[s], closed' = closed
  PROVE  Linked'
<1>1. \A x \in Sessions : client'[x] = IF x = s THEN c ELSE client[x]
  BY DEF Register, TypeOK
<1>2. \A d \in Clients : of'[d] = IF d = c THEN s ELSE of[d]
  BY DEF Register, TypeOK
<1>3. \A d \in Clients : active'[d] <=> d = c \/ (active[d] /\ d \notin Cut({s}))
  BY DEF Register
<1>4. \A d \in Clients : chan'[d] = IF d = c THEN "open"
                            ELSE IF d \in Cut({s}) THEN "closed" ELSE chan[d]
  BY DEF Register
<1>5. ASSUME NEW x \in Sessions, client'[x] # None
      PROVE  /\ ~closed'[x]
             /\ active'[client'[x]]
             /\ of'[client'[x]] = x
  <2>1. CASE x = s
    BY <1>1, <1>2, <1>3, <2>1
  <2>2. CASE x # s
    <3>1. client'[x] = client[x] /\ client[x] # None
      BY <1>1, <1>5, <2>2
    <3>2. ~closed[x] /\ active[client[x]] /\ of[client[x]] = x
      BY <3>1 DEF Linked
    <3>3. client[x] \in Clients /\ client[x] # c
      BY <3>1, <3>2, PtyAssumption DEF TypeOK
    <3>4. client[x] \notin Cut({s})
      BY <2>2, <3>2, <3>3, CutOf
    <3>5. QED BY <1>2, <1>3, <3>1, <3>2, <3>3, <3>4
  <2>3. QED BY <2>1, <2>2
<1>6. ASSUME NEW d \in Clients, active'[d]
      PROVE  /\ of'[d] # None
             /\ client'[of'[d]] = d
             /\ chan'[d] = "open"
  <2>1. CASE d = c
    BY <1>1, <1>2, <1>4, <2>1, PtyAssumption
  <2>2. CASE d # c
    <3>1. active[d] /\ d \notin Cut({s})
      BY <1>3, <1>6, <2>2
    <3>2. of[d] # s
      BY <3>1, CutOf
    <3>3. of[d] \in Sessions /\ client[of[d]] = d /\ chan[d] = "open"
      BY <3>1 DEF Linked, TypeOK
    <3>4. QED BY <1>1, <1>2, <1>4, <2>2, <3>1, <3>2, <3>3, PtyAssumption
  <2>3. QED BY <2>1, <2>2
<1>7. QED BY <1>5, <1>6 DEF Linked

LEMMA MarkClosedOnce ==
  ASSUME TypeOK, CloseOnce, NEW S, NEW next \in {"kill", "release", "shut"},
         MarkClosed(S, next),
         \A s \in Sessions : s \in S => ~closed[s],
         vt' = vt, runtime' = runtime \/ runtime' = "closing",
         next = "shut" => runtime' = "closing"
  PROVE  CloseOnce'
<1> SUFFICES ASSUME NEW s \in Sessions
             PROVE  /\ done'[s] = closed'[s]
                    /\ task'[s] = "none" <=> ~closed'[s]
                    /\ vt'[s] = "released" => task'[s] = "over"
                    /\ task'[s] \in {"shut", "await"} => runtime' = "closing"
  BY DEF CloseOnce
<1>1. CASE s \in S
  <2>1. closed'[s] /\ done'[s] /\ task'[s] = next
    BY <1>1 DEF MarkClosed
  <2>2. vt[s] # "released"
    BY <1>1 DEF CloseOnce
  <2>3. QED BY <2>1, <2>2
<1>2. CASE s \notin S
  <2>1. closed'[s] = closed[s] /\ done'[s] = done[s] /\ task'[s] = task[s]
    BY <1>2 DEF MarkClosed, TypeOK
  <2>2. QED BY <2>1 DEF CloseOnce
<1>3. QED BY <1>1, <1>2

\* No channel is closed twice.
LEMMA RevokeSafe == ASSUME Linked, NEW S PROVE ~RevokePanics(S)
BY DEF Linked, RevokePanics, Cut

LEMMA CloseSafe ==
  ASSUME CloseOnce, NEW S \in SUBSET Sessions, \A s \in S : ~closed[s]
  PROVE  ~ClosePanics(S)
BY DEF CloseOnce, ClosePanics

\* Removing a closed session from the map, and only that one.
LEMMA UnmapExact ==
  ASSUME TypeOK, MapExact, NEW s \in Sessions, NEW next, ~closed[s], Unmap(s),
         MarkClosed({s}, next), key' = key
  PROVE  MapExact'
<1>1. closed'[s]
  BY DEF MarkClosed
<1>2. \A x \in Sessions : x # s => closed'[x] = closed[x]
  BY DEF MarkClosed, TypeOK
<1>3. \A k \in Keys : sessions'[k] = IF sessions[k] = s THEN None ELSE sessions[k]
  BY PtyAssumption DEF MapExact, Unmap, TypeOK
<1>4. ASSUME NEW k \in Keys, sessions'[k] # None
      PROVE  key'[sessions'[k]] = k /\ ~closed'[sessions'[k]]
  <2>1. sessions'[k] = sessions[k] /\ sessions[k] # s /\ sessions[k] \in Sessions
    BY <1>3, <1>4 DEF TypeOK
  <2>2. key[sessions[k]] = k /\ ~closed[sessions[k]]
    BY <1>4, <2>1 DEF MapExact
  <2>3. QED BY <1>2, <2>1, <2>2
<1>5. ASSUME NEW x \in Sessions, key'[x] # None, ~closed'[x]
      PROVE  sessions'[key'[x]] = x
  <2>1. x # s /\ ~closed[x] /\ key[x] # None
    BY <1>1, <1>2, <1>5
  <2>2. sessions[key[x]] = x /\ key[x] \in Keys
    BY <2>1 DEF MapExact, LiveSessionsMapped, TypeOK
  <2>3. QED BY <1>3, <2>1, <2>2
<1>6. QED BY <1>4, <1>5 DEF MapExact, LiveSessionsMapped

\* The timer states that StopTimers changes are not those of blank clients.
LEMMA StopTimersUnset ==
  ASSUME TypeOK, NEW S, StopTimers(S), NEW c \in Clients, tm[c] = "unset"
  PROVE  tm'[c] = "unset"
BY DEF StopTimers, Stopped, TypeOK

-----------------------------------------------------------------------------
(* The structural invariant is inductive, and under it no step panics.      *)

Inv == Structure /\ NoPanic

LEMMA InitInv == Init => Inv
BY PtyAssumption
   DEF Init, Inv, Structure, UnstartedBlank, MapExact, LiveSessionsMapped, CloseOnce,
       Linked, NewBlank, NoPanic

\* A step that leaves what the invariant speaks of alone.
structVars == <<sessions, runtime, key, client, closed, done, task, vt, fed, reader,
                of, active, chan, queue, phase, tm, driver, panicked>>

LEMMA QuietInv == Inv /\ UNCHANGED structVars => Inv'
BY DEF structVars, Inv, Structure, UnstartedBlank, MapExact, LiveSessionsMapped,
       CloseOnce, Linked, NewBlank, NoPanic

\* Register on an open, started session.
LEMMA RegisterBlank ==
  ASSUME TypeOK, UnstartedBlank, NewBlank, NEW c \in Clients, NEW s \in Sessions,
         Register(c, s), key'[s] # None,
         \A x \in Sessions : x # s => /\ key'[x] = key[x] /\ reader'[x] = reader[x]
                                      /\ closed'[x] = closed[x] /\ fed'[x] = fed[x]
                                      /\ vt'[x] = vt[x] /\ task'[x] = task[x],
         \A d \in Clients : tm[d] = "unset" => tm'[d] = "unset"
  PROVE  UnstartedBlank' /\ NewBlank'
<1>1. \A x \in Sessions : x # s => client'[x] = client[x] /\ driver'[x] = driver[x]
  BY DEF Register, TypeOK
<1>2. \A d \in Clients : of'[d] = IF d = c THEN s ELSE of[d]
  BY DEF Register, TypeOK
<1>3. \A d \in Clients : phase'[d] = IF d = c THEN "handshake" ELSE phase[d]
  BY DEF Register, TypeOK
<1>4. queue' = queue
  BY DEF Register
<1>5. UnstartedBlank'
  BY <1>1, <1>2 DEF UnstartedBlank
<1>6. NewBlank'
  BY <1>2, <1>3, <1>4, PtyAssumption DEF NewBlank
<1>7. QED BY <1>5, <1>6

\* Revoking and refusing keep blank what is blank.
LEMMA DumpFailsBlank ==
  ASSUME TypeOK, UnstartedBlank, NewBlank, NEW c \in Clients, NEW s \in Sessions,
         DumpFails(c, s), key'[s] # None,
         \A x \in Sessions : x # s => /\ key'[x] = key[x] /\ reader'[x] = reader[x]
                                      /\ closed'[x] = closed[x] /\ fed'[x] = fed[x]
                                      /\ vt'[x] = vt[x] /\ task'[x] = task[x],
         \A d \in Clients : tm[d] = "unset" => tm'[d] = "unset"
  PROVE  UnstartedBlank' /\ NewBlank'
<1>1. \A x \in Sessions : x # s => client'[x] = client[x]
  BY DEF DumpFails, Revoke
<1>2. UNCHANGED <<of, driver, queue>>
  BY DEF DumpFails, Refuse
<1>3. \A d \in Clients : phase'[d] = IF d = c THEN "gone" ELSE phase[d]
  BY DEF DumpFails, Refuse, TypeOK
<1>4. UnstartedBlank'
  BY <1>1, <1>2 DEF UnstartedBlank
<1>5. NewBlank'
  BY <1>2, <1>3 DEF NewBlank
<1>6. QED BY <1>4, <1>5

LEMMA ReattachInv ==
  ASSUME TypeOK, Inv, NEW c \in Clients, NEW k \in Keys, Reattach(c, k)
  PROVE  Inv'
<1> DEFINE s == sessions[k]
<1>1. s \in Sessions /\ ~closed[s] /\ key[s] = k /\ k # None
  BY PtyAssumption DEF Reattach, Usable, TypeOK, Inv, Structure, MapExact
<1>2. /\ UNCHANGED <<sessions, runtime, key, closed, done, task, reader, vt, fed>>
      /\ StopTimers({s})
      /\ Register(c, s) \/ DumpFails(c, s)
      /\ panicked' = (panicked \/ RevokePanics({s}))
  BY DEF Reattach, closeVars, procVars, vtVars
<1>3. phase[c] = "new" /\ of[c] = None
  BY DEF Reattach, Inv, Structure, NewBlank
<1>4. MapExact' /\ CloseOnce'
  BY <1>2 DEF Inv, Structure, MapExact, LiveSessionsMapped, CloseOnce
<1>5. NoPanic'
  BY <1>2, RevokeSafe DEF Inv, Structure, NoPanic
<1>6. \A d \in Clients : tm[d] = "unset" => tm'[d] = "unset"
  BY <1>2, StopTimersUnset
<1>7. CASE Register(c, s)
  <2>1. Linked'
    BY <1>1, <1>2, <1>3, <1>7, RegisterLinked DEF Inv, Structure
  <2>2. UnstartedBlank' /\ NewBlank'
    BY <1>1, <1>2, <1>6, <1>7, RegisterBlank DEF Inv, Structure
  <2>3. QED BY <1>4, <1>5, <2>1, <2>2 DEF Inv, Structure
<1>8. CASE DumpFails(c, s)
  <2>1. Revoke({s}) /\ of' = of
    BY <1>8 DEF DumpFails, Refuse
  <2>2. Linked'
    BY <1>1, <1>2, <2>1, RevokeLinked DEF Inv, Structure
  <2>3. UnstartedBlank' /\ NewBlank'
    BY <1>1, <1>2, <1>6, <1>8, DumpFailsBlank DEF Inv, Structure
  <2>4. QED BY <1>4, <1>5, <2>2, <2>3 DEF Inv, Structure
<1>9. QED BY <1>2, <1>7, <1>8

LEMMA AttachNewInv ==
  ASSUME TypeOK, Inv, NEW c \in Clients, NEW k \in Keys, NEW s \in Sessions,
         AttachNew(c, k, s)
  PROVE  Inv'
<1>1. /\ phase[c] = "new" /\ of[c] = None
      /\ key[s] = None /\ ~closed[s] /\ ~Usable(k) /\ k # None
  BY PtyAssumption DEF AttachNew, Inv, Structure, NewBlank, UnstartedBlank
<1>2. /\ UNCHANGED <<runtime, closed, done, task, fed, tm, panicked>>
      /\ Register(c, s) \/ DumpFails(c, s)
  BY DEF AttachNew, closeVars
<1>3. /\ \A x \in Sessions : key'[x] = IF x = s THEN k ELSE key[x]
      /\ \A j \in Keys : sessions'[j] = IF j = k THEN s ELSE sessions[j]
      /\ \A x \in Sessions : vt'[x] = IF x = s THEN "open" ELSE vt[x]
      /\ \A x \in Sessions : x # s => reader'[x] = reader[x]
  BY DEF AttachNew, TypeOK
<1>4. MapExact'
  <2>1. ASSUME NEW j \in Keys, sessions'[j] # None
        PROVE  key'[sessions'[j]] = j /\ ~closed'[sessions'[j]]
    <3>1. CASE j = k
      BY <1>1, <1>2, <1>3, <3>1
    <3>2. CASE j # k
      <4>1. sessions'[j] = sessions[j] /\ sessions[j] # None
        BY <1>3, <2>1, <3>2
      <4>2. key[sessions[j]] = j /\ ~closed[sessions[j]] /\ sessions[j] \in Sessions
        BY <4>1 DEF Inv, Structure, MapExact, TypeOK
      <4>3. sessions[j] # s
        BY <1>1, <4>2, PtyAssumption
      <4>4. QED BY <1>2, <1>3, <4>1, <4>2, <4>3
    <3>3. QED BY <3>1, <3>2
  <2>2. ASSUME NEW x \in Sessions, key'[x] # None, ~closed'[x]
        PROVE  sessions'[key'[x]] = x
    <3>1. CASE x = s
      BY <1>3, <3>1
    <3>2. CASE x # s
      <4>1. key[x] \in Keys /\ sessions[key[x]] = x /\ ~closed[x] /\ x # None
        BY <1>2, <1>3, <2>2, <3>2, PtyAssumption
        DEF Inv, Structure, MapExact, LiveSessionsMapped, TypeOK
      <4>2. key[x] # k
        BY <1>1, <4>1 DEF Usable
      <4>3. QED BY <1>3, <3>2, <4>1, <4>2
    <3>3. QED BY <3>1, <3>2
  <2>3. QED BY <2>1, <2>2 DEF MapExact, LiveSessionsMapped
<1>5. CloseOnce'
  BY <1>2, <1>3 DEF Inv, Structure, CloseOnce
<1>6. NoPanic'
  BY <1>2 DEF Inv, NoPanic
<1>7. CASE Register(c, s)
  <2>1. Linked'
    BY <1>1, <1>2, <1>7, RegisterLinked DEF Inv, Structure
  <2>2. UnstartedBlank' /\ NewBlank'
    BY <1>1, <1>2, <1>3, <1>7, RegisterBlank DEF Inv, Structure
  <2>3. QED BY <1>4, <1>5, <1>6, <2>1, <2>2 DEF Inv, Structure
<1>8. CASE DumpFails(c, s)
  <2>1. Revoke({s}) /\ of' = of
    BY <1>8 DEF DumpFails, Refuse
  <2>2. Linked'
    BY <1>2, <2>1, RevokeLinked DEF Inv, Structure
  <2>3. UnstartedBlank' /\ NewBlank'
    BY <1>1, <1>2, <1>3, <1>8, DumpFailsBlank DEF Inv, Structure
  <2>4. QED BY <1>4, <1>5, <1>6, <2>2, <2>3 DEF Inv, Structure
<1>9. QED BY <1>2, <1>7, <1>8

LEMMA StartFailsInv ==
  ASSUME TypeOK, Inv, NEW c \in Clients, NEW k \in Keys, StartFails(c, k)
  PROVE  Inv'
<1>1. sessions[k] = None
  BY DEF StartFails, Usable, Inv, Structure, MapExact
<1>2. sessions' = sessions
  BY <1>1 DEF StartFails, TypeOK
<1>3. UNCHANGED <<runtime, key, client, closed, done, task, vt, fed, reader, of,
                  active, chan, queue, tm, driver, panicked>>
  BY DEF StartFails, Refuse, linkVars, closeVars, procVars, vtVars
<1>4. \A d \in Clients : phase'[d] = IF d = c THEN "gone" ELSE phase[d]
  BY DEF StartFails, Refuse, TypeOK
<1>5. NewBlank'
  BY <1>3, <1>4 DEF Inv, Structure, NewBlank
<1>6. QED
  BY <1>2, <1>3, <1>5
  DEF Inv, Structure, UnstartedBlank, MapExact, LiveSessionsMapped, CloseOnce, Linked,
      NoPanic

\* The handler's own steps, up to its end.
LEMMA ServingInv ==
  ASSUME TypeOK, Inv, NEW c \in Clients,
         \/ SendPrefix(c) \/ Activate(c) \/ Drive(c) \/ Deliver(c) \/ StreamEnds(c)
         \/ ConnDrop(c)
  PROVE  Inv'
<1> USE DEF managerVars, linkVars, closeVars, procVars, vtVars, clientVars, socketVars
<1>1. CASE SendPrefix(c)
  <2>1. /\ UNCHANGED <<sessions, runtime, key, client, closed, done, task, vt, fed,
                       reader, of, active, chan, queue, tm, driver, panicked>>
        /\ \A d \in Clients : phase'[d] = IF d = c THEN "serving" ELSE phase[d]
    BY <1>1 DEF SendPrefix, TypeOK
  <2>2. NewBlank'
    BY <2>1 DEF Inv, Structure, NewBlank
  <2>3. QED
    BY <2>1, <2>2
    DEF Inv, Structure, UnstartedBlank, MapExact, LiveSessionsMapped, CloseOnce,
        Linked, NoPanic
<1>2. CASE Activate(c) \/ StreamEnds(c) \/ ConnDrop(c)
  BY <1>2, QuietInv DEF Activate, StreamEnds, ConnDrop, structVars
<1>3. CASE Drive(c)
  <2>1. /\ UNCHANGED <<sessions, runtime, key, client, closed, done, task, vt, fed,
                       reader, of, active, chan, queue, phase, tm, panicked>>
        /\ of[c] \in Sessions
        /\ \A s \in Sessions : driver'[s] = IF s = of[c] THEN c ELSE driver[s]
    BY <1>3 DEF Drive, HoldsInput, Current, TypeOK
  <2>2. UnstartedBlank'
    BY <2>1 DEF Inv, Structure, UnstartedBlank
  <2>3. QED
    BY <2>1, <2>2
    DEF Inv, Structure, MapExact, LiveSessionsMapped, CloseOnce, Linked, NewBlank,
        NoPanic
<1>4. CASE Deliver(c)
  <2>1. /\ UNCHANGED <<sessions, runtime, key, client, closed, done, task, vt, fed,
                       reader, of, active, chan, phase, tm, driver, panicked>>
        /\ queue[c] # << >>
        /\ \A d \in Clients : d # c => queue'[d] = queue[d]
    BY <1>4 DEF Deliver, TypeOK
  <2>2. NewBlank'
    BY <2>1 DEF Inv, Structure, NewBlank
  <2>3. QED
    BY <2>1, <2>2
    DEF Inv, Structure, UnstartedBlank, MapExact, LiveSessionsMapped, CloseOnce,
        Linked, NoPanic
<1>5. QED BY <1>1, <1>2, <1>3, <1>4

LEMMA HandlerExitInv ==
  ASSUME TypeOK, Inv, NEW c \in Clients, HandlerExit(c)
  PROVE  Inv'
<1>1. /\ phase[c] # "new"
      /\ UNCHANGED <<sessions, runtime, key, closed, done, task, vt, fed, reader, of,
                     driver>>
      /\ \A d \in Clients : phase'[d] = IF d = c THEN "gone" ELSE phase[d]
      /\ \A d \in Clients : queue'[d] = IF d = c THEN << >> ELSE queue[d]
  BY DEF HandlerExit, TypeOK, managerVars, closeVars, procVars, vtVars
<1>2. MapExact' /\ CloseOnce'
  BY <1>1 DEF Inv, Structure, MapExact, LiveSessionsMapped, CloseOnce
<1>3. CASE Current(c) /\ ~closed[of[c]]
  <2> DEFINE s == of[c]
  <2>1. s \in Sessions /\ s # None
    BY <1>3 DEF Current, TypeOK
  <2>2. /\ DetachLocked(c, s)
        /\ panicked' = (panicked \/ RevokePanics({s}))
    BY <1>3 DEF HandlerExit
  <2>3. Revoke({s})
    BY <2>2 DEF DetachLocked
  <2>4. \A d \in Clients : d # c => tm'[d] = tm[d]
    BY <2>2 DEF DetachLocked, TypeOK
  <2>5. Linked'
    BY <1>1, <2>1, <2>3, RevokeLinked DEF Inv, Structure
  <2>6. NoPanic'
    BY <2>2, RevokeSafe DEF Inv, Structure, NoPanic
  <2>7. UnstartedBlank'
    BY <1>1, <2>3 DEF Inv, Structure, UnstartedBlank, Revoke
  <2>8. NewBlank'
    BY <1>1, <2>1, <2>4 DEF Inv, Structure, NewBlank
  <2>9. QED BY <1>2, <2>5, <2>6, <2>7, <2>8 DEF Inv, Structure
<1>4. CASE ~(Current(c) /\ ~closed[of[c]])
  <2>1. UNCHANGED <<client, active, chan, tm, panicked>>
    BY <1>4 DEF HandlerExit, linkVars
  <2>2. QED
    BY <1>1, <1>2, <2>1
    DEF Inv, Structure, UnstartedBlank, Linked, NewBlank, NoPanic
<1>5. QED BY <1>3, <1>4

LEMMA TimeoutInv ==
  ASSUME TypeOK, Inv, NEW c \in Clients, Timeout(c)
  PROVE  Inv'
<1>1. /\ of[c] # None /\ of[c] \in Sessions
      /\ \A d \in Clients : d # c => tm'[d] = tm[d]
      /\ UNCHANGED <<runtime, key, client, vt, fed, reader, of, active, chan, queue,
                     phase, driver>>
  BY DEF Timeout, TimerFires, Expire, Inv, Structure, NewBlank, TypeOK, managerVars,
         linkVars, procVars, vtVars, clientVars, socketVars
<1>2. NewBlank'
  BY <1>1 DEF Inv, Structure, NewBlank
<1>3. CASE UNCHANGED <<sessions, closed, done, task, panicked>>
  BY <1>1, <1>2, <1>3
  DEF Inv, Structure, UnstartedBlank, MapExact, LiveSessionsMapped, CloseOnce, Linked,
      NoPanic
<1>4. CASE Expire(c) /\ Expirable(of[c])
  <2> DEFINE s == of[c]
  <2>0. ~closed[s] /\ client[s] = None
    BY <1>4 DEF Expirable
  <2>1. /\ MarkClosed({s}, "kill")
        /\ Unmap(s)
        /\ panicked' = (panicked \/ ClosePanics({s}))
    BY <1>4 DEF Expire
  <2>2. MapExact'
    BY <1>1, <2>0, <2>1, UnmapExact DEF Inv, Structure
  <2>3. CloseOnce'
    BY <1>1, <2>0, <2>1, MarkClosedOnce DEF Inv, Structure
  <2>4. NoPanic'
    BY <1>1, <2>0, <2>1, CloseSafe DEF Inv, Structure, NoPanic
  <2>5. \A x \in Sessions : x # s => closed'[x] = closed[x] /\ task'[x] = task[x]
    BY <2>1 DEF MarkClosed, TypeOK
  <2>6. UnstartedBlank'
    BY <1>1, <2>5 DEF Inv, Structure, UnstartedBlank
  <2>7. Linked'
    BY <1>1, <2>5, <2>0 DEF Inv, Structure, Linked
  <2>8. QED BY <1>2, <2>2, <2>3, <2>4, <2>6, <2>7 DEF Inv, Structure
<1>5. QED
  BY <1>3, <1>4 DEF Timeout, TimerFires, Expire, managerVars, closeVars

LEMMA BroadcastInv ==
  ASSUME TypeOK, Inv, NEW s \in Sessions, Broadcast(s)
  PROVE  Inv'
<1>1. /\ UNCHANGED <<sessions, runtime, key, closed, done, task, vt, reader, of, phase,
                     tm, driver>>
      /\ key[s] # None
      /\ \A x \in Sessions : x # s => fed'[x] = fed[x]
  BY DEF Broadcast, Inv, Structure, UnstartedBlank, TypeOK, managerVars, closeVars,
         procVars, socketVars
<1>2. MapExact' /\ CloseOnce'
  BY <1>1 DEF Inv, Structure, MapExact, LiveSessionsMapped, CloseOnce
<1>3. CASE UNCHANGED <<client, active, chan>>
  <2>1. Linked'
    BY <1>1, <1>3 DEF Inv, Structure, Linked
  <2>2. UnstartedBlank'
    BY <1>1, <1>3 DEF Inv, Structure, UnstartedBlank
  <2>3. CASE queue' = queue /\ panicked' = panicked
    BY <1>1, <1>2, <2>1, <2>2, <2>3 DEF Inv, Structure, NewBlank, NoPanic
  <2>4. CASE /\ client[s] # None
             /\ queue' = [queue EXCEPT ![client[s]] = Append(@, fed[s] + 1)]
             /\ panicked' = (panicked \/ chan[client[s]] = "closed")
    <3>1. client[s] \in Clients /\ of[client[s]] = s /\ chan[client[s]] = "open"
      BY <2>4 DEF Inv, Structure, Linked, TypeOK
    <3>2. \A d \in Clients : d # client[s] => queue'[d] = queue[d]
      BY <2>4 DEF TypeOK
    <3>3. NewBlank'
      BY <1>1, <3>1, <3>2, PtyAssumption DEF Inv, Structure, NewBlank
    <3>4. NoPanic'
      BY <2>4, <3>1 DEF Inv, NoPanic
    <3>5. QED BY <1>2, <2>1, <2>2, <3>3, <3>4 DEF Inv, Structure
  <2>5. CASE /\ client[s] # None
             /\ active[client[s]]
             /\ ~(Len(queue[client[s]]) < SubBuffer)
    <3>1. queue' = queue /\ panicked' = (panicked \/ RevokePanics({s}))
      BY <2>5 DEF Broadcast, Overflow
    <3>2. NoPanic'
      BY <3>1, RevokeSafe DEF Inv, Structure, NoPanic
    <3>3. NewBlank'
      BY <1>1, <3>1 DEF Inv, Structure, NewBlank
    <3>4. QED BY <1>2, <2>1, <2>2, <3>2, <3>3 DEF Inv, Structure
  <2>6. QED BY <2>3, <2>4, <2>5 DEF Broadcast
<1>4. CASE /\ Revoke({s})
           /\ panicked' = (panicked \/ RevokePanics({s}))
           /\ queue' = queue
  <2>1. Linked'
    BY <1>1, <1>4, RevokeLinked DEF Inv, Structure
  <2>2. NoPanic'
    BY <1>4, RevokeSafe DEF Inv, Structure, NoPanic
  <2>3. UnstartedBlank'
    BY <1>1, <1>4 DEF Inv, Structure, UnstartedBlank, Revoke
  <2>4. NewBlank'
    BY <1>1, <1>4 DEF Inv, Structure, NewBlank
  <2>5. QED BY <1>2, <2>1, <2>2, <2>3, <2>4 DEF Inv, Structure
<1>5. QED BY <1>3, <1>4 DEF Broadcast, Overflow

LEMMA FinishInv ==
  ASSUME TypeOK, Inv, NEW s \in Sessions, Finish(s)
  PROVE  Inv'
<1>1. /\ UNCHANGED <<runtime, key, vt, fed, of, phase, driver>>
      /\ key[s] # None
      /\ \A x \in Sessions : x # s => reader'[x] = reader[x]
  BY DEF Finish, Inv, Structure, UnstartedBlank, TypeOK, vtVars, socketVars
<1>2. CASE closed[s]
  <2>1. UNCHANGED <<sessions, client, closed, done, task, active, chan, queue, tm,
                    panicked>>
    BY <1>2 DEF Finish, linkVars, closeVars
  <2>2. UnstartedBlank'
    BY <1>1, <2>1 DEF Inv, Structure, UnstartedBlank
  <2>3. QED
    BY <1>1, <2>1, <2>2
    DEF Inv, Structure, MapExact, LiveSessionsMapped, CloseOnce, Linked, NewBlank,
        NoPanic
<1>3. CASE ~closed[s]
  <2>1. /\ MarkClosed({s}, "release")
        /\ StopTimers({s})
        /\ Unmap(s)
        /\ Revoke({s})
    BY <1>3 DEF Finish
  <2>2. /\ panicked' = (panicked \/ ClosePanics({s}) \/ RevokePanics({s}))
        /\ \A d \in Clients : d \notin Notified(s) => queue'[d] = queue[d]
    BY <1>3 DEF Finish
  <2>3. \A x \in Sessions : x # s => closed'[x] = closed[x] /\ task'[x] = task[x]
    BY <2>1 DEF MarkClosed, TypeOK
  <2>4. MapExact'
    BY <1>1, <1>3, <2>1, UnmapExact DEF Inv, Structure
  <2>5. CloseOnce'
    BY <1>1, <1>3, <2>1, MarkClosedOnce DEF Inv, Structure
  <2>6. Linked'
    BY <1>1, <2>1, <2>3, RevokeLinked DEF Inv, Structure
  <2>7. NoPanic'
    BY <1>3, <2>2, CloseSafe, RevokeSafe DEF Inv, Structure, NoPanic
  <2>8. UnstartedBlank'
    BY <1>1, <2>1, <2>3 DEF Inv, Structure, UnstartedBlank, Revoke
  <2>9. NewBlank'
    <3>1. ASSUME NEW d \in Clients, of[d] = None
          PROVE  queue'[d] = queue[d] /\ tm'[d] = "unset"
      <4>1. ~active[d]
        BY <3>1 DEF Inv, Structure, Linked
      <4>2. d \notin Notified(s)
        BY <4>1 DEF Notified, Cut
      <4>3. tm[d] = "unset"
        BY <3>1 DEF Inv, Structure, NewBlank
      <4>4. QED BY <2>1, <2>2, <4>2, <4>3, StopTimersUnset
    <3>2. QED BY <1>1, <3>1 DEF Inv, Structure, NewBlank
  <2>10. QED BY <2>4, <2>5, <2>6, <2>7, <2>8, <2>9 DEF Inv, Structure
<1>4. QED BY <1>2, <1>3

\* What follows an unlock moves one session along its task.
LEMMA AftermathInv ==
  ASSUME TypeOK, Inv, NEW s \in Sessions, Aftermath(s)
  PROVE  Inv'
<1>1. /\ UNCHANGED <<sessions, runtime, key, client, closed, done, fed, reader, of,
                     active, chan, queue, phase, tm, driver, panicked>>
      /\ task[s] \in {"kill", "release", "shut", "await"}
      /\ task'[s] \in {"release", "await", "over"}
      /\ task'[s] = "await" => task[s] = "shut"
      /\ vt'[s] = "released" => vt[s] = "released" \/ task'[s] = "over"
      /\ \A x \in Sessions : x # s => task'[x] = task[x] /\ vt'[x] = vt[x]
  BY DEF Aftermath, ExpireKill, ReleaseVT, CloseKill, CloseRelease, TypeOK, managerVars,
         linkVars, procVars, vtVars, clientVars, socketVars
<1>2. UnstartedBlank'
  BY <1>1 DEF Inv, Structure, UnstartedBlank
<1>3. CloseOnce'
  BY <1>1 DEF Inv, Structure, CloseOnce
<1>4. QED
  BY <1>1, <1>2, <1>3
  DEF Inv, Structure, MapExact, LiveSessionsMapped, Linked, NewBlank, NoPanic

LEMMA CloseBeginsInv ==
  ASSUME TypeOK, Inv, CloseBegins
  PROVE  Inv'
<1>1. /\ UNCHANGED <<key, vt, fed, reader, of, queue, phase, driver>>
      /\ runtime' = "closing"
      /\ sessions' = [k \in Keys |-> None]
      /\ MarkClosed(Mapped, "shut")
      /\ StopTimers(Mapped)
      /\ Revoke(Mapped)
      /\ panicked' = (panicked \/ ClosePanics(Mapped) \/ RevokePanics(Mapped))
  BY DEF CloseBegins, procVars, vtVars, socketVars
<1>2. \A s \in Mapped : s \in Sessions /\ ~closed[s] /\ key[s] # None
  BY PtyAssumption DEF Mapped, Inv, Structure, MapExact, TypeOK
<1>3. \A s \in Sessions : s \notin Mapped => closed'[s] = closed[s] /\ task'[s] = task[s]
  BY <1>1 DEF MarkClosed, TypeOK
<1>4. MapExact'
  <2>1. ASSUME NEW s \in Sessions, key[s] # None PROVE closed'[s]
    <3>1. CASE s \in Mapped
      BY <1>1, <3>1 DEF MarkClosed
    <3>2. CASE s \notin Mapped
      <4>1. key[s] \in Keys /\ sessions[key[s]] # s
        BY <2>1, <3>2 DEF Mapped, TypeOK
      <4>2. closed[s]
        BY <2>1, <4>1 DEF Inv, Structure, MapExact, LiveSessionsMapped
      <4>3. QED BY <1>3, <3>2, <4>2
    <3>3. QED BY <3>1, <3>2
  <2>2. QED BY <1>1, <2>1 DEF MapExact, LiveSessionsMapped
<1>5. CloseOnce'
  BY <1>1, <1>2, MarkClosedOnce DEF Inv, Structure
<1>6. Linked'
  <2>1. Mapped \in SUBSET Sessions
    BY DEF Mapped
  <2>2. QED BY <1>1, <1>3, <2>1, RevokeLinked DEF Inv, Structure
<1>7. NoPanic'
  BY <1>1, <1>2, CloseSafe, RevokeSafe DEF Inv, Structure, NoPanic
<1>8. UnstartedBlank'
  BY <1>1, <1>2, <1>3 DEF Inv, Structure, UnstartedBlank, Revoke
<1>9. NewBlank'
  BY <1>1, StopTimersUnset DEF Inv, Structure, NewBlank
<1>10. QED BY <1>4, <1>5, <1>6, <1>7, <1>8, <1>9 DEF Inv, Structure

LEMMA CloseRuntimeInv ==
  ASSUME TypeOK, Inv, CloseRuntime
  PROVE  Inv'
<1>1. /\ UNCHANGED <<sessions, key, client, closed, done, task, vt, fed, reader, of,
                     active, chan, queue, phase, tm, driver, panicked>>
      /\ \A s \in Sessions : task[s] \notin {"shut", "await"}
  BY DEF CloseRuntime, linkVars, closeVars, procVars, vtVars, clientVars, socketVars
<1>2. CloseOnce'
  BY <1>1 DEF Inv, Structure, CloseOnce
<1>3. QED
  BY <1>1, <1>2
  DEF Inv, Structure, UnstartedBlank, MapExact, LiveSessionsMapped, Linked, NewBlank,
      NoPanic

LEMMA NextInv == TypeOK /\ Inv /\ [Next]_vars => Inv'
<1> SUFFICES ASSUME TypeOK, Inv, [Next]_vars PROVE Inv'
  OBVIOUS
<1>1. ASSUME NEW c \in Clients, AttachStep(c) PROVE Inv'
  BY <1>1, ReattachInv, AttachNewInv, StartFailsInv DEF AttachStep
<1>2. ASSUME NEW c \in Clients, HandlerStep(c) PROVE Inv'
  BY <1>2, ServingInv, HandlerExitInv DEF HandlerStep
<1>3. ASSUME NEW c \in Clients, Timeout(c) PROVE Inv'
  BY <1>3, TimeoutInv
<1>4. ASSUME NEW s \in Sessions, SessionStep(s) PROVE Inv'
  <2>1. CASE ShellExits(s) \/ PollerStops(s)
    BY <2>1, QuietInv
    DEF ShellExits, PollerStops, structVars, managerVars, linkVars, closeVars, vtVars,
        clientVars, socketVars
  <2>2. QED BY <1>4, <2>1, BroadcastInv, FinishInv, AftermathInv DEF SessionStep
<1>5. CASE UNCHANGED vars
  BY <1>5, QuietInv
  DEF vars, structVars, managerVars, linkVars, closeVars, procVars, vtVars, clientVars,
      socketVars
<1>6. QED
  BY <1>1, <1>2, <1>3, <1>4, <1>5, CloseBeginsInv, CloseRuntimeInv DEF Next

THEOREM Invariance == Spec => []Inv
<1>1. QED BY InitInv, NextInv, TypeCorrect, PTL DEF Spec

\* Whatever the interleaving of exit, expiry, takeover, overflow and shutdown,
\* no channel is closed twice or sent to after its close: the server survives.
THEOREM NeverPanics == Spec => []NoPanic
<1>1. Inv => NoPanic
  BY DEF Inv
<1>2. QED BY <1>1, Invariance, PTL

\* The manager's map leads to every open shell, so that a reconnect finds it and
\* shutdown kills it.
THEOREM LiveSessionsAreMapped == Spec => []LiveSessionsMapped
<1>1. Inv => LiveSessionsMapped
  BY DEF Inv, Structure, MapExact
<1>2. QED BY <1>1, Invariance, PTL

\* A session's emulator is released only when no critical section can use it,
\* and Close closes the runtime last.
THEOREM NeverUsedAfterRelease == Spec => []NoUseAfterRelease
<1> DEFINE Shut == runtime = "closed" => \A s \in Sessions : task[s] \notin {"shut", "await"}
<1>1. TypeOK /\ Inv => NoUseAfterRelease
  <2> SUFFICES ASSUME TypeOK, Inv PROVE NoUseAfterRelease
    OBVIOUS
  <2>1. \A s \in Sessions : vt[s] = "released" => closed[s] /\ client[s] = None
    BY DEF Inv, Structure, CloseOnce, Linked
  <2>2. Shut
    BY DEF Inv, Structure, CloseOnce
  <2>3. QED BY <2>1, <2>2 DEF NoUseAfterRelease
<1>2. QED BY <1>1, TypeCorrect, Invariance, PTL
=============================================================================
