------------------------- MODULE PtySessionStreams -------------------------
(***************************************************************************)
(* Proofs about who may write into a shell and about what a browser shows: *)
(* one writer, no gap between replay and live frames, and the session      *)
(* manager implements ScreenStream.                                        *)
(***************************************************************************)
EXTENDS PtySessionProofs

\* The invariants both parts need.
Base == TypeOK /\ Inv

\* What every step but Attach's does to the current attachments.
ClientsShrink == \A s \in Sessions : client'[s] = client[s] \/ client'[s] = None
ChannelsClose == \A c \in Clients : chan[c] = "closed" => chan'[c] = "closed"

LEMMA RevokeShrinks ==
  ASSUME NEW S, Revoke(S)
  PROVE  ClientsShrink /\ ChannelsClose
BY DEF Revoke, ClientsShrink, ChannelsClose

\* The steps that neither attach, drive, feed nor move a frame.
LEMMA OtherSteps ==
  ASSUME TypeOK,
         \/ \E c \in Clients : \/ \E k \in Keys : StartFails(c, k)
                               \/ SendPrefix(c) \/ Activate(c) \/ StreamEnds(c)
                               \/ ConnDrop(c) \/ Timeout(c)
         \/ \E s \in Sessions : ShellExits(s) \/ PollerStops(s) \/ Aftermath(s)
         \/ CloseBegins \/ CloseRuntime
         \/ UNCHANGED vars
  PROVE  /\ ClientsShrink /\ ChannelsClose
         /\ UNCHANGED <<lastId, of, id, driver, queue, seen, fed>>
<1> USE DEF managerVars, linkVars, closeVars, procVars, vtVars, clientVars, socketVars
<1>1. CASE CloseBegins
  BY <1>1, RevokeShrinks DEF CloseBegins
<1>2. CASE UNCHANGED vars
  BY <1>2 DEF vars, ClientsShrink, ChannelsClose
<1>3. CASE CloseRuntime
  BY <1>3 DEF CloseRuntime, ClientsShrink, ChannelsClose
<1>4. ASSUME NEW c \in Clients, NEW k \in Keys, StartFails(c, k)
      PROVE  /\ ClientsShrink /\ ChannelsClose
             /\ UNCHANGED <<lastId, of, id, driver, queue, seen, fed>>
  BY <1>4 DEF StartFails, Refuse, ClientsShrink, ChannelsClose
<1>5. ASSUME NEW c \in Clients,
             SendPrefix(c) \/ Activate(c) \/ StreamEnds(c) \/ ConnDrop(c) \/ Timeout(c)
      PROVE  /\ ClientsShrink /\ ChannelsClose
             /\ UNCHANGED <<lastId, of, id, driver, queue, seen, fed>>
  BY <1>5 DEF SendPrefix, Activate, StreamEnds, ConnDrop, Timeout, TimerFires, Expire,
              ClientsShrink, ChannelsClose
<1>6. ASSUME NEW s \in Sessions, ShellExits(s) \/ PollerStops(s) \/ Aftermath(s)
      PROVE  /\ ClientsShrink /\ ChannelsClose
             /\ UNCHANGED <<lastId, of, id, driver, queue, seen, fed>>
  BY <1>6 DEF ShellExits, PollerStops, Aftermath, ExpireKill, ReleaseVT, CloseKill,
              CloseRelease, ClientsShrink, ChannelsClose
<1>7. QED BY <1>1, <1>2, <1>3, <1>4, <1>5, <1>6

\* A step of the specification is one of these.
LEMMA StepCases ==
  ASSUME TypeOK, [Next]_vars
  PROVE  \/ \E c \in Clients, k \in Keys : \/ Reattach(c, k)
                                           \/ \E s \in Sessions : AttachNew(c, k, s)
         \/ \E c \in Clients : Drive(c) \/ Deliver(c) \/ HandlerExit(c)
         \/ \E s \in Sessions : Broadcast(s) \/ Finish(s)
         \/ /\ ClientsShrink /\ ChannelsClose
            /\ UNCHANGED <<lastId, of, id, driver, queue, seen, fed>>
BY OtherSteps DEF Next, AttachStep, HandlerStep, SessionStep

\* A step that attaches ends in Register or in DumpFails, for a new attachment.
LEMMA AttachCases ==
  ASSUME Base, NEW c \in Clients, NEW k \in Keys,
         Reattach(c, k) \/ \E s \in Sessions : AttachNew(c, k, s)
  PROVE  /\ of[c] = None /\ fed' = fed
         /\ \/ \E s \in Sessions : Register(c, s)
            \/ /\ ClientsShrink /\ ChannelsClose
               /\ UNCHANGED <<lastId, of, id, driver, queue, seen, fed>>
<1>1. of[c] = None /\ fed' = fed
  BY DEF Reattach, AttachNew, Base, Inv, Structure, NewBlank, vtVars
<1>2. PICK s \in Sessions : Register(c, s) \/ DumpFails(c, s)
  <2>1. CASE Reattach(c, k)
    BY <2>1 DEF Reattach, Usable, Base, TypeOK
  <2>2. CASE \E s \in Sessions : AttachNew(c, k, s)
    BY <2>2 DEF AttachNew
  <2>3. QED BY <2>1, <2>2
<1>3. CASE DumpFails(c, s)
  BY <1>1, <1>3, RevokeShrinks DEF DumpFails, Refuse
<1>4. QED BY <1>1, <1>2, <1>3

-----------------------------------------------------------------------------
(* One writer.                                                              *)

LEMMA NewestKept ==
  ASSUME TypeOK, Newest, ClientsShrink, UNCHANGED <<lastId, of, id, driver>>
  PROVE  Newest'
BY DEF Newest, OneWriter, ClientsShrink

LEMMA RegisterNewest ==
  ASSUME Base, Newest, NEW c \in Clients, NEW s \in Sessions, Register(c, s),
         of[c] = None
  PROVE  Newest'
<1>1. /\ lastId' = lastId + 1 /\ lastId \in Nat
      /\ \A d \in Clients : id[d] \in Nat
      /\ \A d \in Clients : id'[d] = IF d = c THEN lastId + 1 ELSE id[d]
      /\ \A d \in Clients : of'[d] = IF d = c THEN s ELSE of[d]
      /\ \A x \in Sessions : client'[x] = IF x = s THEN c ELSE client[x]
      /\ \A x \in Sessions : driver'[x] = IF x = s THEN None ELSE driver[x]
  BY DEF Register, Base, TypeOK
<1>2. \A d \in Clients : id[d] <= lastId
  BY DEF Newest
<1>3. ASSUME NEW x \in Sessions, x # s, client[x] # None
      PROVE  client[x] \in Clients /\ client[x] # c
  BY <1>3, PtyAssumption DEF Base, TypeOK, Inv, Structure, Linked
<1>4. ASSUME NEW x \in Sessions, x # s, driver[x] # None
      PROVE  driver[x] \in Clients /\ driver[x] # c
  BY <1>4, PtyAssumption DEF Base, TypeOK, Newest, OneWriter
<1>5. \A d \in Clients : id'[d] <= lastId'
  BY <1>1, <1>2
<1>6. ASSUME NEW x \in Sessions, client'[x] # None, NEW d \in Clients, of'[d] = x
      PROVE  id'[d] <= id'[client'[x]]
  <2>1. CASE x = s
    BY <1>1, <1>2, <2>1
  <2>2. CASE x # s
    <3>1. client'[x] = client[x] /\ client[x] # None /\ of[d] = x /\ d # c
      BY <1>1, <1>6, <2>2
    <3>2. id[d] <= id[client[x]]
      BY <3>1 DEF Newest
    <3>3. QED BY <1>1, <1>3, <2>2, <3>1, <3>2
  <2>3. QED BY <2>1, <2>2
<1>7. ASSUME NEW x \in Sessions, driver'[x] # None
      PROVE  /\ of'[driver'[x]] = x
             /\ \A d \in Clients : of'[d] = x => id'[d] <= id'[driver'[x]]
  <2>1. x # s /\ driver'[x] = driver[x] /\ driver[x] # None
    BY <1>1, <1>7
  <2>2. /\ of[driver[x]] = x
        /\ \A d \in Clients : of[d] = x => id[d] <= id[driver[x]]
    BY <2>1 DEF Newest, OneWriter
  <2>3. driver[x] \in Clients /\ driver[x] # c
    BY <1>4, <2>1
  <2>4. QED BY <1>1, <2>1, <2>2, <2>3
<1>8. QED BY <1>5, <1>6, <1>7 DEF Newest, OneWriter

LEMMA DriveNewest ==
  ASSUME Base, Newest, NEW c \in Clients, Drive(c)
  PROVE  Newest'
<1>1. /\ of[c] \in Sessions /\ client[of[c]] = c /\ c # None
      /\ UNCHANGED <<lastId, of, id, client>>
      /\ \A x \in Sessions : driver'[x] = IF x = of[c] THEN c ELSE driver[x]
  BY PtyAssumption
     DEF Drive, HoldsInput, Current, Base, TypeOK, managerVars, linkVars, clientVars
<1>2. QED BY <1>1 DEF Newest, OneWriter

LEMMA NextNewest == Base /\ Newest /\ [Next]_vars => Newest'
<1> SUFFICES ASSUME Base, Newest, [Next]_vars PROVE Newest'
  OBVIOUS
<1>1. ASSUME NEW c \in Clients, NEW k \in Keys,
             Reattach(c, k) \/ \E s \in Sessions : AttachNew(c, k, s)
      PROVE  Newest'
  BY <1>1, AttachCases, RegisterNewest, NewestKept DEF Base
<1>2. ASSUME NEW c \in Clients, Deliver(c) PROVE Newest'
  BY <1>2, NewestKept
  DEF Deliver, Base, ClientsShrink, managerVars, linkVars
<1>3. ASSUME NEW c \in Clients, HandlerExit(c) PROVE Newest'
  <2>1. UNCHANGED <<lastId, of, id, driver>>
    BY <1>3 DEF HandlerExit, managerVars
  <2>2. ClientsShrink
    BY <1>3, RevokeShrinks DEF HandlerExit, DetachLocked, ClientsShrink, linkVars
  <2>3. QED BY <2>1, <2>2, NewestKept DEF Base
<1>4. ASSUME NEW s \in Sessions, Broadcast(s) PROVE Newest'
  <2>1. UNCHANGED <<lastId, of, id, driver>>
    BY <1>4 DEF Broadcast, managerVars
  <2>2. ClientsShrink
    BY <1>4, RevokeShrinks DEF Broadcast, Overflow, ClientsShrink
  <2>3. QED BY <2>1, <2>2, NewestKept DEF Base
<1>5. ASSUME NEW s \in Sessions, Finish(s) PROVE Newest'
  <2>1. UNCHANGED <<lastId, of, id, driver>>
    BY <1>5 DEF Finish
  <2>2. ClientsShrink
    BY <1>5, RevokeShrinks DEF Finish, ClientsShrink, linkVars
  <2>3. QED BY <2>1, <2>2, NewestKept DEF Base
<1>6. QED BY <1>1, <1>2, <1>3, <1>4, <1>5, StepCases, DriveNewest, NewestKept DEF Base

\* Only the newest attachment of a shell ever writes into it.
THEOREM OnlyNewestWrites == Spec => []OneWriter
<1>1. Init => Newest
  BY DEF Init, Newest, OneWriter
<1>2. Spec => []Base
  BY TypeCorrect, Invariance, PTL DEF Base
<1>3. Newest => OneWriter
  BY DEF Newest
<1>4. QED BY <1>1, <1>2, <1>3, NextNewest, PTL DEF Spec

-----------------------------------------------------------------------------
(* What a browser shows.                                                    *)

LEMMA StreamsKept ==
  ASSUME Base, Streams, ClientsShrink, ChannelsClose, UNCHANGED <<of, queue, seen, fed>>
  PROVE  Streams'
<1>1. CurrentMissesNothing'
  BY DEF Streams, CurrentMissesNothing, ClientsShrink
<1>2. FramesConsecutive'
  BY DEF Streams, FramesConsecutive, ChannelsClose
<1>3. FramesFed'
  BY DEF Streams, FramesFed
<1>4. QED BY <1>1, <1>2, <1>3 DEF Streams

LEMMA RegisterStreams ==
  ASSUME Base, Streams, NEW c \in Clients, NEW s \in Sessions, Register(c, s),
         of[c] = None, fed' = fed
  PROVE  Streams'
<1>1. /\ queue' = queue /\ queue[c] = << >>
      /\ \A d \in Clients : of'[d] = IF d = c THEN s ELSE of[d]
      /\ \A d \in Clients : seen'[d] = IF d = c THEN fed[s] ELSE seen[d]
      /\ \A x \in Sessions : client'[x] = IF x = s THEN c ELSE client[x]
      /\ \A d \in Clients : d # c /\ chan[d] = "closed" => chan'[d] = "closed"
      /\ fed[s] \in Nat
  BY DEF Register, Snapshot, Base, TypeOK, Inv, Structure, NewBlank
<1>2. ASSUME NEW x \in Sessions, x # s, client[x] # None
      PROVE  client[x] \in Clients /\ client[x] # c
  BY <1>2, PtyAssumption DEF Base, TypeOK, Inv, Structure, Linked
<1>3. CurrentMissesNothing'
  BY <1>1, <1>2 DEF Streams, CurrentMissesNothing
<1>4. FramesConsecutive'
  BY <1>1 DEF Streams, FramesConsecutive
<1>5. FramesFed'
  BY <1>1 DEF Streams, FramesFed
<1>6. QED BY <1>3, <1>4, <1>5 DEF Streams

LEMMA DeliverStreams ==
  ASSUME Base, Streams, NEW c \in Clients, Deliver(c)
  PROVE  Streams'
<1> DEFINE q == queue[c]
           t == queue'[c]
<1>1. /\ q \in Seq(Nat) /\ q # << >> /\ t = Tail(q) /\ seen[c] \in Nat
      /\ UNCHANGED <<of, fed, client, chan>>
      /\ \A d \in Clients : d # c => queue'[d] = queue[d] /\ seen'[d] = seen[d]
      /\ seen'[c] = IF Head(q) = ExitNotice THEN seen[c] ELSE Head(q)
  BY DEF Deliver, Base, TypeOK, linkVars, vtVars
<1>2. /\ Len(q) \in Nat /\ Len(q) >= 1 /\ Head(q) = q[1] /\ Len(t) = Len(q) - 1
      /\ \A i \in 1..Len(t) : t[i] = q[i + 1]
  BY <1>1
<1>3. \A i \in 1..Len(q) :
        q[i] = seen[c] + i \/ (q[i] = ExitNotice /\ i = Len(q) /\ chan[c] = "closed")
  BY DEF Streams, FramesConsecutive
<1>4. \A i \in 1..Len(q) : q[i] <= fed[of[c]]
  BY DEF Streams, FramesFed
<1> HIDE DEF q, t
<1>5. q[1] = seen[c] + 1 \/ (q[1] = ExitNotice /\ Len(q) = 1 /\ chan[c] = "closed")
  BY <1>2, <1>3
<1>6. ASSUME NEW i \in 1..Len(t)
      PROVE  /\ i + 1 \in 1..Len(q) /\ t[i] = q[i + 1] /\ q[1] # ExitNotice
             /\ i = Len(t) <=> i + 1 = Len(q)
  <2>1. i \in Nat /\ i >= 1 /\ i <= Len(t) /\ Len(q) \in Nat /\ Len(t) = Len(q) - 1
    BY <1>2
  <2>2. i + 1 \in 1..Len(q) /\ (i = Len(t) <=> i + 1 = Len(q)) /\ Len(q) # 1
    BY <2>1
  <2>3. t[i] = q[i + 1]
    BY <1>2
  <2>4. q[1] # ExitNotice
    <3>1. q[1] = seen[c] + 1 /\ seen[c] \in Nat
      BY <1>1, <1>5, <2>2
    <3>2. QED BY <3>1 DEF ExitNotice
  <2>5. QED BY <2>2, <2>3, <2>4
<1>7. ASSUME NEW i \in 1..Len(t)
      PROVE  /\ t[i] = seen'[c] + i \/ (t[i] = ExitNotice /\ i = Len(t) /\ chan[c] = "closed")
             /\ t[i] <= fed[of[c]]
  <2>1. seen'[c] = seen[c] + 1
    BY <1>1, <1>2, <1>5, <1>6
  <2>2. t[i] <= fed[of[c]]
    BY <1>4, <1>6
  <2>3. \/ q[i + 1] = seen[c] + (i + 1)
        \/ q[i + 1] = ExitNotice /\ i + 1 = Len(q) /\ chan[c] = "closed"
    BY <1>3, <1>6
  <2>4. CASE q[i + 1] = ExitNotice /\ i + 1 = Len(q) /\ chan[c] = "closed"
    BY <1>6, <2>2, <2>4
  <2>5. CASE q[i + 1] = seen[c] + (i + 1)
    <3>1. i \in Nat /\ seen[c] \in Nat /\ t[i] = q[i + 1]
      BY <1>1, <1>2, <1>6
    <3>2. t[i] = seen'[c] + i
      BY <2>1, <2>5, <3>1
    <3>3. QED BY <2>2, <3>2
  <2>6. QED BY <2>3, <2>4, <2>5
<1>8. ASSUME NEW s \in Sessions, client[s] = c
      PROVE  seen'[c] + Len(t) = fed[s]
  <2>1. chan[c] # "closed"
    BY <1>8, PtyAssumption DEF Base, Inv, Structure, Linked
  <2>2. seen[c] + Len(q) = fed[s]
    BY <1>8, PtyAssumption DEF Streams, CurrentMissesNothing, q
  <2>3. seen'[c] = seen[c] + 1
    BY <1>1, <1>2, <1>5, <2>1 DEF ExitNotice
  <2>4. QED BY <1>1, <1>2, <2>2, <2>3
<1>9. CurrentMissesNothing'
  <2>1. ASSUME NEW s \in Sessions, client[s] # None
        PROVE  seen'[client[s]] + Len(queue'[client[s]]) = fed[s]
    <3>1. CASE client[s] = c
      BY <1>8, <3>1 DEF t
    <3>2. CASE client[s] # c
      <4>1. client[s] \in Clients
        BY <2>1 DEF Base, TypeOK
      <4>2. QED BY <1>1, <2>1, <3>2, <4>1 DEF Streams, CurrentMissesNothing
    <3>3. QED BY <3>1, <3>2
  <2>2. QED BY <1>1, <2>1 DEF CurrentMissesNothing
<1>10. FramesConsecutive'
  <2>1. ASSUME NEW d \in Clients, NEW i \in 1..Len(queue'[d])
        PROVE  \/ queue'[d][i] = seen'[d] + i
               \/ /\ queue'[d][i] = ExitNotice
                  /\ i = Len(queue'[d]) /\ chan'[d] = "closed"
    <3>1. CASE d = c
      BY <1>1, <1>7, <2>1, <3>1 DEF t
    <3>2. CASE d # c
      BY <1>1, <2>1, <3>2 DEF Streams, FramesConsecutive
    <3>3. QED BY <3>1, <3>2
  <2>2. QED BY <2>1 DEF FramesConsecutive
<1>11. FramesFed'
  <2>1. ASSUME NEW d \in Clients, NEW i \in 1..Len(queue'[d])
        PROVE  queue'[d][i] <= fed'[of'[d]]
    <3>1. CASE d = c
      BY <1>1, <1>7, <2>1, <3>1 DEF t
    <3>2. CASE d # c
      BY <1>1, <2>1, <3>2 DEF Streams, FramesFed
    <3>3. QED BY <3>1, <3>2
  <2>2. QED BY <2>1 DEF FramesFed
<1>12. QED BY <1>9, <1>10, <1>11 DEF Streams

LEMMA HandlerExitStreams ==
  ASSUME Base, Streams, NEW c \in Clients, HandlerExit(c)
  PROVE  Streams'
<1>1. /\ UNCHANGED <<of, fed, seen>>
      /\ \A d \in Clients : queue'[d] = IF d = c THEN << >> ELSE queue[d]
  BY DEF HandlerExit, Base, TypeOK, vtVars
<1>2. ClientsShrink /\ ChannelsClose
  BY RevokeShrinks DEF HandlerExit, DetachLocked, ClientsShrink, ChannelsClose, linkVars
<1>3. \A s \in Sessions : client'[s] # c
  <2>1. CASE Current(c) /\ ~closed[of[c]]
    <3>1. Revoke({of[c]})
      BY <2>1 DEF HandlerExit, DetachLocked
    <3>2. QED BY <3>1, PtyAssumption DEF Revoke, Base, Inv, Structure, Linked
  <2>2. CASE ~(Current(c) /\ ~closed[of[c]])
    BY <2>2, PtyAssumption
    DEF HandlerExit, Current, Base, TypeOK, Inv, Structure, Linked, linkVars
  <2>3. QED BY <2>1, <2>2
<1>4. CurrentMissesNothing'
  BY <1>1, <1>2, <1>3 DEF Streams, CurrentMissesNothing, ClientsShrink, Base, TypeOK
<1>5. FramesConsecutive'
  BY <1>1, <1>2 DEF Streams, FramesConsecutive, ChannelsClose
<1>6. FramesFed'
  BY <1>1 DEF Streams, FramesFed
<1>7. QED BY <1>4, <1>5, <1>6 DEF Streams

LEMMA AppendFacts ==
  ASSUME NEW q \in Seq(Nat), NEW e \in Nat
  PROVE  /\ Len(q) \in Nat /\ Len(Append(q, e)) = Len(q) + 1
         /\ Append(q, e)[Len(q) + 1] = e
         /\ \A i \in 1..Len(q) : Append(q, e)[i] = q[i]
OBVIOUS

\* A chunk that is appended to an open channel continues it.
LEMMA AppendStreams ==
  ASSUME Base, Streams, NEW s \in Sessions, NEW c \in Clients, client[s] = c,
         UNCHANGED <<of, seen, client, chan>>,
         fed' = [fed EXCEPT ![s] = @ + 1],
         queue' = [queue EXCEPT ![c] = Append(@, fed[s] + 1)]
  PROVE  Streams'
<1> DEFINE q == queue[c]
<1>1. /\ of[c] = s /\ chan[c] = "open"
      /\ q \in Seq(Nat) /\ fed[s] \in Nat /\ seen[c] \in Nat
      /\ seen[c] + Len(q) = fed[s]
  BY PtyAssumption DEF Base, TypeOK, Inv, Structure, Linked, Streams, CurrentMissesNothing
<1>2. /\ \A d \in Clients : d # c => queue'[d] = queue[d]
      /\ queue'[c] = Append(q, fed[s] + 1)
      /\ \A x \in Sessions : fed'[x] = IF x = s THEN fed[s] + 1 ELSE fed[x]
  BY <1>1 DEF Base, TypeOK
<1>3. /\ Len(q) \in Nat /\ Len(queue'[c]) = Len(q) + 1
      /\ queue'[c][Len(q) + 1] = fed[s] + 1
      /\ \A i \in 1..Len(q) : queue'[c][i] = q[i]
  BY <1>1, <1>2, AppendFacts
<1>4. CurrentMissesNothing'
  <2>1. ASSUME NEW x \in Sessions, x # s, client[x] # None
        PROVE  client[x] \in Clients /\ client[x] # c
    BY <1>1, <2>1 DEF Base, TypeOK, Inv, Structure, Linked
  <2>2. seen'[c] + Len(queue'[c]) = fed'[s]
    <3> HIDE DEF q
    <3>1. seen'[c] = seen[c] /\ fed'[s] = fed[s] + 1 /\ Len(queue'[c]) = Len(q) + 1
      BY <1>2, <1>3
    <3>2. /\ seen[c] \in Nat /\ fed[s] \in Nat /\ Len(q) \in Nat
          /\ seen[c] + Len(q) = fed[s]
      BY <1>1, <1>3
    <3>3. seen'[c] + Len(queue'[c]) = seen[c] + (Len(q) + 1)
      BY <3>1
    <3>4. seen[c] + (Len(q) + 1) = fed[s] + 1
      BY <3>2
    <3>5. QED BY <3>1, <3>3, <3>4
  <2>3. QED BY <1>2, <2>1, <2>2 DEF Streams, CurrentMissesNothing
<1>5. FramesConsecutive'
  <2>1. ASSUME NEW i \in 1..Len(queue'[c]) PROVE queue'[c][i] = seen[c] + i
    <3>1. CASE i = Len(q) + 1
      BY <1>1, <1>3, <3>1
    <3>2. CASE i # Len(q) + 1
      <4>1. i \in 1..Len(q)
        BY <1>3, <3>2
      <4>2. q[i] = seen[c] + i
        BY <1>1, <4>1 DEF Streams, FramesConsecutive
      <4>3. QED BY <1>3, <4>1, <4>2
    <3>3. QED BY <3>1, <3>2
  <2>2. QED BY <1>2, <2>1 DEF Streams, FramesConsecutive
<1>6. FramesFed'
  <2>1. \A d \in Clients : \A i \in 1..Len(queue[d]) :
          of[d] \in Sessions /\ queue[d][i] \in Nat /\ fed[of[d]] \in Nat
    BY DEF Base, TypeOK, Inv, Structure, NewBlank
  <2>2. ASSUME NEW d \in Clients, NEW i \in 1..Len(queue'[d])
        PROVE  queue'[d][i] <= fed'[of[d]]
    <3>1. CASE d = c /\ i = Len(q) + 1
      BY <1>1, <1>2, <1>3, <3>1
    <3>2. CASE d # c \/ i # Len(q) + 1
      <4>1. i \in 1..Len(queue[d]) /\ queue'[d][i] = queue[d][i]
        BY <1>2, <1>3, <3>2
      <4>2. queue[d][i] <= fed[of[d]]
        BY <4>1 DEF Streams, FramesFed
      <4>3. QED BY <1>2, <2>1, <4>1, <4>2
    <3>3. QED BY <3>1, <3>2
  <2>3. QED BY <2>2 DEF FramesFed
<1>7. QED BY <1>4, <1>5, <1>6 DEF Streams

\* A chunk that reaches nobody.
LEMMA FeedStreams ==
  ASSUME Base, Streams, NEW s \in Sessions, client'[s] = None, ClientsShrink,
         ChannelsClose, UNCHANGED <<of, seen, queue>>, fed' = [fed EXCEPT ![s] = @ + 1]
  PROVE  Streams'
<1>1. \A x \in Sessions : fed'[x] = IF x = s THEN fed[s] + 1 ELSE fed[x]
  BY DEF Base, TypeOK
<1>2. CurrentMissesNothing'
  BY <1>1 DEF Streams, CurrentMissesNothing, ClientsShrink
<1>3. FramesConsecutive'
  BY DEF Streams, FramesConsecutive, ChannelsClose
<1>4. FramesFed'
  <2>1. ASSUME NEW d \in Clients, NEW i \in 1..Len(queue[d])
        PROVE  queue[d][i] <= fed'[of[d]]
    <3>1. of[d] \in Sessions /\ queue[d][i] \in Nat /\ fed[of[d]] \in Nat
      BY <2>1 DEF Base, TypeOK, Inv, Structure, NewBlank
    <3>2. queue[d][i] <= fed[of[d]]
      BY <2>1 DEF Streams, FramesFed
    <3>3. QED BY <1>1, <3>1, <3>2
  <2>2. QED BY <2>1 DEF FramesFed
<1>5. QED BY <1>2, <1>3, <1>4 DEF Streams

LEMMA BroadcastStreams ==
  ASSUME Base, Streams, NEW s \in Sessions, Broadcast(s)
  PROVE  Streams'
<1>1. /\ UNCHANGED <<of, seen>>
      /\ fed' = [fed EXCEPT ![s] = @ + 1]
  BY DEF Broadcast, socketVars
<1>2. CASE client[s] = None \/ ~active[client[s]]
  <2>1. client[s] = None
    BY <1>2 DEF Base, Inv, Structure, Linked
  <2>2. UNCHANGED <<client, chan, queue>>
    BY <1>2 DEF Broadcast
  <2>3. QED BY <1>1, <2>1, <2>2, FeedStreams DEF ClientsShrink, ChannelsClose
<1>3. CASE /\ client[s] # None /\ active[client[s]]
           /\ Len(queue[client[s]]) < SubBuffer
  <2>1. /\ client[s] \in Clients
        /\ UNCHANGED <<client, chan>>
        /\ queue' = [queue EXCEPT ![client[s]] = Append(@, fed[s] + 1)]
    BY <1>3 DEF Broadcast, Base, TypeOK
  <2>2. QED BY <1>1, <2>1, AppendStreams
<1>4. CASE /\ client[s] # None /\ active[client[s]]
           /\ ~(Len(queue[client[s]]) < SubBuffer)
  <2>1. Revoke({s}) /\ queue' = queue
    BY <1>4 DEF Broadcast, Overflow
  <2>2. client'[s] = None
    BY <2>1 DEF Revoke
  <2>3. QED BY <1>1, <2>1, <2>2, RevokeShrinks, FeedStreams
<1>5. QED BY <1>2, <1>3, <1>4

LEMMA FinishStreams ==
  ASSUME Base, Streams, NEW s \in Sessions, Finish(s)
  PROVE  Streams'
<1>1. UNCHANGED <<of, seen, fed>>
  BY DEF Finish, vtVars, socketVars
<1>2. CASE closed[s]
  BY <1>1, <1>2, StreamsKept
  DEF Finish, ClientsShrink, ChannelsClose, linkVars
<1>3. CASE ~closed[s]
  <2>1. Revoke({s})
    BY <1>3 DEF Finish
  <2>2. \A d \in Clients : queue'[d] = IF d \in Notified(s)
                                         THEN Append(queue[d], ExitNotice)
                                         ELSE queue[d]
    BY <1>3 DEF Finish
  <2>3. ClientsShrink /\ ChannelsClose
    BY <2>1, RevokeShrinks
  <2>4. ASSUME NEW d \in Clients, d \in Notified(s)
        PROVE  /\ d \in Cut({s}) /\ active[d] /\ of[d] = s /\ client[s] = d
               /\ chan[d] = "open" /\ chan'[d] = "closed"
    BY <2>1, <2>4, PtyAssumption
    DEF Notified, Cut, Revoke, Base, Inv, Structure, Linked
  <2>5. CurrentMissesNothing'
    <3>1. ASSUME NEW x \in Sessions, client'[x] # None
          PROVE  /\ client[x] # None /\ client'[x] = client[x]
                 /\ client[x] \in Clients /\ client[x] \notin Notified(s)
      <4>1. x # s /\ client'[x] = client[x] /\ client[x] # None
        BY <2>1, <3>1 DEF Revoke
      <4>2. client[x] \in Clients /\ of[client[x]] = x
        BY <4>1 DEF Base, TypeOK, Inv, Structure, Linked
      <4>3. QED BY <2>4, <4>1, <4>2
    <3>2. QED BY <1>1, <2>2, <3>1 DEF Streams, CurrentMissesNothing
  <2>6. FramesConsecutive' /\ FramesFed'
    <3>1. ASSUME NEW d \in Clients, NEW i \in 1..Len(queue'[d])
          PROVE  /\ \/ queue'[d][i] = seen[d] + i
                    \/ /\ queue'[d][i] = ExitNotice
                       /\ i = Len(queue'[d]) /\ chan'[d] = "closed"
                 /\ queue'[d][i] <= fed[of[d]]
      <4>1. CASE d \notin Notified(s)
        BY <2>2, <2>3, <3>1, <4>1
        DEF Streams, FramesConsecutive, FramesFed, ChannelsClose
      <4>2. CASE d \in Notified(s)
        <5>1. /\ queue[d] \in Seq(Nat) /\ fed[s] \in Nat /\ of[d] = s
              /\ queue'[d] = Append(queue[d], ExitNotice) /\ ExitNotice \in Nat
          BY <2>2, <2>4, <4>2 DEF Base, TypeOK, ExitNotice
        <5>2. /\ Len(queue[d]) \in Nat /\ Len(queue'[d]) = Len(queue[d]) + 1
              /\ queue'[d][Len(queue[d]) + 1] = ExitNotice
              /\ \A j \in 1..Len(queue[d]) : queue'[d][j] = queue[d][j]
          BY <5>1, AppendFacts
        <5>3. CASE i = Len(queue'[d])
          BY <2>4, <4>2, <5>1, <5>2, <5>3 DEF ExitNotice
        <5>4. CASE i # Len(queue'[d])
          <6>1. i \in 1..Len(queue[d]) /\ queue'[d][i] = queue[d][i]
            BY <5>2, <5>4
          <6>2. queue[d][i] = seen[d] + i
            BY <2>4, <4>2, <6>1 DEF Streams, FramesConsecutive
          <6>3. queue[d][i] <= fed[of[d]]
            BY <6>1 DEF Streams, FramesFed
          <6>4. QED BY <6>1, <6>2, <6>3
        <5>5. QED BY <5>3, <5>4
      <4>3. QED BY <4>1, <4>2
    <3>2. QED BY <1>1, <3>1 DEF FramesConsecutive, FramesFed
  <2>7. QED BY <2>5, <2>6 DEF Streams
<1>4. QED BY <1>2, <1>3

LEMMA NextStreams == Base /\ Streams /\ [Next]_vars => Streams'
<1> SUFFICES ASSUME Base, Streams, [Next]_vars PROVE Streams'
  OBVIOUS
<1>1. ASSUME NEW c \in Clients, NEW k \in Keys,
             Reattach(c, k) \/ \E s \in Sessions : AttachNew(c, k, s)
      PROVE  Streams'
  BY <1>1, AttachCases, RegisterStreams, StreamsKept
<1>2. ASSUME NEW c \in Clients, Drive(c) PROVE Streams'
  BY <1>2, StreamsKept
  DEF Drive, ClientsShrink, ChannelsClose, linkVars, clientVars, socketVars, vtVars
<1>3. QED
  BY <1>1, <1>2, StepCases, DeliverStreams, HandlerExitStreams, BroadcastStreams,
     FinishStreams, StreamsKept
  DEF Base

LEMMA InitStreams == Init => Streams
BY PtyAssumption DEF Init, Streams, CurrentMissesNothing, FramesConsecutive, FramesFed

LEMMA AlwaysStreams == Spec => [](Base /\ Streams)
<1>1. Spec => []Base
  BY TypeCorrect, Invariance, PTL DEF Base
<1>2. QED BY <1>1, InitStreams, NextStreams, PTL DEF Spec

\* A browser that is attached has shown, or is about to be sent, every chunk the
\* emulator was fed: the replay and the live frames meet without a gap.
THEOREM NothingMissed == Spec => []CurrentMissesNothing
<1>1. Streams => CurrentMissesNothing
  BY DEF Streams
<1>2. QED BY <1>1, AlwaysStreams, PTL

\* The frames of every attachment, revoked ones too, are consecutive.
THEOREM NothingReordered == Spec => []FramesConsecutive
<1>1. Streams => FramesConsecutive
  BY DEF Streams
<1>2. QED BY <1>1, AlwaysStreams, PTL

-----------------------------------------------------------------------------
(* The session manager implements ScreenStream.                             *)

LEMMA InitRefines == Init => Stream!Init
BY DEF Init, Stream!Init

LEMMA StepRefines ==
  ASSUME Base, Streams, [Next]_vars
  PROVE  [Stream!Next]_Stream!vars
<1>1. ASSUME NEW c \in Clients, NEW s \in Sessions, Register(c, s), of[c] = None,
             fed' = fed
      PROVE  Stream!Join(c, s)
  BY <1>1 DEF Register, Snapshot, Stream!Join
<1>2. ASSUME NEW c \in Clients, Deliver(c) PROVE Stream!Show(c) \/ UNCHANGED Stream!vars
  <2>1. /\ queue[c] \in Seq(Nat) /\ queue[c] # << >> /\ UNCHANGED <<of, fed>>
        /\ seen' = [seen EXCEPT ![c] = IF Head(queue[c]) = ExitNotice
                                         THEN seen[c] ELSE Head(queue[c])]
        /\ seen \in [Clients -> Nat]
    BY <1>2 DEF Deliver, Base, TypeOK, vtVars
  <2>2. Head(queue[c]) = queue[c][1] /\ 1 \in 1..Len(queue[c])
    BY <2>1
  <2>3. CASE Head(queue[c]) = ExitNotice
    BY <2>1, <2>3 DEF Stream!vars
  <2>4. CASE Head(queue[c]) # ExitNotice
    <3>1. Head(queue[c]) = seen[c] + 1
      BY <2>2, <2>4 DEF Streams, FramesConsecutive
    <3>2. of[c] # None /\ of[c] \in Sessions
      BY <2>1 DEF Base, TypeOK, Inv, Structure, NewBlank
    <3>3. seen[c] + 1 <= fed[of[c]]
      BY <2>2, <3>1 DEF Streams, FramesFed
    <3>4. fed[of[c]] \in Nat /\ seen[c] \in Nat
      BY <3>2 DEF Base, TypeOK
    <3>5. seen' = [seen EXCEPT ![c] = @ + 1]
      BY <2>1, <2>4, <3>1
    <3>6. seen[c] < fed[of[c]]
      BY <3>3, <3>4
    <3>7. QED BY <2>1, <3>2, <3>5, <3>6 DEF Stream!Show
  <2>5. QED BY <2>3, <2>4
<1>3. ASSUME NEW s \in Sessions, Broadcast(s) PROVE Stream!Emit(s)
  BY <1>3 DEF Broadcast, Stream!Emit, socketVars
<1>4. ASSUME NEW c \in Clients, Drive(c) \/ HandlerExit(c) PROVE UNCHANGED Stream!vars
  BY <1>4 DEF Drive, HandlerExit, clientVars, socketVars, vtVars, Stream!vars
<1>5. ASSUME NEW s \in Sessions, Finish(s) PROVE UNCHANGED Stream!vars
  BY <1>5 DEF Finish, socketVars, vtVars, Stream!vars
<1>6. ASSUME NEW c \in Clients, NEW k \in Keys,
             Reattach(c, k) \/ \E s \in Sessions : AttachNew(c, k, s)
      PROVE  (\E s \in Sessions : Stream!Join(c, s)) \/ UNCHANGED Stream!vars
  BY <1>1, <1>6, AttachCases DEF Stream!vars
<1>7. QED
  BY <1>2, <1>3, <1>4, <1>5, <1>6, StepCases DEF Stream!Next, Stream!vars, Base

\* Every browser is shown a complete replay and then the shell's output chunk by
\* chunk, whatever the channel capacity and however often it is taken over.
THEOREM ImplementsScreenStream == Spec => ScreenIsExact
<1>1. Spec => Stream!Spec
  BY InitRefines, StepRefines, AlwaysStreams, PTL DEF Spec, Stream!Spec
<1>2. QED BY <1>1 DEF ScreenIsExact
=============================================================================
