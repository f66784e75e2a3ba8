---------------------------- MODULE ScreenStream ----------------------------
(***************************************************************************)
(* What the session manager promises a browser about the shell's screen:   *)
(* a viewer starts from a replay of everything the shell has printed so    *)
(* far, and from then on is shown the shell's output chunk by chunk, none  *)
(* skipped, none repeated and none out of order.  A viewer may fall behind *)
(* and may stop for good; it then joins again as a new viewer.             *)
(***************************************************************************)
EXTENDS Naturals

CONSTANTS Sessions,     \* shells
          Viewers,      \* browser attachments, one Attach each
          None          \* "no shell"

VARIABLES printed,      \* [Sessions -> Nat], chunks the shell has printed
          shown,        \* [Viewers -> Nat], chunks on the viewer's screen
          watching      \* [Viewers -> Sessions \cup {None}]

vars == <<printed, shown, watching>>

Init == /\ printed = [s \in Sessions |-> 0]
        /\ shown = [v \in Viewers |-> 0]
        /\ watching = [v \in Viewers |-> None]

Emit(s) == /\ printed' = [printed EXCEPT ![s] = @ + 1]
            /\ UNCHANGED <<shown, watching>>

\* The replay is complete: it shows all that was printed before it.
Join(v, s) == /\ watching[v] = None
              /\ watching' = [watching EXCEPT ![v] = s]
              /\ shown' = [shown EXCEPT ![v] = printed[s]]
              /\ UNCHANGED printed

\* Live output extends the screen by exactly the next chunk.
Show(v) == /\ watching[v] # None
           /\ shown[v] < printed[watching[v]]
           /\ shown' = [shown EXCEPT ![v] = @ + 1]
           /\ UNCHANGED <<printed, watching>>

Next == \/ \E s \in Sessions : Emit(s)
        \/ \E v \in Viewers, s \in Sessions : Join(v, s)
        \/ \E v \in Viewers : Show(v)

Spec == Init /\ [][Next]_vars
=============================================================================
