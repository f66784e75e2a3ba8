------------------------------ MODULE TilingWM ------------------------------
(***************************************************************************)
(* The tiling window manager of the browser: the spaces, the visible one,  *)
(* the focused tile and focus mode, and every handler that changes them    *)
(* (wm/TilingWM.tsx, wm/atoms.ts, routes/AppShell.tsx and the tile openers *)
(* of lib/actionResolver.ts).  An action is one event handler followed by  *)
(* the React effects that the change triggers, run until nothing changes   *)
(* (Settle).  Indices count from 1 where the code counts from 0.           *)
(*                                                                         *)
(* Abstractions: of a pane's data only whether a font size is stored; of   *)
(* tile types those of Types and "none", which also stands for the empty   *)
(* string a move puts in place of a missing type.  A drag or a swap is its *)
(* last step, for a tile that may have been grabbed at any earlier time.   *)
(* Bounds: the ids in use at a time come from Pane (an id nothing refers to*)
(* any more stands for a fresh one), AddSpace stops at MaxSpaces, and a    *)
(* behaviour is not followed beyond a state that shows a tile twice.       *)
(***************************************************************************)
EXTENDS Layout

CONSTANTS Pane, Types, MaxSpaces
ASSUME BoundsAssumption == Pane # {} /\ NoPane \notin Pane /\ MaxSpaces \in Nat \ {0}
ASSUME TypesAssumption == "term" \in Types /\ "none" \notin Types

VARIABLES
  spaces,   \* the list of spaces: name, layout, and the panes with a stored font
  active,   \* the index of the visible space
  focused,  \* the focused tile, NoPane for none
  mode      \* focus mode: its tile, source space and layout snapshot

vars == <<spaces, active, focused, mode>>

Space(name, layout) == [name |-> name, layout |-> layout, fonts |-> {}]
NotFocusing == [pane |-> NoPane, source |-> 0, snapshot |-> NoLayout]
IsFocusSpace(s) == s.name = "focus"
SpacePanes(sp) == UNION {Panes(sp[i].layout) : i \in DOMAIN sp}

\* The state a handler works on, as one record.
Current == [spaces |-> spaces, active |-> active, focused |-> focused, mode |-> mode]

\* layoutAtom: the layout of the active space, null when the index is out of range.
LayoutOf(w) == IF w.active \in DOMAIN w.spaces THEN w.spaces[w.active].layout ELSE NoLayout
SetLayout(w, n) ==
  IF w.active \in DOMAIN w.spaces THEN [w EXCEPT !.spaces[w.active].layout = n] ELSE w
AddFont(w, i, p) ==
  IF i \in DOMAIN w.spaces THEN [w EXCEPT !.spaces[i].fonts = @ \cup {p}] ELSE w

-----------------------------------------------------------------------------
(* Effects *)
CleanStalePaneData(s) == [s EXCEPT !.fonts = @ \cap Panes(s.layout)]

\* Mutant: the index of the visible space still counts the focus space.
LeaveUncounted(w) ==
  LET rest == Tail(w.spaces)
      back == IF w.mode.source - 1 \in DOMAIN rest
              THEN [rest EXCEPT ![w.mode.source - 1].layout = w.mode.snapshot] ELSE rest
  IN  [w EXCEPT !.spaces = back, !.focused = w.mode.pane, !.mode = NotFocusing]

\* A change of the active space while focus mode is on ends it: the focus space
\* goes and the snapshot is put back at the source index.
LeaveFocusMode(w) ==
  LET rest == Tail(w.spaces)
      back == IF w.mode.source - 1 \in DOMAIN rest
              THEN [rest EXCEPT ![w.mode.source - 1].layout = w.mode.snapshot] ELSE rest
      last == IF w.active - 1 <= Len(back) THEN w.active - 1 ELSE Len(back)
  IN  [spaces |-> back, active |-> IF last < 1 THEN 1 ELSE last,
       focused |-> w.mode.pane, mode |-> NotFocusing]

\* Mutant: nobody looks after the focus when the visible tiles change.
EffectsKeepFocus(w, prev) ==
  LET clean == [w EXCEPT !.spaces = [i \in DOMAIN @ |-> CleanStalePaneData(@[i])]]
  IN  IF w.mode.pane # NoPane /\ w.active # 1 /\ prev = 1 THEN LeaveFocusMode(clean) ELSE clean

\* Mutant: nobody ends focus mode when another space is shown.
EffectsKeepMode(w, prev) ==
  LET n == LayoutOf(w)
  IN  [w EXCEPT !.spaces = [i \in DOMAIN @ |-> CleanStalePaneData(@[i])],
                !.focused = IF n # NoLayout /\ @ \notin Panes(n) THEN Head(n).id ELSE @]

\* One pass over the effects after a render that showed space prev before.
Effects(w, prev) ==
  LET n == LayoutOf(w)
      clean == [w EXCEPT !.spaces = [i \in DOMAIN @ |-> CleanStalePaneData(@[i])],
                         !.focused = IF n # NoLayout /\ @ \notin Panes(n) THEN Head(n).id ELSE @]
  IN  IF w.mode.pane # NoPane /\ w.active # 1 /\ prev = 1 THEN LeaveFocusMode(clean) ELSE clean

\* The effects run again when they moved the user to another space.
Settle(w, prev) ==
  LET v == Effects(w, prev) IN IF v.active = w.active THEN v ELSE Effects(v, w.active)

Unique ==
  \A i, j \in DOMAIN spaces : i < j => Panes(spaces[i].layout) \cap Panes(spaces[j].layout) = {}

Become(w) ==
  LET s == Settle(w, active)
  IN  /\ Unique
      /\ spaces' = s.spaces /\ active' = s.active
      /\ focused' = s.focused /\ mode' = s.mode

-----------------------------------------------------------------------------
(* Tiles *)
Unused == Pane \ (SpacePanes(spaces) \cup Panes(mode.snapshot) \cup {focused})
Visible == Panes(LayoutOf(Current))

\* Split button or key; on an empty space also the button that opens a first tile.
SplitTile(new, dir, side) ==
  LET next == SplitAndFocus(LayoutOf(Current), focused, dir, side, Leaf(new, "none"))
  IN  new \in Unused /\ Become([SetLayout(Current, next) EXCEPT !.focused = new])

\* The longer side of the focused tile decides where a new tile goes.
ResolveSplit(w) ==
  LET self == FindLeaf(ComputeTiling(LayoutOf(w)), w.focused).box
  IN  IF w.focused \in Panes(LayoutOf(w)) /\ self.w < self.h THEN "vertical" ELSE "horizontal"

\* A notification or a tile asks for a tile of a type.  A tile that asks names
\* itself and takes the focus first; a notification leaves the focus alone.
OpenTile(new, source, type) ==
  /\ new \in Unused
  /\ LET w == [Current EXCEPT !.focused = source]
         next == SetLayout(w, SplitAndFocus(LayoutOf(w), source, ResolveSplit(w), "after",
                                            Leaf(new, type)))
         typed == IF type = "term" THEN AddFont(next, active, new) ELSE next
     IN  Become(IF active \in DOMAIN spaces THEN [typed EXCEPT !.focused = new] ELSE w)

\* The type picker of an untyped tile.
PickType(p, type) ==
  /\ p \in Visible /\ FindLeaf(LayoutOf(Current), p).type = "none"
  /\ LET w == SetLayout(Current, SetLeafType(LayoutOf(Current), {p}, type))
     IN  Become(IF type = "term" THEN AddFont(w, active, p) ELSE w)

SetTileFontSize(p) ==
  /\ p \in Visible /\ FindLeaf(LayoutOf(Current), p).type = "term"
  /\ LET owner == CHOOSE i \in DOMAIN spaces :
                    p \in Panes(spaces[i].layout)
                    /\ \A k \in 1 .. i - 1 : p \notin Panes(spaces[k].layout)
     IN  Become(AddFont(Current, owner, p))

\* Closing the tile of focus mode restores its source space without it.  Any
\* other close works on the visible space, also for a tile of another space.
CloseFocusTile(w) ==
  LET rest == Tail(w.spaces)
      src == IF w.mode.source - 1 <= Len(rest) THEN w.mode.source - 1 ELSE Len(rest)
      layout == CloseAt(w.mode.snapshot, w.mode.pane)
  IN  [spaces |-> IF rest = <<>> THEN <<Space("user", layout)>>
                  ELSE [rest EXCEPT ![src].layout = layout],
       active |-> IF src < 1 THEN 1 ELSE src,
       focused |-> FocusAfterClose(w.mode.snapshot, w.mode.pane), mode |-> NotFocusing]

CloseTile(p) ==
  /\ IF mode.pane = p THEN Become(CloseFocusTile(Current))
     ELSE /\ LayoutOf(Current) # NoLayout
          /\ Become([SetLayout(Current, CloseAt(LayoutOf(Current), p))
                       EXCEPT !.focused = FocusAfterClose(LayoutOf(Current), p)])

\* The end of a drag or of swap mode.  The source may be gone by now: a drag
\* then has no target, a swap still takes the focus (FocusPane).
Drop(source, target, zone) ==
  /\ {source, target} \subseteq Visible /\ target # source
  /\ LET n == LayoutOf(Current)
     IN  Become([SetLayout(Current, IF zone = "swap" THEN SwapLeaves(n, source, target)
                                    ELSE MoveLeafAdjacent(n, source, target, zone))
                   EXCEPT !.focused = source])

-----------------------------------------------------------------------------
(* Focus *)
\* A click, a message of a tile of any space, or a swap whose source is gone.
FocusPane(p) ==
  (Visible # {} \/ p \in SpacePanes(spaces)) /\ Become([Current EXCEPT !.focused = p])

FocusOffset(offset) ==
  /\ Become([Current EXCEPT !.focused = FocusByOffset(LayoutOf(Current), focused, offset)])

FocusDirection(dir) ==
  LET next == FindNeighbor(ComputeTiling(LayoutOf(Current)), focused, dir)
  IN  next # NoPane /\ Become([Current EXCEPT !.focused = next])

-----------------------------------------------------------------------------
(* Spaces *)
\* Mutant: the pane data stays behind.
MoveLeafWithoutData(sp, p, from, to) ==
  IF from = to \/ {from, to} \ DOMAIN sp # {} THEN sp
  ELSE IF p \notin Panes(sp[from].layout) THEN sp
  ELSE [sp EXCEPT ![from].layout = CloseAt(@, p),
                  ![to].layout = Adopt(@, FindLeaf(sp[from].layout, p))]

MoveLeafBetweenSpaces(sp, p, from, to) ==
  IF from = to \/ {from, to} \ DOMAIN sp # {} THEN sp
  ELSE IF p \notin Panes(sp[from].layout) THEN sp
  ELSE LET a == sp[from]
           b == sp[to]
       IN  [sp EXCEPT
              ![from] = [a EXCEPT !.layout = CloseAt(a.layout, p), !.fonts = a.fonts \ {p}],
              ![to] = [b EXCEPT !.layout = Adopt(b.layout, FindLeaf(a.layout, p)),
                                !.fonts = b.fonts \cup (a.fonts \cap {p})]]

UserSpace(i) == i \in DOMAIN spaces /\ ~IsFocusSpace(spaces[i])

\* The dialog of a tile's toolbar.
MoveTileToSpace(p, to) ==
  /\ p \in Visible /\ UserSpace(to) /\ to # active
  /\ Become([Current EXCEPT !.spaces = MoveLeafBetweenSpaces(spaces, p, active, to),
                            !.active = to, !.focused = p])

\* The menu of a space button, for the focused tile.  Its indices already count
\* the focus space, and are shifted by one more when there is one.
HeaderMoveTile(to) ==
  LET shift == IF IsFocusSpace(spaces[1]) THEN 1 ELSE 0
      moved == MoveLeafBetweenSpaces(spaces, focused, active + shift, to + shift)
  IN  /\ focused # NoPane /\ UserSpace(to) /\ to # active /\ spaces[to].layout # NoLayout
      /\ Become([Current EXCEPT !.spaces = moved, !.active = to + shift])

\* A space button, Ctrl+digit or Ctrl+Tab.
SelectSpace(i) ==
  /\ i \in DOMAIN spaces
  /\ Become([Current EXCEPT !.active = i, !.focused = NoPane])

AddSpace(new) ==
  /\ Len(spaces) < MaxSpaces /\ new \in Unused
  /\ Become([Current EXCEPT !.spaces = Append(@, Space("user", Alone(Leaf(new, "none")))),
                            !.active = Len(spaces) + 1, !.focused = NoPane])

DeleteSpace(i) ==
  /\ Len(spaces) > 1 /\ UserSpace(i)
  /\ Become([Current EXCEPT !.spaces = RemoveAt(@, i),
                            !.active = IF i < Len(spaces) THEN i ELSE Len(spaces) - 1,
                            !.focused = NoPane])

-----------------------------------------------------------------------------
(* Focus mode *)
\* The tile moves alone into the focus space at the front; the space it leaves
\* is updated one place further back, with a placeholder when it is empty.  (A
\* focus space that is already there is reused, and the place is one too far.)
EnterFocus(p, new) ==
  LET n == LayoutOf(Current)
      rest == CloseAt(n, p)
      kept == IF rest = NoLayout THEN Alone(Leaf(new, "none")) ELSE rest
      sp == IF IsFocusSpace(spaces[1]) THEN spaces ELSE <<Space("focus", NoLayout)>> \o spaces
      shown == [sp EXCEPT ![1].layout = Alone(FindLeaf(n, p))]
      src == active + 1
  IN  /\ mode = NotFocusing /\ p \in Panes(n)
      /\ rest = NoLayout => new \in Unused
      /\ Become([spaces |-> IF src \in DOMAIN shown THEN [shown EXCEPT ![src].layout = kept]
                            ELSE Append(shown, Space("user", kept)),
                 active |-> 1, focused |-> p,
                 mode |-> [pane |-> p, source |-> src, snapshot |-> n]])

\* Mutant: the source index is used as it was before the focus space came.
ExitFocusUnadjusted ==
  /\ mode # NotFocusing
  /\ Become(IF mode.source \notin DOMAIN Tail(spaces) THEN [Current EXCEPT !.mode = NotFocusing]
            ELSE [spaces |-> [Tail(spaces) EXCEPT ![mode.source].layout = mode.snapshot],
                  active |-> mode.source, focused |-> mode.pane, mode |-> NotFocusing])

\* The snapshot still holds the tile, so the branch that inserts it again never runs.
ExitFocus ==
  LET back == [Tail(spaces) EXCEPT ![mode.source - 1].layout = mode.snapshot]
  IN  /\ mode # NotFocusing
      /\ Become(IF mode.source \notin DOMAIN spaces THEN [Current EXCEPT !.mode = NotFocusing]
                ELSE [spaces |-> back, active |-> mode.source - 1,
                      focused |-> mode.pane, mode |-> NotFocusing])

\* A reload keeps what is stored, forgets focus mode, and makes the leaves that
\* have no type a terminal (of the untyped ones those that never moved).
AllTiles(sp) == UNION {ToSet(sp[i].layout) : i \in DOMAIN sp}
Untyped == {t.id : t \in {t \in AllTiles(spaces) : t.type = "none"}}
MigrateLayout(n, ids) == SetLeafType(n, ids, "term")

Reload(ids) ==
  /\ ids \subseteq Untyped
  /\ LET loaded(s) == [s EXCEPT !.layout = MigrateLayout(s.layout, ids)]
     IN  Become([Current EXCEPT !.spaces = [i \in DOMAIN @ |-> loaded(@[i])],
                                !.focused = NoPane, !.mode = NotFocusing])

-----------------------------------------------------------------------------
Init ==
  /\ focused \in Pane
  /\ spaces = <<Space("user", Alone(Leaf(focused, "none")))>>
  /\ active = 1 /\ mode = NotFocusing

TileStep ==
  \/ \E new \in Unused, dir \in {"horizontal", "vertical"}, side \in {"before", "after"} :
       SplitTile(new, dir, side)
  \/ \E new \in Unused, p \in SpacePanes(spaces) \cup {focused}, type \in Types :
       OpenTile(new, p, type)
  \/ \E p \in Visible, type \in Types : PickType(p, type)
  \/ \E p \in Visible : SetTileFontSize(p)
  \/ \E p \in SpacePanes(spaces) : CloseTile(p)
  \/ \E p, q \in Visible, zone \in DropZones : Drop(p, q, zone)

FocusStep ==
  \/ \E p \in Pane : FocusPane(p)
  \/ \E offset \in {-1, 1} : FocusOffset(offset)
  \/ \E dir \in MoveDirs : FocusDirection(dir)

SpaceStep ==
  \/ \E p \in Visible, to \in DOMAIN spaces : MoveTileToSpace(p, to)
  \/ \E to \in DOMAIN spaces : HeaderMoveTile(to)
  \/ \E i \in DOMAIN spaces : SelectSpace(i)
  \/ \E new \in Unused : AddSpace(new)
  \/ \E i \in DOMAIN spaces : DeleteSpace(i)

ModeStep ==
  \/ \E p \in Visible, new \in Unused \cup {NoPane} : EnterFocus(p, new)
  \/ ExitFocus
  \/ \E ids \in SUBSET Untyped : Reload(ids)

Next == TileStep \/ FocusStep \/ SpaceStep \/ ModeStep
Spec == Init /\ [][Next]_vars
=============================================================================
