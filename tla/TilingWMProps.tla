---------------------------- MODULE TilingWMProps ----------------------------
(* What the tiling window manager must keep, whatever sequence of events it gets. *)
EXTENDS TilingWM

Steps == [dir : {"horizontal", "vertical"}, half : {1, 2}]
Tile == [id : Pane, type : Types \cup {"none"}, path : Seq(Steps)]

\* Two paths part at a split, the first into its first half.
LeftOf(p, q) ==
  \E d \in DOMAIN p \cap DOMAIN q :
    SameTo(p, q, d - 1) /\ p[d].dir = q[d].dir /\ p[d].half = 1 /\ q[d].half = 2

\* q goes through the other half of the split of depth d on the way p.
Beside(p, q, d) == SameTo(p, q, d - 1) /\ d \in DOMAIN q /\ q[d].half # p[d].half

\* The leaves are those of a binary tree, in rendering order, and on the way to
\* a leaf no split has an empty half.
Tree(n) ==
  /\ \A i, j \in DOMAIN n : i < j => LeftOf(n[i].path, n[j].path)
  /\ \A i \in DOMAIN n : \A d \in DOMAIN n[i].path :
       \E j \in DOMAIN n : Beside(n[i].path, n[j].path, d)

Distinct(n) == \A i, j \in DOMAIN n : n[i].id = n[j].id => i = j

Layouts == {n \in Seq(Tile) : Distinct(n) /\ Tree(n)}

(* Every layout is empty or a binary tree of distinct tiles without empty splits. *)
TypeOK ==
  /\ spaces \in Seq([name : {"user", "focus"}, layout : Layouts, fonts : SUBSET Pane])
  /\ active \in Nat \ {0} /\ focused \in Pane \cup {NoPane}
  /\ mode \in [pane : Pane \cup {NoPane}, source : Nat, snapshot : Layouts]

(* There is always a space; the focus space is the first one; and while focus *)
(* mode is on its tile is in the visible focus space and its source is counted *)
(* behind that one.                                                            *)
SpaceListSound ==
  /\ spaces # <<>>
  /\ \A i \in DOMAIN spaces : IsFocusSpace(spaces[i]) => i = 1
  /\ mode # NotFocusing =>
       /\ active = 1 /\ IsFocusSpace(spaces[1]) /\ mode.pane \in Panes(spaces[1].layout)
       /\ mode.source > 1

\* The rectangles of a layout stay in the viewport and do not overlap.
NoOverlap(n) ==
  LET tiling == ComputeTiling(n)
      r == [i \in DOMAIN n |-> tiling[i].box]
  IN  \A a \in DOMAIN r :
        /\ r[a].x >= 0 /\ r[a].x + r[a].w <= ViewW /\ r[a].y >= 0 /\ r[a].y + r[a].h <= ViewH
        /\ \A b \in DOMAIN r : a < b =>
             \/ r[a].x + r[a].w <= r[b].x \/ r[b].x + r[b].w <= r[a].x
             \/ r[a].y + r[a].h <= r[b].y \/ r[b].y + r[b].h <= r[a].y

\* Moves of the focus in the four directions lead from any tile to any other:
\* no proper part of the tiles is closed under them.
AllReachable(n) ==
  LET r == ComputeTiling(n)
  IN  \A part \in (SUBSET Panes(n)) \ {{}, Panes(n)} :
        \E p \in part, d \in MoveDirs : FindNeighbor(r, p, d) \notin part \cup {NoPane}

(* After any sequence of splits, closes, drops and moves the rectangles of a *)
(* layout, hidden spaces included, stay in the viewport and do not overlap.  *)
TilingDisjoint == \A i \in DOMAIN spaces : NoOverlap(spaces[i].layout)

(* The focus-left, -right, -up and -down keys lead from any visible tile to *)
(* any other one (findNeighborRect leaves no tile out of reach).            *)
KeysReachEveryTile == AllReachable(LayoutOf(Current))

(* When a handler and its effects are done, the focused tile is a visible one. *)
FocusedIsVisible == Visible # {} => focused \in Visible

-----------------------------------------------------------------------------
\* The header counts a focus space that a reload has left behind twice.
HeaderCountsTwice ==
  /\ mode = NotFocusing /\ IsFocusSpace(spaces[1])
  /\ \E to \in DOMAIN spaces : HeaderMoveTile(to)

(* The visible space is one of the list, through every way that spaces come  *)
(* and go, until the header moves a tile beside a focus space that a reload  *)
(* left behind: that one step can leave the list, and nothing brings the     *)
(* index back.  atoms.ts:118-121 says that the index is "clamped to valid    *)
(* range whenever spacesAtom changes", but no code clamps it.                *)
IndexStaysInList ==
  [][(active \in DOMAIN spaces /\ ~HeaderCountsTwice) => active' \in DOMAIN spaces']_vars

Ordinary == mode = NotFocusing /\ ~IsFocusSpace(spaces[1])
HasFont(sp, p) == \E i \in DOMAIN sp : p \in sp[i].fonts \cap Panes(sp[i].layout)

(* Outside focus mode a step removes only the tile it closes or the tiles of *)
(* the space it deletes, shows no tile in two places, and changes the type   *)
(* of no tile that has one: splits, drops, swaps, moves between spaces and   *)
(* entering focus mode keep every tile and what runs in it.                  *)
OrdinaryStepsKeepTiles ==
  [][Ordinary /\ Unique =>
       /\ \A p \in SpacePanes(spaces) \ SpacePanes(spaces') :
            CloseTile(p) \/ \E i \in DOMAIN spaces : p \in Panes(spaces[i].layout) /\ DeleteSpace(i)
       /\ Unique'
       /\ \A s \in AllTiles(spaces), t \in AllTiles(spaces') :
            s.id = t.id /\ s.type \in Types => t.type = s.type]_vars

(* A tile that is moved, swapped, split or left alone keeps its stored font, *)
(* as setTileFontSize's comment promises ("persisted with the space"); only  *)
(* focus mode, whose space takes no pane data along, is excepted.            *)
FontFollowsTile ==
  [][Ordinary /\ Unique /\ Ordinary' =>
       \A p \in SpacePanes(spaces') : HasFont(spaces, p) => HasFont(spaces', p)]_vars

(* Leaving focus mode without closing, deleting or reloading, when there is  *)
(* a space at the source index, puts the snapshot back in that space and     *)
(* removes the focus space, by every route: the toggle, a space button or    *)
(* key, a new space, a move.                                                 *)
FocusExitRestores ==
  [][/\ mode # NotFocusing /\ mode' = NotFocusing
     /\ mode.source \in DOMAIN spaces
     /\ ~CloseTile(mode.pane)
     /\ ~\E ids \in SUBSET Untyped : Reload(ids)
     /\ ~\E i \in DOMAIN spaces : DeleteSpace(i)
     => /\ spaces'[mode.source - 1].layout = mode.snapshot
        /\ ~IsFocusSpace(spaces'[1])]_vars

=============================================================================
