------------------------------- MODULE Layout -------------------------------
(***************************************************************************)
(* The pure functions of frontend/src/wm/layout.ts on the layout tree of a *)
(* space.  The code makes splits of two children and collapses those that  *)
(* lose one, so the tree is binary, and it is kept here as the sequence of *)
(* its leaves in rendering order: a leaf has its id, its tile type, and    *)
(* its path, the choices of a half on the way from the root.  No update    *)
(* needs to walk the tree then; that the paths are always those of a tree  *)
(* is the invariant Tree.  The size weights that dividers set are left     *)
(* out: a split shares its span equally, and what is said of rectangles    *)
(* and focus keys is said of equal shares only.                            *)
(* initialPath and params move with the type.                              *)
(***************************************************************************)
EXTENDS Integers, Sequences, SequencesExt

CONSTANTS
  ViewW, ViewH,   \* the measured viewport, in px
  NoPane          \* no tile: the empty string of the code

\* computeTiling returns no rectangles for a viewport that is not measured yet.
ASSUME ViewAssumption == ViewW \in Nat \ {0} /\ ViewH \in Nat \ {0}

NoLayout == << >>
Leaf(id, type) == [id |-> id, type |-> type, path |-> << >>]
Alone(leaf) == << [leaf EXCEPT !.path = << >>] >>

MoveDirs == {"left", "right", "up", "down"}
DropZones == {"swap", "top", "bottom", "left", "right"}

-----------------------------------------------------------------------------
\* The ids of the leaves in rendering order, and as a set.
Leaves(n) == [i \in DOMAIN n |-> n[i].id]
Panes(n) == {n[i].id : i \in DOMAIN n}

At(n, id) == CHOOSE i \in DOMAIN n : n[i].id = id
FindLeaf(n, id) == n[At(n, id)]

SetLeafType(n, ids, type) ==
  [i \in DOMAIN n |-> IF n[i].id \in ids THEN [n[i] EXCEPT !.type = type] ELSE n[i]]

\* Two leaves are below the same node of depth d.
SameTo(p, q, d) == d <= Len(p) /\ d <= Len(q) /\ \A k \in 1 .. d : p[k] = q[k]

\* A split takes the place of the target: the target and the peer are its halves.
SplitAt(n, target, dir, side, peer) ==
  IF target \notin Panes(n) THEN n
  ELSE LET i == At(n, target)
           half(leaf, h) == [leaf EXCEPT !.path = Append(n[i].path, [dir |-> dir, half |-> h])]
       IN  IF side = "before"
           THEN InsertAt([n EXCEPT ![i] = half(n[i], 2)], i, half(peer, 1))
           ELSE InsertAt([n EXCEPT ![i] = half(n[i], 1)], i + 1, half(peer, 2))

\* Mutant: a split that loses a child is kept.
CloseOnly(n, id) == IF id \in Panes(n) THEN RemoveAt(n, At(n, id)) ELSE n

\* Removes a leaf; its split collapses, which brings what is in the other half
\* one step nearer to the root.
CloseAt(n, id) ==
  IF id \notin Panes(n) THEN n
  ELSE LET path == FindLeaf(n, id).path
           rest == RemoveAt(n, At(n, id))
       IN  [i \in DOMAIN rest |->
              IF SameTo(path, rest[i].path, Len(path) - 1)
              THEN [rest[i] EXCEPT !.path = RemoveAt(@, Len(path))] ELSE rest[i]]

SplitAndFocus(n, focused, dir, side, peer) ==
  IF n = NoLayout THEN Alone(peer)
  ELSE SplitAt(n, IF focused \in Panes(n) THEN focused ELSE Head(n).id, dir, side, peer)

FocusByOffset(n, current, offset) ==
  CASE n = NoLayout -> NoPane
    [] n # NoLayout /\ current \notin Panes(n) -> Head(n).id
    [] OTHER -> n[((At(n, current) - 1 + offset + Len(n)) % Len(n)) + 1].id

\* The two leaves change places.
SwapLeaves(n, a, b) ==
  IF a = b \/ {a, b} \ Panes(n) # {} THEN n
  ELSE LET at(i, leaf) == [leaf EXCEPT !.path = n[i].path]
       IN  [n EXCEPT ![At(n, a)] = at(At(n, a), FindLeaf(n, b)),
                     ![At(n, b)] = at(At(n, b), FindLeaf(n, a))]

\* The dragged leaf leaves the tree first and is put back beside the target.
MoveLeafAdjacent(n, source, target, zone) ==
  IF source = target \/ {source, target} \ Panes(n) # {} THEN n
  ELSE SplitAt(CloseAt(n, source), target,
               IF zone \in {"top", "bottom"} THEN "vertical" ELSE "horizontal",
               IF zone \in {"top", "left"} THEN "before" ELSE "after",
               FindLeaf(n, source))

\* Mutant: the leaf that was split is taken for the new one.
AdoptOver(n, leaf) ==
  IF n = NoLayout THEN Alone(leaf)
  ELSE LET next == SplitAt(n, Head(n).id, "horizontal", "after", Leaf(NoPane, "none"))
       IN  [next EXCEPT ![1] = [leaf EXCEPT !.path = next[1].path]]

\* How moveLeafBetweenSpaces puts a leaf into another space: the first leaf is
\* split, the first other leaf is taken for the new one and receives the type
\* and the id of the leaf.
Adopt(n, leaf) ==
  IF n = NoLayout THEN Alone(leaf)
  ELSE LET first == Head(n).id
           next  == SplitAt(n, first, "horizontal", "after", Leaf(NoPane, "none"))
           empty == CHOOSE i \in DOMAIN next :
                      next[i].id # first /\ \A k \in 1 .. i - 1 : next[k].id = first
       IN  [next EXCEPT ![empty] = [leaf EXCEPT !.path = next[empty].path]]

-----------------------------------------------------------------------------
(* Geometry: computeTiling and the choice of a neighbour. *)
Gutter == 8   \* between two siblings
Eps == 1      \* rounding tolerance of findNeighborRect

\* Mutant: the second half is as long as if there were no gutter.
WideHalf(r, step) ==
  LET share == ((IF step.dir = "horizontal" THEN r.w ELSE r.h) - Gutter) \div 2
  IN  CASE step.dir = "horizontal" /\ step.half = 1 -> [r EXCEPT !.w = share]
        [] step.dir = "horizontal" /\ step.half = 2 ->
             [r EXCEPT !.x = @ + share + Gutter, !.w = @ - share]
        [] step.dir = "vertical" /\ step.half = 1 -> [r EXCEPT !.h = share]
        [] step.dir = "vertical" /\ step.half = 2 ->
             [r EXCEPT !.y = @ + share + Gutter, !.h = @ - share]

\* One half of a rectangle that a split shares.
Half(r, step) ==
  LET share == ((IF step.dir = "horizontal" THEN r.w ELSE r.h) - Gutter) \div 2
  IN  CASE step.dir = "horizontal" /\ step.half = 1 -> [r EXCEPT !.w = share]
        [] step.dir = "horizontal" /\ step.half = 2 ->
             [r EXCEPT !.x = @ + share + Gutter, !.w = @ - share - Gutter]
        [] step.dir = "vertical" /\ step.half = 1 -> [r EXCEPT !.h = share]
        [] step.dir = "vertical" /\ step.half = 2 ->
             [r EXCEPT !.y = @ + share + Gutter, !.h = @ - share - Gutter]

Viewport == [x |-> 0, y |-> 0, w |-> ViewW, h |-> ViewH]

\* The rectangles on the way from the root to a leaf, the viewport first.
Rects(path) ==
  LET rect[k \in 0 .. Len(path)] ==
        IF k = 0 THEN Viewport ELSE Half(rect[k - 1], path[k])
  IN  rect

Box(path) == Rects(path)[Len(path)]

ComputeTiling(n) == [i \in DOMAIN n |-> [id |-> n[i].id, box |-> Box(n[i].path)]]

\* Mutant: a neighbour has to span the whole side of the pane.
BeyondWholeSide(r, s, d) ==
  LET inRows == r.y <= s.y /\ r.y + r.h >= s.y + s.h
      inCols == r.x <= s.x /\ r.x + r.w >= s.x + s.w
  IN  CASE d = "left"  -> r.x + r.w <= s.x + Eps /\ inRows
        [] d = "right" -> r.x >= s.x + s.w - Eps /\ inRows
        [] d = "up"    -> r.y + r.h <= s.y + Eps /\ inCols
        [] d = "down"  -> r.y >= s.y + s.h - Eps /\ inCols

\* r lies beyond the edge of s in direction d, and overlaps it by more than Eps.
Beyond(r, s, d) ==
  LET inRows == r.y < s.y + s.h - Eps /\ r.y + r.h > s.y + Eps
      inCols == r.x < s.x + s.w - Eps /\ r.x + r.w > s.x + Eps
  IN  CASE d = "left"  -> r.x + r.w <= s.x + Eps /\ inRows
        [] d = "right" -> r.x >= s.x + s.w - Eps /\ inRows
        [] d = "up"    -> r.y + r.h <= s.y + Eps /\ inCols
        [] d = "down"  -> r.y >= s.y + s.h - Eps /\ inCols

Gap(r, s, d) ==
  CASE d = "left" -> s.x - (r.x + r.w) [] d = "right" -> r.x - (s.x + s.w)
    [] d = "up"   -> s.y - (r.y + r.h) [] d = "down"  -> r.y - (s.y + s.h)

\* The nearest neighbour of a pane in a direction, NoPane when there is none;
\* of equally near ones the first in rendering order.
FindNeighbor(rects, id, d) ==
  LET self == FindLeaf(rects, id).box
      near == {i \in DOMAIN rects : rects[i].id # id /\ Beyond(rects[i].box, self, d)}
      gap(i) == Gap(rects[i].box, self, d)
      best == CHOOSE i \in near :
                \A k \in near : gap(i) < gap(k) \/ (gap(i) = gap(k) /\ i <= k)
  IN  IF id \notin Panes(rects) \/ near = {} THEN NoPane ELSE rects[best].id

\* Which tile gets the focus when id is closed: the one above, else the one to
\* the left, else the first that remains.
FocusAfterClose(n, id) ==
  LET rects == ComputeTiling(n)
      rest == CloseAt(n, id)
      up == FindNeighbor(rects, id, "up")
      left == FindNeighbor(rects, id, "left")
  IN  CASE up # NoPane -> up
        [] up = NoPane /\ left # NoPane -> left
        [] OTHER -> IF rest = NoLayout THEN NoPane ELSE Head(rest).id
=============================================================================
