------------------------ MODULE TilingGeometryProofs ------------------------
(***************************************************************************)
(* The rectangles of the tiling window manager, for any viewport and any   *)
(* sequence of events: tiles stay in the viewport and do not overlap, and  *)
(* where no tile is thinner than the tolerance of findNeighborRect allows, *)
(* the four focus keys reach every tile.                                   *)
(*                                                                         *)
(* What computeTiling gives for a path of any length needs induction.  An  *)
(* induction principle speaks of a predicate; here the predicate is a set, *)
(* and the principle is that a set of naturals has a least element.        *)
(***************************************************************************)
EXTENDS TilingWMProofs, FiniteSetTheorems, WellFoundedInduction

-----------------------------------------------------------------------------
(* Induction, without an operator for a parameter.                         *)

\* A set of numbers has a least one.
LEMMA LeastNatural ==
  ASSUME NEW T, T \subseteq Nat, T # {}
  PROVE  \E x \in T : \A y \in T : x <= y
<1> DEFINE R == {ss \in Nat \X Nat : ss[1] < ss[2]}
<1>1. IsWellFoundedOn(R, Nat)
  BY NatLessThanWellFounded DEF OpToRel
<1>2. \A x, y \in Nat : y < x => <<y, x>> \in R
  OBVIOUS
<1>3. \E x \in T : \A y \in T : <<y, x>> \notin R
  BY <1>1, WFMin
<1> HIDE DEF R
<1>4. PICK x \in T : \A y \in T : <<y, x>> \notin R
  BY <1>3
<1>5. ASSUME NEW y \in T PROVE x <= y
  <2>1. x \in Nat /\ y \in Nat /\ ~(y < x)
    BY <1>2, <1>4
  <2>2. QED
    BY <2>1
<1>6. QED
  BY <1>5

\* What holds of 0, and with n of n + 1, holds of every number.
LEMMA SetInduction ==
  ASSUME NEW S, 0 \in S, \A n \in Nat : n \in S => n + 1 \in S
  PROVE  \A n \in Nat : n \in S
<1> SUFFICES ASSUME NEW n \in Nat, n \notin S PROVE FALSE
  OBVIOUS
<1> DEFINE T == Nat \ S
<1>1. PICK x \in T : \A y \in T : x <= y
  BY LeastNatural
<1>2. x # 0 /\ x - 1 \in Nat /\ x - 1 \notin T
  BY <1>1
<1>3. QED
  BY <1>1, <1>2

-----------------------------------------------------------------------------
(* The rectangles on the way to a leaf.                                    *)

\* g has the rectangles down to level k.
Along(path, k, g) ==
  g = [i \in 0 .. k |-> IF i = 0 THEN Viewport ELSE Half(g[i - 1], path[i])]

LEMMA OneMoreRect ==
  ASSUME NEW path, NEW k \in Nat, NEW g, Along(path, k, g)
  PROVE  \E h : Along(path, k + 1, h)
<1> DEFINE h == [i \in 0 .. k + 1 |-> IF i = 0 THEN Viewport ELSE
                   IF i \in 0 .. k THEN g[i] ELSE Half(g[k], path[k + 1])]
<1>1. \A i \in 0 .. k : h[i] = g[i]
  <2>1. 0 \in 0 .. k /\ \A i \in 0 .. k : i \in 0 .. k + 1
    OBVIOUS
  <2>2. g[0] = Viewport
    BY <2>1, Zenon DEF Along
  <2>3. QED
    BY <2>1, <2>2, Zenon
<1>2. ASSUME NEW i \in 0 .. k + 1, i # 0 PROVE h[i] = Half(h[i - 1], path[i])
  <2>1. i - 1 \in 0 .. k /\ h[i - 1] = g[i - 1]
    BY <1>1, <1>2
  <2>2. CASE i \in 0 .. k
    <3>1. h[i] = g[i]
      BY <1>1, <2>2
    <3>2. g[i] = Half(g[i - 1], path[i])
      BY <1>2, <2>2, Zenon DEF Along
    <3>3. QED
      BY <2>1, <3>1, <3>2
  <2>3. CASE i \notin 0 .. k
    <3>1. i = k + 1 /\ i - 1 = k
      BY <2>3
    <3>2. h[i] = Half(g[k], path[k + 1])
      BY <1>2, <2>3
    <3>3. QED
      BY <2>1, <3>1, <3>2
  <2>4. QED
    BY <2>2, <2>3
<1>3. h = [i \in 0 .. k + 1 |-> h[i]]
  OBVIOUS
<1>4. 0 \in 0 .. k + 1 /\ h[0] = Viewport
  OBVIOUS
<1> HIDE DEF h
<1>5. \A i \in 0 .. k + 1 : h[i] = IF i = 0 THEN Viewport ELSE Half(h[i - 1], path[i])
  BY <1>2, <1>4
<1>6. h = [i \in 0 .. k + 1 |-> IF i = 0 THEN Viewport ELSE Half(h[i - 1], path[i])]
  BY <1>3, <1>5, Zenon
<1>7. QED
  BY <1>6 DEF Along

\* The recursive definition of Rects defines a function.
LEMMA RectsDefined ==
  ASSUME NEW path \in Paths
  PROVE  /\ Rects(path)[0] = Viewport
         /\ \A k \in 1 .. Len(path) : Rects(path)[k] = Half(Rects(path)[k - 1], path[k])
<1> DEFINE S == {k \in Nat : \E g : Along(path, k, g)}
<1>1. 0 \in S
  <2> DEFINE g == [i \in 0 .. 0 |-> Viewport]
  <2>1. \A i \in 0 .. 0 : i = 0
    OBVIOUS
  <2>2. g = [i \in 0 .. 0 |-> IF i = 0 THEN Viewport ELSE Half(g[i - 1], path[i])]
    BY <2>1, Zenon
  <2>3. QED
    BY <2>2 DEF Along
<1>2. ASSUME NEW k \in Nat, k \in S PROVE k + 1 \in S
  <2>1. PICK g : Along(path, k, g)
    BY <1>2
  <2>2. k + 1 \in Nat /\ \E h : Along(path, k + 1, h)
    BY <2>1, OneMoreRect
  <2>3. QED
    BY <2>2
<1>3. Len(path) \in S
  <2> HIDE DEF S
  <2>1. Len(path) \in Nat
    BY PathFacts
  <2>2. \A k \in Nat : k \in S => k + 1 \in S
    BY <1>2
  <2>3. \A k \in Nat : k \in S
    BY <1>1, <2>2, SetInduction
  <2>4. QED
    BY <2>1, <2>3
<1>4. Rects(path) = CHOOSE g : Along(path, Len(path), g)
  BY DEF Rects, Along
<1>5. Along(path, Len(path), Rects(path))
  BY <1>3, <1>4
<1>6. Len(path) \in Nat
  BY PathFacts
<1>7. 0 \in 0 .. Len(path) /\ \A k \in 1 .. Len(path) : k \in 0 .. Len(path) /\ k # 0
  BY <1>6
<1>8. QED
  BY <1>5, <1>7, Zenon DEF Along

-----------------------------------------------------------------------------
(* One split, along either axis.                                           *)

Axes == {"horizontal", "vertical"}
Lo(r, axis) == IF axis = "horizontal" THEN r.x ELSE r.y
Span(r, axis) == IF axis = "horizontal" THEN r.w ELSE r.h
Share(r, axis) == (Span(r, axis) - Gutter) \div 2

\* No rectangle is thinner than what halving a line leaves of it.
Sane(r) == r \in Rect /\ \A axis \in Axes : Span(r, axis) >= -Gutter

\* r lies in s, both perhaps of negative width.
Within(r, s) ==
  \A axis \in Axes : /\ Lo(s, axis) <= Lo(r, axis)
                     /\ Lo(r, axis) + Span(r, axis) <= Lo(s, axis) + Span(s, axis)

LEMMA Numbers ==
  ASSUME NEW r \in Rect, NEW axis \in Axes
  PROVE  Lo(r, axis) \in Int /\ Span(r, axis) \in Int
  BY DEF Rect, Lo, Span

LEMMA Halving ==
  ASSUME NEW span \in Int, span >= -Gutter
  PROVE  LET share == (span - Gutter) \div 2
         IN  /\ share \in Int /\ -Gutter <= share /\ share <= span
             /\ span - share - Gutter \in Int /\ -Gutter <= span - share - Gutter
  BY DEF Gutter

LEMMA AxisOfStep ==
  ASSUME NEW step \in Steps
  PROVE  step.dir \in Axes /\ step.half \in {1, 2}
  BY DEF Steps, Axes

\* The shorter side of the split is shared and the other one stays.
LEMMA HalfIs ==
  ASSUME NEW r, Sane(r), NEW step \in Steps
  PROVE  LET q == Half(r, step)
             share == Share(r, step.dir)
         IN  /\ Sane(q) /\ Within(q, r)
             /\ \A axis \in Axes \ {step.dir} :
                  Lo(q, axis) = Lo(r, axis) /\ Span(q, axis) = Span(r, axis)
             /\ step.half = 1 => /\ Lo(q, step.dir) = Lo(r, step.dir)
                                 /\ Span(q, step.dir) = share
             /\ step.half = 2 => /\ Lo(q, step.dir) = Lo(r, step.dir) + share + Gutter
                                 /\ Span(q, step.dir) = Span(r, step.dir) - share - Gutter
<1> DEFINE q == Half(r, step)
           share == Share(r, step.dir)
           rest == Span(r, step.dir) - share - Gutter
           next == Lo(r, step.dir) + share + Gutter
<1>1. step.dir \in Axes /\ step.half \in {1, 2} /\ r \in Rect
  BY AxisOfStep DEF Sane
<1>2. /\ Lo(r, step.dir) \in Int /\ Span(r, step.dir) \in Int
      /\ Span(r, step.dir) >= -Gutter
  BY <1>1, Numbers DEF Sane
<1>3. /\ share \in Int /\ -Gutter <= share /\ share <= Span(r, step.dir)
      /\ rest \in Int /\ -Gutter <= rest
  BY <1>2, Halving DEF Share
<1>4. next \in Int
  BY <1>2, <1>3 DEF Gutter
<1>5. r.x \in Int /\ r.y \in Int /\ r.w \in Int /\ r.h \in Int
  BY <1>1 DEF Rect
<1> HIDE DEF share, rest, next
<1>6. /\ q \in Rect
      /\ \A axis \in Axes \ {step.dir} :
           Lo(q, axis) = Lo(r, axis) /\ Span(q, axis) = Span(r, axis)
      /\ step.half = 1 => Lo(q, step.dir) = Lo(r, step.dir) /\ Span(q, step.dir) = share
      /\ step.half = 2 => Lo(q, step.dir) = next /\ Span(q, step.dir) = rest
  <2>1. CASE step.dir = "horizontal" /\ step.half = 1
    <3>1. q = [r EXCEPT !.w = share]
      BY <2>1 DEF Half, share, Share, Span
    <3>2. q \in Rect /\ q.x = r.x /\ q.y = r.y /\ q.w = share /\ q.h = r.h
      BY <1>1, <1>3, <3>1 DEF Rect
    <3>3. QED
      BY <2>1, <3>2 DEF Lo, Span, Axes
  <2>2. CASE step.dir = "horizontal" /\ step.half = 2
    <3>1. q = [r EXCEPT !.x = next, !.w = rest]
      BY <2>2 DEF Half, share, rest, next, Share, Span, Lo
    <3>2. q \in Rect /\ q.x = next /\ q.y = r.y /\ q.w = rest /\ q.h = r.h
      BY <1>1, <1>3, <1>4, <3>1 DEF Rect
    <3>3. QED
      BY <2>2, <3>2 DEF Lo, Span, Axes
  <2>3. CASE step.dir = "vertical" /\ step.half = 1
    <3>1. q = [r EXCEPT !.h = share]
      BY <2>3 DEF Half, share, Share, Span
    <3>2. q \in Rect /\ q.x = r.x /\ q.y = r.y /\ q.w = r.w /\ q.h = share
      BY <1>1, <1>3, <3>1 DEF Rect
    <3>3. QED
      BY <2>3, <3>2 DEF Lo, Span, Axes
  <2>4. CASE step.dir = "vertical" /\ step.half = 2
    <3>1. q = [r EXCEPT !.y = next, !.h = rest]
      BY <2>4 DEF Half, share, rest, next, Share, Span, Lo
    <3>2. q \in Rect /\ q.x = r.x /\ q.y = next /\ q.w = r.w /\ q.h = rest
      BY <1>1, <1>3, <1>4, <3>1 DEF Rect
    <3>3. QED
      BY <2>4, <3>2 DEF Lo, Span, Axes
  <2>5. QED
    BY <1>1, <2>1, <2>2, <2>3, <2>4 DEF Axes
<1> HIDE DEF q
<1>7. \A axis \in Axes \ {step.dir} :
        /\ Lo(q, axis) \in Int /\ Span(q, axis) \in Int /\ Span(q, axis) >= -Gutter
        /\ Lo(r, axis) <= Lo(q, axis)
        /\ Lo(q, axis) + Span(q, axis) <= Lo(r, axis) + Span(r, axis)
  <2>1. \A axis \in Axes : Lo(r, axis) \in Int /\ Span(r, axis) \in Int /\ Span(r, axis) >= -Gutter
    BY <1>1, Numbers DEF Sane
  <2>2. QED
    BY <1>6, <2>1
<1>8. /\ Span(q, step.dir) >= -Gutter
      /\ Lo(r, step.dir) <= Lo(q, step.dir)
      /\ Lo(q, step.dir) + Span(q, step.dir) <= Lo(r, step.dir) + Span(r, step.dir)
  <2>1. CASE step.half = 1
    BY <1>2, <1>3, <1>6, <2>1
  <2>2. CASE step.half = 2
    <3>1. Lo(q, step.dir) = next /\ Span(q, step.dir) = rest
      BY <1>6, <2>2
    <3>2. /\ next = Lo(r, step.dir) + share + Gutter
          /\ rest = Span(r, step.dir) - share - Gutter
      BY DEF next, rest
    <3>3. QED
      BY <1>2, <1>3, <3>1, <3>2 DEF Gutter
  <2>3. QED
    BY <1>1, <2>1, <2>2
<1>9. Sane(q) /\ Within(q, r)
  BY <1>6, <1>7, <1>8 DEF Sane, Within
<1>10. QED
  BY <1>6, <1>9 DEF q, share, rest, next

-----------------------------------------------------------------------------
(* All splits on the way to a leaf.                                        *)

LEMMA ViewIsSane == Sane(Viewport) /\ Viewport.x = 0 /\ Viewport.y = 0
  BY ViewAssumption DEF Viewport, Sane, Rect, Span, Axes, Gutter

LEMMA RectsAreSane ==
  ASSUME NEW path \in Paths
  PROVE  \A k \in 0 .. Len(path) : Sane(Rects(path)[k])
<1> DEFINE S == {k \in Nat : k <= Len(path) => Sane(Rects(path)[k])}
<1>0. Len(path) \in Nat /\ \A k \in 1 .. Len(path) : path[k] \in Steps
  BY PathFacts
<1>1. 0 \in S
  BY RectsDefined, ViewIsSane
<1>2. ASSUME NEW k \in Nat, k \in S PROVE k + 1 \in S
  <2>1. SUFFICES ASSUME k + 1 <= Len(path) PROVE Sane(Rects(path)[k + 1])
    OBVIOUS
  <2>2. k + 1 \in 1 .. Len(path) /\ (k + 1) - 1 = k /\ k <= Len(path)
    BY <1>0, <2>1
  <2>3. Sane(Rects(path)[k]) /\ path[k + 1] \in Steps
    BY <1>0, <1>2, <2>2
  <2>4. Rects(path)[k + 1] = Half(Rects(path)[k], path[k + 1])
    BY <2>2, RectsDefined
  <2>5. QED
    BY <2>3, <2>4, HalfIs
<1>3. \A k \in Nat : k \in S
  <2> HIDE DEF S
  <2>1. QED
    BY <1>1, <1>2, SetInduction
<1>4. QED
  BY <1>0, <1>3

LEMMA WithinItself ==
  ASSUME NEW r, Sane(r)
  PROVE  Within(r, r)
<1>1. \A axis \in Axes : Lo(r, axis) \in Int /\ Span(r, axis) \in Int
  BY Numbers DEF Sane
<1>2. QED
  BY <1>1 DEF Within

LEMMA WithinBoth ==
  ASSUME NEW r, NEW s, NEW t, Sane(r), Sane(s), Sane(t), Within(r, s), Within(s, t)
  PROVE  Within(r, t)
<1>1. ASSUME NEW axis \in Axes
      PROVE  /\ Lo(t, axis) <= Lo(r, axis)
             /\ Lo(r, axis) + Span(r, axis) <= Lo(t, axis) + Span(t, axis)
  <2>1. /\ Lo(r, axis) \in Int /\ Span(r, axis) \in Int
        /\ Lo(s, axis) \in Int /\ Span(s, axis) \in Int
        /\ Lo(t, axis) \in Int /\ Span(t, axis) \in Int
    BY <1>1, Numbers DEF Sane
  <2>2. QED
    BY <2>1 DEF Within
<1>2. QED
  BY <1>1 DEF Within

\* Deeper rectangles lie within those above them.
LEMMA RectsNest ==
  ASSUME NEW path \in Paths, NEW k \in 0 .. Len(path), NEW l \in k .. Len(path)
  PROVE  Within(Rects(path)[l], Rects(path)[k])
<1> DEFINE S == {i \in Nat : k + i <= Len(path) => Within(Rects(path)[k + i], Rects(path)[k])}
<1>0. /\ Len(path) \in Nat /\ \A i \in 1 .. Len(path) : path[i] \in Steps
      /\ k \in Nat /\ k + 0 = k
  BY PathFacts
<1>1. 0 \in S
  BY <1>0, RectsAreSane, WithinItself
<1>2. ASSUME NEW i \in Nat, i \in S PROVE i + 1 \in S
  <2>1. SUFFICES ASSUME k + (i + 1) <= Len(path)
                 PROVE  Within(Rects(path)[k + (i + 1)], Rects(path)[k])
    OBVIOUS
  <2> DEFINE m == k + i
  <2>2. /\ m + 1 \in 1 .. Len(path) /\ (m + 1) - 1 = m /\ m <= Len(path)
        /\ m \in 0 .. Len(path) /\ m + 1 \in 0 .. Len(path) /\ k + (i + 1) = m + 1
    BY <1>0, <2>1
  <2>3. /\ Sane(Rects(path)[m]) /\ Sane(Rects(path)[k]) /\ Sane(Rects(path)[m + 1])
        /\ path[m + 1] \in Steps
    BY <1>0, <2>2, RectsAreSane
  <2>4. Rects(path)[m + 1] = Half(Rects(path)[m], path[m + 1])
    BY <2>2, RectsDefined
  <2>5. Within(Rects(path)[m + 1], Rects(path)[m])
    BY <2>3, <2>4, HalfIs
  <2>6. Within(Rects(path)[m], Rects(path)[k])
    BY <1>2, <2>2
  <2>7. QED
    BY <2>2, <2>3, <2>5, <2>6, WithinBoth
<1>3. \A i \in Nat : i \in S
  <2> HIDE DEF S
  <2>1. QED
    BY <1>1, <1>2, SetInduction
<1>4. l - k \in Nat /\ k + (l - k) = l /\ l <= Len(path)
  BY <1>0
<1>5. QED
  BY <1>3, <1>4

\* Leaves below one node have the rectangles down to it in common.
LEMMA RectsInCommon ==
  ASSUME NEW p \in Paths, NEW q \in Paths, NEW d \in Nat, SameTo(p, q, d)
  PROVE  \A k \in 0 .. d : Rects(p)[k] = Rects(q)[k]
<1> DEFINE S == {k \in Nat : k <= d => Rects(p)[k] = Rects(q)[k]}
<1>0. /\ Len(p) \in Nat /\ Len(q) \in Nat /\ d <= Len(p) /\ d <= Len(q)
      /\ \A k \in 1 .. d : p[k] = q[k]
  BY PathFacts DEF SameTo
<1>1. 0 \in S
  BY RectsDefined
<1>2. ASSUME NEW k \in Nat, k \in S PROVE k + 1 \in S
  <2>1. SUFFICES ASSUME k + 1 <= d PROVE Rects(p)[k + 1] = Rects(q)[k + 1]
    OBVIOUS
  <2>2. /\ k + 1 \in 1 .. Len(p) /\ k + 1 \in 1 .. Len(q) /\ k + 1 \in 1 .. d
        /\ (k + 1) - 1 = k /\ k <= d
    BY <1>0, <2>1
  <2>3. /\ Rects(p)[k + 1] = Half(Rects(p)[k], p[k + 1])
        /\ Rects(q)[k + 1] = Half(Rects(q)[k], q[k + 1])
    BY <2>2, RectsDefined
  <2>4. Rects(p)[k] = Rects(q)[k] /\ p[k + 1] = q[k + 1]
    BY <1>0, <1>2, <2>2
  <2>5. QED
    BY <2>3, <2>4
<1>3. \A k \in Nat : k \in S
  <2> HIDE DEF S
  <2>1. QED
    BY <1>1, <1>2, SetInduction
<1>4. QED
  BY <1>3

-----------------------------------------------------------------------------
(* Tiles do not overlap.                                                   *)

\* r ends a gutter before s begins, or earlier.
Precedes(r, s, axis) == Lo(r, axis) + Span(r, axis) + Gutter <= Lo(s, axis)

LEMMA PrecedesWithin ==
  ASSUME NEW r, NEW s, NEW t, NEW u, Sane(r), Sane(s), Sane(t), Sane(u),
         NEW axis \in Axes, Precedes(r, s, axis), Within(t, r), Within(u, s)
  PROVE  Precedes(t, u, axis)
<1>1. /\ Lo(r, axis) \in Int /\ Span(r, axis) \in Int
      /\ Lo(s, axis) \in Int /\ Span(s, axis) \in Int
      /\ Lo(t, axis) \in Int /\ Span(t, axis) \in Int
      /\ Lo(u, axis) \in Int /\ Span(u, axis) \in Int
  BY Numbers DEF Sane
<1>2. QED
  BY <1>1 DEF Precedes, Within, Gutter

\* What is below the first half of a split ends before what is below the second.
LEMMA HalvesPrecede ==
  ASSUME NEW p \in Paths, NEW q \in Paths, NEW d \in 1 .. Len(p), d \in 1 .. Len(q),
         SameTo(p, q, d - 1), p[d].dir = q[d].dir, p[d].half = 1, q[d].half = 2,
         NEW k \in d .. Len(p), NEW l \in d .. Len(q)
  PROVE  Precedes(Rects(p)[k], Rects(q)[l], p[d].dir)
<1> DEFINE r == Rects(p)[d - 1]
           axis == p[d].dir
           one == Rects(p)[d]
           two == Rects(q)[d]
<1>1. /\ Len(p) \in Nat /\ Len(q) \in Nat /\ p[d] \in Steps /\ q[d] \in Steps
      /\ axis \in Axes
  BY PathFacts, AxisOfStep
<1>2. /\ d - 1 \in Nat /\ d - 1 \in 0 .. Len(p) /\ d \in 0 .. Len(p) /\ d \in 0 .. Len(q)
      /\ d - 1 \in 0 .. d - 1 /\ k \in 0 .. Len(p) /\ l \in 0 .. Len(q)
  BY <1>1
<1>3. r = Rects(q)[d - 1] /\ Sane(r)
  BY <1>2, RectsInCommon, RectsAreSane
<1>4. one = Half(r, p[d]) /\ two = Half(r, q[d])
  BY <1>3, RectsDefined
<1>5. Precedes(one, two, axis)
  <2>1. /\ Lo(one, axis) = Lo(r, axis) /\ Span(one, axis) = Share(r, axis)
        /\ Lo(two, axis) = Lo(r, axis) + Share(r, axis) + Gutter
    BY <1>1, <1>3, <1>4, HalfIs
  <2>2. /\ Lo(r, axis) \in Int /\ Lo(two, axis) \in Int /\ Sane(one)
        /\ Share(r, axis) \in Int
    BY <1>1, <1>2, <1>3, <2>1, RectsAreSane, Numbers DEF Sane
  <2>3. QED
    BY <2>1, <2>2 DEF Precedes, Gutter
<1>6. Within(Rects(p)[k], one) /\ Within(Rects(q)[l], two)
  BY <1>2, RectsNest
<1>7. Sane(one) /\ Sane(two) /\ Sane(Rects(p)[k]) /\ Sane(Rects(q)[l])
  BY <1>2, RectsAreSane
<1> HIDE DEF axis, one, two
<1>8. Precedes(Rects(p)[k], Rects(q)[l], axis)
  BY <1>1, <1>5, <1>6, <1>7, PrecedesWithin
<1>9. QED
  BY <1>8 DEF axis

LEMMA BoxFacts ==
  ASSUME NEW p \in Paths
  PROVE  /\ Sane(Box(p))
         /\ \A k \in 0 .. Len(p) : Within(Box(p), Rects(p)[k])
<1>1. Len(p) \in Nat /\ Len(p) \in 0 .. Len(p)
  BY PathFacts
<1>2. \A k \in 0 .. Len(p) : Len(p) \in k .. Len(p)
  BY <1>1
<1>3. QED
  BY <1>1, <1>2, RectsAreSane, RectsNest DEF Box

LEMMA LeavesPrecede ==
  ASSUME NEW p \in Paths, NEW q \in Paths, LeftOf(p, q)
  PROVE  \E axis \in Axes : Precedes(Box(p), Box(q), axis)
<1>1. Len(p) \in Nat /\ Len(q) \in Nat /\ DOMAIN p = 1 .. Len(p) /\ DOMAIN q = 1 .. Len(q)
  BY PathFacts
<1>2. PICK d \in 1 .. Len(p) :
        /\ d \in 1 .. Len(q) /\ SameTo(p, q, d - 1)
        /\ p[d].dir = q[d].dir /\ p[d].half = 1 /\ q[d].half = 2
  BY <1>1 DEF LeftOf
<1>3. Len(p) \in d .. Len(p) /\ Len(q) \in d .. Len(q) /\ p[d].dir \in Axes
  BY <1>1, <1>2, PathFacts, AxisOfStep
<1>4. QED
  BY <1>2, <1>3, HalvesPrecede DEF Box

\* The rectangles of any tree of tiles, whatever the viewport.
LEMMA TreesDoNotOverlap ==
  ASSUME NEW n, Sound(n)
  PROVE  NoOverlap(n)
<1> DEFINE box == [i \in DOMAIN n |-> ComputeTiling(n)[i].box]
<1>1. /\ DOMAIN n = 1 .. Len(n) /\ Len(n) \in Nat /\ Tree(n)
      /\ \A i \in DOMAIN n : n[i].path \in Paths
  BY LayoutFacts DEF Sound
<1>2. DOMAIN box = DOMAIN n /\ \A i \in DOMAIN n : box[i] = Box(n[i].path)
  BY DEF ComputeTiling
<1> HIDE DEF box
<1>3. ASSUME NEW a \in DOMAIN n
      PROVE  /\ box[a].x >= 0 /\ box[a].x + box[a].w <= ViewW
             /\ box[a].y >= 0 /\ box[a].y + box[a].h <= ViewH
  <2>1. Within(box[a], Viewport)
    <3>1. 0 \in 0 .. Len(n[a].path) /\ Rects(n[a].path)[0] = Viewport
      BY <1>1, PathFacts, RectsDefined
    <3>2. QED
      BY <1>1, <1>2, <3>1, BoxFacts
  <2>2. box[a] \in Rect
    BY <1>1, <1>2, BoxFacts DEF Sane
  <2>3. /\ 0 <= box[a].x /\ box[a].x + box[a].w <= 0 + ViewW
        /\ 0 <= box[a].y /\ box[a].y + box[a].h <= 0 + ViewH
    BY <2>1 DEF Within, Axes, Lo, Span, Viewport
  <2>4. QED
    BY <2>2, <2>3, ViewAssumption DEF Rect
<1>4. ASSUME NEW a \in DOMAIN n, NEW b \in DOMAIN n, a < b
      PROVE  \/ box[a].x + box[a].w <= box[b].x \/ box[b].x + box[b].w <= box[a].x
             \/ box[a].y + box[a].h <= box[b].y \/ box[b].y + box[b].h <= box[a].y
  <2>1. LeftOf(n[a].path, n[b].path)
    BY <1>1, <1>4 DEF Tree
  <2>2. PICK axis \in Axes : Precedes(box[a], box[b], axis)
    BY <1>1, <1>2, <2>1, LeavesPrecede
  <2>3. box[a] \in Rect /\ box[b] \in Rect
    BY <1>1, <1>2, BoxFacts DEF Sane
  <2>4. CASE axis = "horizontal"
    BY <2>2, <2>3, <2>4 DEF Precedes, Lo, Span, Rect, Gutter
  <2>5. CASE axis = "vertical"
    BY <2>2, <2>3, <2>5 DEF Precedes, Lo, Span, Rect, Gutter
  <2>6. QED
    BY <2>4, <2>5 DEF Axes
<1>5. QED
  BY <1>2, <1>3, <1>4 DEF NoOverlap, box

\* Whatever is split, closed, dropped and moved, in a viewport of any size, the
\* tiles of every space stay in it and do not overlap: TilingDisjoint.
THEOREM TilesNeverOverlap == Spec => []TilingDisjoint
<1>1. WMInv => TilingDisjoint
  <2> SUFFICES ASSUME WMInv, NEW i \in DOMAIN spaces PROVE NoOverlap(spaces[i].layout)
    BY DEF TilingDisjoint
  <2>1. spaces[i].layout \in Layouts
    BY Given, SpaceFacts
  <2>2. QED
    BY <2>1, LayoutsAreSound, TreesDoNotOverlap
<1>2. QED
  BY <1>1, WMCorrect, PTL

-----------------------------------------------------------------------------
(* The nodes of a tree: node d on the way to leaf i.                       *)

\* The leaves below that node.
LeavesBelow(n, i, d) == {j \in DOMAIN n : SameTo(n[i].path, n[j].path, d)}

LEMMA TreeFacts ==
  ASSUME NEW n, Sound(n)
  PROVE  /\ DOMAIN n = 1 .. Len(n) /\ Len(n) \in Nat /\ Tree(n)
         /\ \A i \in DOMAIN n : /\ n[i].path \in Paths /\ Len(n[i].path) \in Nat
                                /\ DOMAIN n[i].path = 1 .. Len(n[i].path)
                                /\ \A k \in 1 .. Len(n[i].path) : n[i].path[k] \in Steps
  BY LayoutFacts, PathFacts DEF Sound

LEMMA LongestPath ==
  ASSUME NEW n, Sound(n)
  PROVE  \E max \in Nat : \A i \in DOMAIN n : Len(n[i].path) <= max
<1> DEFINE S == {k \in Nat : \E max \in Nat :
                   \A i \in DOMAIN n : i <= k => Len(n[i].path) <= max}
<1>1. 0 \in S
  BY TreeFacts
<1>2. ASSUME NEW k \in Nat, k \in S PROVE k + 1 \in S
  <2>1. PICK max \in Nat : \A i \in DOMAIN n : i <= k => Len(n[i].path) <= max
    BY <1>2
  <2>2. \E more \in Nat : max <= more /\ (k + 1 \in DOMAIN n => Len(n[k + 1].path) <= more)
    <3>1. CASE k + 1 \in DOMAIN n
      <4> DEFINE more == max + Len(n[k + 1].path)
      <4>1. more \in Nat /\ max <= more /\ Len(n[k + 1].path) <= more
        BY <3>1, TreeFacts
      <4>2. QED
        BY <4>1
    <3>2. CASE k + 1 \notin DOMAIN n
      BY <3>2
    <3>3. QED
      BY <3>1, <3>2
  <2>3. PICK more \in Nat : max <= more /\ (k + 1 \in DOMAIN n => Len(n[k + 1].path) <= more)
    BY <2>2
  <2>4. ASSUME NEW i \in DOMAIN n, i <= k + 1 PROVE Len(n[i].path) <= more
    <3>1. i \in Nat /\ Len(n[i].path) \in Nat
      BY TreeFacts
    <3>2. CASE i <= k
      BY <2>1, <2>3, <3>1, <3>2
    <3>3. CASE i = k + 1
      BY <2>3, <3>3
    <3>4. QED
      BY <2>4, <3>1, <3>2, <3>3
  <2>5. QED
    BY <2>4
<1>3. \A k \in Nat : k \in S
  <2> HIDE DEF S
  <2>1. QED
    BY <1>1, <1>2, SetInduction
<1>4. PICK max \in Nat : \A i \in DOMAIN n : i <= Len(n) => Len(n[i].path) <= max
  BY <1>3, TreeFacts
<1>5. QED
  BY <1>4, TreeFacts

\* What holds of a node when it holds of the nodes just below, holds of all.
LEMMA NodeInduction ==
  ASSUME NEW n, Sound(n), NEW S,
         \A i \in DOMAIN n : \A d \in 0 .. Len(n[i].path) :
           (\A j \in LeavesBelow(n, i, d) : d < Len(n[j].path) => <<j, d + 1>> \in S)
             => <<i, d>> \in S
  PROVE  \A i \in DOMAIN n : \A d \in 0 .. Len(n[i].path) : <<i, d>> \in S
<1>1. PICK max \in Nat : \A i \in DOMAIN n : Len(n[i].path) <= max
  BY LongestPath
<1> DEFINE T == {h \in Nat : \A i \in DOMAIN n : \A d \in 0 .. Len(n[i].path) :
                               max <= d + h => <<i, d>> \in S}
<1>2. 0 \in T
  <2> SUFFICES ASSUME NEW i \in DOMAIN n, NEW d \in 0 .. Len(n[i].path), max <= d + 0
               PROVE  <<i, d>> \in S
    OBVIOUS
  <2>1. \A j \in DOMAIN n : ~(d < Len(n[j].path))
    <3> SUFFICES ASSUME NEW j \in DOMAIN n PROVE ~(d < Len(n[j].path))
      OBVIOUS
    <3>1. Len(n[j].path) \in Nat /\ Len(n[j].path) <= max /\ Len(n[i].path) \in Nat
      BY <1>1, TreeFacts
    <3>2. QED
      BY <3>1
  <2>2. QED
    BY <2>1 DEF LeavesBelow
<1>3. ASSUME NEW h \in Nat, h \in T PROVE h + 1 \in T
  <2> SUFFICES ASSUME NEW i \in DOMAIN n, NEW d \in 0 .. Len(n[i].path), max <= d + (h + 1)
               PROVE  <<i, d>> \in S
    OBVIOUS
  <2>1. ASSUME NEW j \in DOMAIN n, d < Len(n[j].path) PROVE <<j, d + 1>> \in S
    <3>1. Len(n[j].path) \in Nat /\ Len(n[i].path) \in Nat
      BY TreeFacts
    <3>2. d + 1 \in 0 .. Len(n[j].path) /\ max <= (d + 1) + h
      BY <2>1, <3>1
    <3>3. QED
      BY <1>3, <3>2
  <2>2. QED
    BY <2>1 DEF LeavesBelow
<1>4. \A h \in Nat : h \in T
  <2> HIDE DEF T
  <2>1. QED
    BY <1>2, <1>3, SetInduction
<1>5. ASSUME NEW i \in DOMAIN n, NEW d \in 0 .. Len(n[i].path) PROVE <<i, d>> \in S
  <2>1. max <= d + max
    BY TreeFacts
  <2>2. QED
    BY <1>4, <2>1
<1>6. QED
  BY <1>5

\* At a node that is no leaf all leaves below take the same turn, and both
\* halves have some.
LEMMA NodeForks ==
  ASSUME NEW n, Sound(n), NEW i \in DOMAIN n, NEW d \in Nat, d < Len(n[i].path)
  PROVE  /\ i \in LeavesBelow(n, i, d)
         /\ \A j \in LeavesBelow(n, i, d) :
              d + 1 \in 1 .. Len(n[j].path) /\ n[j].path[d + 1].dir = n[i].path[d + 1].dir
         /\ \E j \in LeavesBelow(n, i, d) : n[j].path[d + 1].half # n[i].path[d + 1].half
<1>1. /\ Len(n[i].path) \in Nat /\ d + 1 \in 1 .. Len(n[i].path) /\ (d + 1) - 1 = d
      /\ DOMAIN n[i].path = 1 .. Len(n[i].path) /\ d + 1 \in Nat
  BY TreeFacts
<1>2. i \in LeavesBelow(n, i, d)
  BY <1>1 DEF LeavesBelow, SameTo
<1>3. ASSUME NEW j \in LeavesBelow(n, i, d)
      PROVE  d + 1 \in 1 .. Len(n[j].path) /\ n[j].path[d + 1].dir = n[i].path[d + 1].dir
  <2> DEFINE p == n[i].path
             q == n[j].path
  <2>0. /\ j \in DOMAIN n /\ Len(q) \in Nat /\ \A k \in 1 .. d : p[k] = q[k]
        /\ DOMAIN q = 1 .. Len(q) /\ DOMAIN p = 1 .. Len(p)
    BY TreeFacts DEF LeavesBelow, SameTo
  <2>1. CASE j = i
    BY <1>1, <2>1
  <2>2. CASE j # i
    <3>1. Parted(p, q)
      BY <2>0, <2>2, TreeFacts, OthersPart
    <3> HIDE DEF p, q
    <3>2. PICK e \in 1 .. Len(q) :
            /\ e \in 1 .. Len(p) /\ p[e].dir = q[e].dir /\ p[e].half # q[e].half
            /\ \A k \in 1 .. e - 1 : p[k] = q[k]
      BY <2>0, <3>1 DEF Parted, LeftOf, SameTo
    <3>3. ~(e \in 1 .. d)
      BY <2>0, <3>2
    <3>4. e >= d + 1 /\ d + 1 \in 1 .. Len(q)
      BY <2>0, <3>2, <3>3
    <3>5. CASE e = d + 1
      BY <3>2, <3>4, <3>5 DEF p, q
    <3>6. CASE e > d + 1
      <4>1. d + 1 \in 1 .. e - 1
        BY <3>6
      <4>2. QED
        BY <3>2, <3>4, <4>1 DEF p, q
    <3>7. QED
      BY <3>4, <3>5, <3>6
  <2>3. QED
    BY <2>1, <2>2
<1>4. \E j \in LeavesBelow(n, i, d) : n[j].path[d + 1].half # n[i].path[d + 1].half
  <2>1. PICK j \in DOMAIN n : Beside(n[i].path, n[j].path, d + 1)
    BY <1>1, TreeFacts DEF Tree
  <2>2. QED
    BY <1>1, <2>1 DEF Beside, LeavesBelow
<1>5. QED
  BY <1>2, <1>3, <1>4

\* Leaves below a node are below the same child of it if they take the same half.
LEMMA SameHalf ==
  ASSUME NEW n, Sound(n), NEW i \in DOMAIN n, NEW d \in Nat, d < Len(n[i].path),
         NEW j \in LeavesBelow(n, i, d), NEW k \in LeavesBelow(n, i, d)
  PROVE  /\ n[j].path[d + 1].half = n[k].path[d + 1].half <=> k \in LeavesBelow(n, j, d + 1)
         /\ LeavesBelow(n, j, d + 1) \subseteq LeavesBelow(n, i, d)
<1> DEFINE p == n[i].path
           q == n[j].path
           r == n[k].path
<1>1. /\ j \in DOMAIN n /\ k \in DOMAIN n /\ Len(p) \in Nat /\ Len(q) \in Nat /\ Len(r) \in Nat
      /\ d + 1 \in 1 .. Len(q) /\ d + 1 \in 1 .. Len(r) /\ d + 1 \in 1 .. Len(p)
      /\ q[d + 1].dir = p[d + 1].dir /\ r[d + 1].dir = p[d + 1].dir
      /\ q[d + 1] \in Steps /\ r[d + 1] \in Steps
  <2>1. j \in DOMAIN n /\ k \in DOMAIN n
    BY DEF LeavesBelow
  <2>2. /\ d + 1 \in 1 .. Len(q) /\ d + 1 \in 1 .. Len(r)
        /\ q[d + 1].dir = p[d + 1].dir /\ r[d + 1].dir = p[d + 1].dir
    BY NodeForks
  <2>3. /\ Len(p) \in Nat /\ Len(q) \in Nat /\ Len(r) \in Nat
        /\ q[d + 1] \in Steps /\ r[d + 1] \in Steps
    BY <2>1, <2>2, TreeFacts
  <2>4. QED
    BY <2>1, <2>2, <2>3
<1>2. \A m \in 1 .. d : p[m] = q[m] /\ p[m] = r[m]
  BY DEF LeavesBelow, SameTo
<1>3. q[d + 1] = r[d + 1] <=> q[d + 1].half = r[d + 1].half
  <2>1. \A a, b \in Steps : a.dir = b.dir /\ a.half = b.half => a = b
    BY DEF Steps
  <2>2. QED
    BY <1>1, <2>1
<1>4. q[d + 1] = r[d + 1] <=> SameTo(q, r, d + 1)
  <2>1. \A m \in 1 .. d + 1 : m \in 1 .. d \/ m = d + 1
    OBVIOUS
  <2>2. d + 1 <= Len(q) /\ d + 1 <= Len(r) /\ d + 1 \in 1 .. d + 1
    BY <1>1
  <2> HIDE DEF p, q, r
  <2>3. QED
    BY <1>2, <2>1, <2>2 DEF SameTo
<1>5. ASSUME NEW m \in LeavesBelow(n, j, d + 1) PROVE m \in LeavesBelow(n, i, d)
  <2>1. /\ m \in DOMAIN n /\ d + 1 <= Len(n[m].path) /\ Len(n[m].path) \in Nat
        /\ \A l \in 1 .. d + 1 : q[l] = n[m].path[l]
    BY TreeFacts DEF LeavesBelow, SameTo
  <2>2. \A l \in 1 .. d : p[l] = n[m].path[l]
    BY <1>2, <2>1
  <2>3. d <= Len(p) /\ d <= Len(n[m].path)
    BY <1>1, <2>1
  <2>4. QED
    BY <2>1, <2>2, <2>3 DEF LeavesBelow, SameTo
<1>6. QED
  BY <1>1, <1>3, <1>4, <1>5 DEF LeavesBelow

-----------------------------------------------------------------------------
(* Corners: of the leaves below a node one is in each corner.              *)

\* A corner: which end of either axis.
Corners == [Axes -> {1, 2}]

\* From level d on the path keeps to the corner.
KeepsTo(path, d, c) == \A k \in d + 1 .. Len(path) : path[k].half = c[path[k].dir]

\* r touches the edges of s in the corner.
Touches(r, s, c) ==
  \A axis \in Axes :
    IF c[axis] = 1 THEN Lo(r, axis) = Lo(s, axis)
                   ELSE Lo(r, axis) + Span(r, axis) = Lo(s, axis) + Span(s, axis)

LEMMA CornerLeaf ==
  ASSUME NEW n, Sound(n), NEW c \in Corners
  PROVE  \A i \in DOMAIN n : \A d \in 0 .. Len(n[i].path) :
           \E j \in LeavesBelow(n, i, d) : KeepsTo(n[j].path, d, c)
<1> DEFINE Cornered(i, d) == \E j \in LeavesBelow(n, i, d) : KeepsTo(n[j].path, d, c)
           S == {x \in (DOMAIN n) \X Nat : Cornered(x[1], x[2])}
<1>0. \A i \in DOMAIN n, d \in Nat : <<i, d>> \in S <=> Cornered(i, d)
  <2> HIDE DEF Cornered
  <2>1. QED
    OBVIOUS
<1> HIDE DEF S
<1>1. ASSUME NEW i \in DOMAIN n, NEW d \in 0 .. Len(n[i].path),
             \A j \in LeavesBelow(n, i, d) : d < Len(n[j].path) => <<j, d + 1>> \in S
      PROVE  <<i, d>> \in S
  <2>0. Len(n[i].path) \in Nat /\ d \in Nat
    BY TreeFacts
  <2>1. CASE d = Len(n[i].path)
    <3>1. i \in LeavesBelow(n, i, d) /\ KeepsTo(n[i].path, d, c)
      BY <2>0, <2>1 DEF LeavesBelow, SameTo, KeepsTo
    <3>2. QED
      BY <1>0, <2>0, <3>1
  <2>2. CASE d < Len(n[i].path)
    <3> DEFINE step == n[i].path[d + 1]
    <3>1. step \in Steps /\ c[step.dir] \in {1, 2}
      <4>1. d + 1 \in 1 .. Len(n[i].path)
        BY <2>0, <2>2
      <4>2. step \in Steps
        BY <4>1, TreeFacts
      <4>3. QED
        BY <4>2, AxisOfStep DEF Corners
    <3>2. PICK j \in LeavesBelow(n, i, d) : n[j].path[d + 1].half = c[step.dir]
      <4>1. CASE step.half = c[step.dir]
        BY <2>0, <2>2, <4>1, NodeForks
      <4>2. CASE step.half # c[step.dir]
        <5>1. PICK j \in LeavesBelow(n, i, d) : n[j].path[d + 1].half # step.half
          BY <2>0, <2>2, NodeForks
        <5>2. n[j].path[d + 1].half \in {1, 2} /\ step.half \in {1, 2}
          <6>1. d + 1 \in 1 .. Len(n[j].path) /\ j \in DOMAIN n
            BY <2>0, <2>2, NodeForks DEF LeavesBelow
          <6>2. n[j].path[d + 1] \in Steps
            BY <6>1, TreeFacts
          <6>3. QED
            BY <3>1, <6>2, AxisOfStep
        <5>3. QED
          BY <3>1, <4>2, <5>1, <5>2
      <4>3. QED
        BY <4>1, <4>2
    <3>3. d + 1 \in 1 .. Len(n[j].path) /\ d < Len(n[j].path) /\ j \in DOMAIN n
          /\ n[j].path[d + 1].dir = step.dir
      <4>1. d + 1 \in 1 .. Len(n[j].path) /\ n[j].path[d + 1].dir = step.dir
        BY <2>0, <2>2, NodeForks
      <4>2. QED
        BY <2>0, <4>1, TreeFacts DEF LeavesBelow
    <3>4. <<j, d + 1>> \in S
      BY <1>1, <3>3
    <3>5. PICK k \in LeavesBelow(n, j, d + 1) : KeepsTo(n[k].path, d + 1, c)
      BY <1>0, <2>0, <3>3, <3>4
    <3>6. k \in LeavesBelow(n, i, d)
      BY <2>0, <2>2, <3>5, SameHalf
    <3>7. n[k].path[d + 1] = n[j].path[d + 1]
      <4>1. d + 1 \in 1 .. d + 1
        BY <2>0
      <4>2. QED
        BY <3>5, <4>1 DEF LeavesBelow, SameTo
    <3>8. KeepsTo(n[k].path, d, c)
      <4> SUFFICES ASSUME NEW m \in d + 1 .. Len(n[k].path)
                   PROVE  n[k].path[m].half = c[n[k].path[m].dir]
        BY DEF KeepsTo
      <4>1. CASE m = d + 1
        BY <3>2, <3>3, <3>7, <4>1
      <4>2. CASE m # d + 1
        <5>1. m \in (d + 1) + 1 .. Len(n[k].path)
          BY <2>0, <4>2
        <5>2. QED
          BY <3>5, <5>1 DEF KeepsTo
      <4>3. QED
        BY <4>1, <4>2
    <3>9. QED
      BY <1>0, <2>0, <3>6, <3>8
  <2>3. QED
    BY <2>0, <2>1, <2>2
<1>2. \A i \in DOMAIN n : \A d \in 0 .. Len(n[i].path) : <<i, d>> \in S
  BY <1>1, NodeInduction
<1>3. ASSUME NEW i \in DOMAIN n, NEW d \in 0 .. Len(n[i].path) PROVE Cornered(i, d)
  <2>1. d \in Nat
    BY TreeFacts
  <2>2. QED
    BY <1>0, <1>2, <2>1
<1>4. QED
  BY <1>3

\* The rectangle of that leaf is in the corner of the node's rectangle.
LEMMA CornerRect ==
  ASSUME NEW p \in Paths, NEW d \in 0 .. Len(p), NEW c \in Corners, KeepsTo(p, d, c)
  PROVE  Touches(Box(p), Rects(p)[d], c)
<1> DEFINE S == {i \in Nat : d + i <= Len(p) => Touches(Rects(p)[d + i], Rects(p)[d], c)}
<1>0. Len(p) \in Nat /\ d \in Nat /\ d + 0 = d
  BY PathFacts
<1>1. 0 \in S
  BY <1>0 DEF Touches
<1>2. ASSUME NEW i \in Nat, i \in S PROVE i + 1 \in S
  <2>1. SUFFICES ASSUME d + (i + 1) <= Len(p)
                 PROVE  Touches(Rects(p)[d + (i + 1)], Rects(p)[d], c)
    OBVIOUS
  <2> DEFINE m == d + i
             r == Rects(p)[m]
             q == Rects(p)[m + 1]
             s == Rects(p)[d]
             step == p[m + 1]
  <2>2. /\ m + 1 \in 1 .. Len(p) /\ (m + 1) - 1 = m /\ m <= Len(p) /\ d + (i + 1) = m + 1
        /\ m \in 0 .. Len(p) /\ m + 1 \in d + 1 .. Len(p) /\ m + 1 \in 0 .. Len(p)
    BY <1>0, <2>1
  <2>3. q = Half(r, step) /\ Sane(r) /\ Sane(q) /\ Sane(s) /\ step \in Steps
    BY <2>2, RectsDefined, RectsAreSane, PathFacts
  <2>4. step.half = c[step.dir] /\ step.dir \in Axes /\ step.half \in {1, 2}
    BY <2>2, <2>3, AxisOfStep DEF KeepsTo
  <2>5. Touches(r, s, c)
    BY <1>2, <2>2
  <2> HIDE DEF m, r, q, s, step
  <2>6. ASSUME NEW axis \in Axes
        PROVE  IF c[axis] = 1 THEN Lo(q, axis) = Lo(s, axis)
               ELSE Lo(q, axis) + Span(q, axis) = Lo(s, axis) + Span(s, axis)
    <3>1. /\ Lo(r, axis) \in Int /\ Span(r, axis) \in Int
          /\ Lo(q, axis) \in Int /\ Span(q, axis) \in Int
          /\ Lo(s, axis) \in Int /\ Span(s, axis) \in Int
      BY <2>3, Numbers DEF Sane
    <3>2. IF c[axis] = 1 THEN Lo(r, axis) = Lo(s, axis)
          ELSE Lo(r, axis) + Span(r, axis) = Lo(s, axis) + Span(s, axis)
      BY <2>5 DEF Touches
    <3>3. CASE axis # step.dir
      <4>1. Lo(q, axis) = Lo(r, axis) /\ Span(q, axis) = Span(r, axis)
        BY <2>3, <3>3, HalfIs
      <4>2. QED
        BY <3>2, <4>1
    <3>4. CASE axis = step.dir /\ step.half = 1
      <4>1. Lo(q, axis) = Lo(r, axis)
        BY <2>3, <3>4, HalfIs
      <4>2. QED
        BY <2>4, <3>2, <3>4, <4>1
    <3>5. CASE axis = step.dir /\ step.half = 2
      <4>1. /\ Lo(q, axis) = Lo(r, axis) + Share(r, axis) + Gutter
            /\ Span(q, axis) = Span(r, axis) - Share(r, axis) - Gutter
        BY <2>3, <3>5, HalfIs
      <4>2. Share(r, axis) \in Int
        BY <3>1 DEF Share, Gutter
      <4>3. Lo(q, axis) + Span(q, axis) = Lo(r, axis) + Span(r, axis)
        BY <3>1, <4>1, <4>2 DEF Gutter
      <4>4. QED
        BY <2>4, <3>2, <3>5, <4>3
    <3>6. QED
      BY <2>4, <3>3, <3>4, <3>5
  <2>7. Touches(q, s, c)
    BY <2>6 DEF Touches
  <2>8. QED
    BY <2>2, <2>7 DEF q, s
<1>3. \A i \in Nat : i \in S
  <2> HIDE DEF S
  <2>1. QED
    BY <1>1, <1>2, SetInduction
<1>4. Len(p) - d \in Nat /\ d + (Len(p) - d) = Len(p) /\ Len(p) <= Len(p)
  BY <1>0
<1>5. QED
  BY <1>0, <1>3, <1>4 DEF Box

-----------------------------------------------------------------------------
(* The focus keys.  A key leads along an axis: from the first half of a    *)
(* split to the second, or back, where everything is mirrored.             *)

Other(axis) == IF axis = "horizontal" THEN "vertical" ELSE "horizontal"

\* The key that leads from half h to the other one.
Toward(axis, h) ==
  IF axis = "horizontal" THEN (IF h = 1 THEN "right" ELSE "left")
                         ELSE (IF h = 1 THEN "down" ELSE "up")

\* Where r begins and ends for someone who goes that way.
Start(r, axis, h) == IF h = 1 THEN Lo(r, axis) ELSE -(Lo(r, axis) + Span(r, axis))
End(r, axis, h) == IF h = 1 THEN Lo(r, axis) + Span(r, axis) ELSE -Lo(r, axis)

\* r can be seen from s across the axis.
Overlaps(r, s, axis) ==
  /\ Lo(r, axis) < Lo(s, axis) + Span(s, axis) - Eps
  /\ Lo(r, axis) + Span(r, axis) > Lo(s, axis) + Eps

LEMMA KeyLeads ==
  ASSUME NEW r \in Rect, NEW s \in Rect, NEW axis \in Axes, NEW h \in {1, 2}
  PROVE  /\ Toward(axis, h) \in MoveDirs /\ Other(axis) \in Axes /\ Other(axis) # axis
         /\ Beyond(r, s, Toward(axis, h)) <=>
              Start(r, axis, h) >= End(s, axis, h) - Eps /\ Overlaps(r, s, Other(axis))
         /\ Gap(r, s, Toward(axis, h)) = Start(r, axis, h) - End(s, axis, h)
<1>1. /\ r.x \in Int /\ r.y \in Int /\ r.w \in Int /\ r.h \in Int
      /\ s.x \in Int /\ s.y \in Int /\ s.w \in Int /\ s.h \in Int
  BY DEF Rect
<1>2. CASE axis = "horizontal" /\ h = 1
  BY <1>1, <1>2 DEF Toward, Other, Axes, MoveDirs, Beyond, Gap, Start, End, Overlaps, Lo, Span, Eps
<1>3. CASE axis = "horizontal" /\ h = 2
  BY <1>1, <1>3 DEF Toward, Other, Axes, MoveDirs, Beyond, Gap, Start, End, Overlaps, Lo, Span, Eps
<1>4. CASE axis = "vertical" /\ h = 1
  BY <1>1, <1>4 DEF Toward, Other, Axes, MoveDirs, Beyond, Gap, Start, End, Overlaps, Lo, Span, Eps
<1>5. CASE axis = "vertical" /\ h = 2
  BY <1>1, <1>5 DEF Toward, Other, Axes, MoveDirs, Beyond, Gap, Start, End, Overlaps, Lo, Span, Eps
<1>6. QED
  BY <1>2, <1>3, <1>4, <1>5 DEF Axes

LEMMA StartToEnd ==
  ASSUME NEW r \in Rect, NEW axis \in Axes, NEW h \in {1, 2}
  PROVE  /\ Start(r, axis, h) \in Int /\ End(r, axis, h) \in Int
         /\ End(r, axis, h) = Start(r, axis, h) + Span(r, axis)
<1>1. Lo(r, axis) \in Int /\ Span(r, axis) \in Int
  BY Numbers
<1>2. QED
  BY <1>1 DEF Start, End

LEMMA WithinLeads ==
  ASSUME NEW r \in Rect, NEW s \in Rect, Within(r, s), NEW axis \in Axes, NEW h \in {1, 2}
  PROVE  Start(s, axis, h) <= Start(r, axis, h) /\ End(r, axis, h) <= End(s, axis, h)
<1>1. /\ Lo(r, axis) \in Int /\ Span(r, axis) \in Int
      /\ Lo(s, axis) \in Int /\ Span(s, axis) \in Int
  BY Numbers
<1>2. QED
  BY <1>1 DEF Start, End, Within

\* Of two that do not overlap one is a gutter ahead.
LEMMA OneIsAhead ==
  ASSUME NEW r \in Rect, NEW s \in Rect, NEW axis \in Axes, NEW h \in {1, 2},
         Precedes(r, s, axis) \/ Precedes(s, r, axis)
  PROVE  \/ End(r, axis, h) + Gutter <= Start(s, axis, h)
         \/ End(s, axis, h) + Gutter <= Start(r, axis, h)
<1>1. /\ Lo(r, axis) \in Int /\ Span(r, axis) \in Int
      /\ Lo(s, axis) \in Int /\ Span(s, axis) \in Int
  BY Numbers
<1>2. QED
  BY <1>1 DEF Start, End, Precedes, Gutter

\* findNeighborRect answers with a tile beyond the pane, and no other is nearer.
LEMMA Chosen ==
  ASSUME NEW n, Sound(n), NEW p \in DOMAIN n, NEW q \in DOMAIN n, q # p,
         NEW axis \in Axes, NEW h \in {1, 2},
         Beyond(Box(n[q].path), Box(n[p].path), Toward(axis, h))
  PROVE  LET key == Toward(axis, h)
         IN  \E r \in DOMAIN n :
               /\ FindNeighbor(ComputeTiling(n), n[p].id, key) = n[r].id
               /\ Beyond(Box(n[r].path), Box(n[p].path), key)
               /\ Gap(Box(n[r].path), Box(n[p].path), key)
                    <= Gap(Box(n[q].path), Box(n[p].path), key)
<1> DEFINE key == Toward(axis, h)
           rects == ComputeTiling(n)
           id == n[p].id
           self == FindLeaf(rects, id).box
           near == {i \in DOMAIN rects : rects[i].id # id /\ Beyond(rects[i].box, self, key)}
           gap(i) == Gap(rects[i].box, self, key)
           Best(i) == \A k \in near : gap(i) < gap(k) \/ (gap(i) = gap(k) /\ i <= k)
<1>1. /\ DOMAIN rects = DOMAIN n /\ DOMAIN n = 1 .. Len(n) /\ Len(n) \in Nat
      /\ \A i \in DOMAIN n : rects[i].id = n[i].id /\ rects[i].box = Box(n[i].path)
  BY TreeFacts DEF ComputeTiling
<1>2. self = Box(n[p].path)
  <2>1. \A i \in DOMAIN n : n[i].id = id => i = p
    BY DEF Sound, Distinct
  <2>2. At(rects, id) = p
    BY <1>1, <2>1 DEF At
  <2>3. QED
    BY <1>1, <2>2 DEF FindLeaf
<1>3. id \in Panes(rects)
  BY <1>1 DEF Panes
<1>4. q \in near
  <2>1. n[q].id # id
    BY DEF Sound, Distinct
  <2>2. QED
    BY <1>1, <1>2, <2>1
<1>5. ASSUME NEW i \in near PROVE gap(i) \in Int /\ gap(i) >= -Eps
  <2>1. i \in DOMAIN n /\ Beyond(Box(n[i].path), Box(n[p].path), key)
    BY <1>1, <1>2
  <2>2. Box(n[i].path) \in Rect /\ Box(n[p].path) \in Rect
    BY <2>1, TreeFacts, BoxFacts DEF Sane
  <2> DEFINE u == Box(n[i].path)
             v == Box(n[p].path)
  <2>3. gap(i) = Gap(u, v, key)
    BY <1>1, <1>2, <2>1
  <2> HIDE DEF u, v, gap
  <2>4. /\ gap(i) = Start(u, axis, h) - End(v, axis, h)
        /\ Start(u, axis, h) >= End(v, axis, h) - Eps
    BY <2>1, <2>2, <2>3, KeyLeads DEF u, v
  <2>5. Start(u, axis, h) \in Int /\ End(v, axis, h) \in Int
    BY <2>2, StartToEnd DEF u, v
  <2>6. QED
    BY <2>4, <2>5 DEF Eps
<1>6. near \subseteq Nat
  BY <1>1
<1> HIDE DEF near, gap
<1>7. \E i \in near : Best(i)
  <2> DEFINE T == {gap(i) + Eps : i \in near}
  <2>1. T \subseteq Nat /\ T # {}
    BY <1>4, <1>5 DEF Eps
  <2>2. PICK x \in T : \A y \in T : x <= y
    BY <2>1, LeastNatural
  <2>3. PICK i \in near : x = gap(i) + Eps
    BY <2>2
  <2>4. \A k \in near : gap(i) <= gap(k)
    BY <1>5, <2>2, <2>3 DEF Eps
  <2> DEFINE first == {k \in near : gap(k) = gap(i)}
  <2>5. first \subseteq Nat /\ first # {}
    BY <1>6
  <2>6. PICK m \in first : \A k \in first : m <= k
    BY <2>5, LeastNatural
  <2>7. Best(m)
    BY <1>5, <2>4, <2>6
  <2>8. QED
    BY <2>6, <2>7
<1> DEFINE best == CHOOSE i \in near : Best(i)
<1>8. best \in near /\ Best(best)
  BY <1>7
<1>9. FindNeighbor(rects, id, key) = rects[best].id
  BY <1>3, <1>4, Zenon DEF FindNeighbor, near, gap
<1> HIDE DEF best
<1>10. /\ best \in DOMAIN n /\ rects[best].id = n[best].id
       /\ Beyond(Box(n[best].path), Box(n[p].path), key)
  BY <1>1, <1>2, <1>8 DEF near
<1>11. gap(best) <= gap(q)
  BY <1>4, <1>5, <1>8
<1>12. /\ gap(best) = Gap(Box(n[best].path), Box(n[p].path), key)
       /\ gap(q) = Gap(Box(n[q].path), Box(n[p].path), key)
  BY <1>1, <1>2, <1>10 DEF gap
<1>13. QED
  BY <1>9, <1>10, <1>11, <1>12

\* A leaf that is not below a node lies a gutter or more beside it.
LEMMA NodeApart ==
  ASSUME NEW n, Sound(n), NEW i \in DOMAIN n, NEW d \in 0 .. Len(n[i].path),
         NEW j \in DOMAIN n, j \notin LeavesBelow(n, i, d)
  PROVE  \E axis \in Axes : \/ Precedes(Box(n[j].path), Rects(n[i].path)[d], axis)
                            \/ Precedes(Rects(n[i].path)[d], Box(n[j].path), axis)
<1> DEFINE p == n[i].path
           q == n[j].path
<1>1. /\ p \in Paths /\ q \in Paths /\ Len(p) \in Nat /\ Len(q) \in Nat
      /\ DOMAIN p = 1 .. Len(p) /\ DOMAIN q = 1 .. Len(q)
  BY TreeFacts
<1>2. ~SameTo(p, q, d)
  BY DEF LeavesBelow
<1>3. Parted(p, q)
  <2>1. i # j
    BY <1>1, <1>2 DEF SameTo
  <2>2. QED
    BY <2>1, TreeFacts, OthersPart
<1> HIDE DEF p, q
<1>4. PICK e \in 1 .. Len(p) :
        /\ e \in 1 .. Len(q) /\ SameTo(p, q, e - 1) /\ SameTo(q, p, e - 1)
        /\ p[e].dir = q[e].dir
        /\ \/ p[e].half = 1 /\ q[e].half = 2
           \/ p[e].half = 2 /\ q[e].half = 1
  BY <1>1, <1>3 DEF Parted, LeftOf, SameTo
<1>5. e <= d
  <2> SUFFICES ASSUME d <= e - 1 PROVE FALSE
    BY <1>1, <1>4 DEF p
  <2>1. \A k \in 1 .. d : k \in 1 .. e - 1
    BY <1>1
  <2>2. SameTo(p, q, d)
    BY <1>1, <1>4, <2>1 DEF SameTo
  <2>3. QED
    BY <1>2, <2>2
<1>6. d \in e .. Len(p) /\ Len(q) \in e .. Len(q) /\ p[e].dir \in Axes
  BY <1>1, <1>4, <1>5, PathFacts, AxisOfStep DEF p
<1>7. CASE p[e].half = 1 /\ q[e].half = 2
  BY <1>1, <1>4, <1>6, <1>7, HalvesPrecede DEF Box, p, q
<1>8. CASE p[e].half = 2 /\ q[e].half = 1
  BY <1>1, <1>4, <1>6, <1>8, HalvesPrecede DEF Box, p, q
<1>9. QED
  BY <1>4, <1>7, <1>8

\* No tile is as thin as the tolerance.
Roomy(n) == \A i \in DOMAIN n : \A axis \in Axes : Span(Box(n[i].path), axis) > Eps

\* From either half of a split some key leads into the other half: from the
\* corner where the halves meet, the nearest tile that way is just across.
LEMMA Crossing ==
  ASSUME NEW n, Sound(n), Roomy(n), NEW i \in DOMAIN n, NEW d \in Nat, d < Len(n[i].path)
  PROVE  \E p \in LeavesBelow(n, i, d + 1), key \in MoveDirs :
           \E r \in LeavesBelow(n, i, d) \ LeavesBelow(n, i, d + 1) :
             FindNeighbor(ComputeTiling(n), n[p].id, key) = n[r].id
<1> DEFINE path == n[i].path
           axis == path[d + 1].dir
           h == path[d + 1].half
           b == Other(axis)
           key == Toward(axis, h)
<1>1. /\ path \in Paths /\ Len(path) \in Nat /\ d + 1 \in 1 .. Len(path) /\ d \in 0 .. Len(path)
      /\ d + 1 \in 0 .. Len(path) /\ (d + 1) - 1 = d
      /\ path[d + 1] \in Steps /\ axis \in Axes /\ h \in {1, 2}
  <2>1. path \in Paths /\ Len(path) \in Nat
    BY TreeFacts
  <2>2. d + 1 \in 1 .. Len(path) /\ d \in 0 .. Len(path) /\ d + 1 \in 0 .. Len(path) /\ (d + 1) - 1 = d
    BY <2>1
  <2>3. path[d + 1] \in Steps
    BY <2>2, TreeFacts
  <2>4. QED
    BY <2>1, <2>2, <2>3, AxisOfStep
<1>2. PICK k \in LeavesBelow(n, i, d) : n[k].path[d + 1].half # h
  BY NodeForks
<1> DEFINE other == n[k].path
           R == Rects(path)[d]
           O == Rects(path)[d + 1]
           Q == Rects(other)[d + 1]
<1>3. /\ k \in DOMAIN n /\ other \in Paths /\ Len(other) \in Nat /\ d + 1 \in 1 .. Len(other)
      /\ d + 1 \in 0 .. Len(other) /\ d \in 0 .. Len(other)
      /\ other[d + 1] \in Steps /\ other[d + 1].dir = axis
      /\ other[d + 1].half \in {1, 2} /\ other[d + 1].half # h
  <2>1. k \in DOMAIN n /\ other \in Paths /\ Len(other) \in Nat
    BY TreeFacts DEF LeavesBelow
  <2>2. d + 1 \in 1 .. Len(other) /\ other[d + 1].dir = axis
    BY NodeForks
  <2>3. other[d + 1] \in Steps
    BY <2>1, <2>2, TreeFacts
  <2>4. QED
    BY <1>2, <2>1, <2>2, <2>3, AxisOfStep
<1>4. /\ Sane(R) /\ Sane(O) /\ Sane(Q) /\ R \in Rect /\ O \in Rect /\ Q \in Rect
      /\ O = Half(R, path[d + 1]) /\ Q = Half(R, other[d + 1])
  <2>1. Sane(R) /\ Sane(O) /\ Sane(Q)
    BY <1>1, <1>3, RectsAreSane
  <2>2. O = Half(R, path[d + 1])
    BY <1>1, RectsDefined
  <2>3. Q = Half(Rects(other)[d], other[d + 1])
    BY <1>1, <1>3, RectsDefined
  <2>4. Rects(path)[d] = Rects(other)[d]
    BY <1>1, <1>3, RectsInCommon DEF LeavesBelow
  <2>5. QED
    BY <2>1, <2>2, <2>3, <2>4 DEF Sane
<1>5. b \in Axes /\ b # axis /\ key \in MoveDirs
  BY <1>1, <1>4, KeyLeads
\* The halves meet at the gutter and are aligned across it.
<1>6. /\ End(O, axis, h) + Gutter = Start(Q, axis, h)
      /\ Lo(O, b) = Lo(R, b) /\ Lo(Q, b) = Lo(R, b)
  <2>1. Lo(O, b) = Lo(R, b) /\ Lo(Q, b) = Lo(R, b)
    BY <1>1, <1>3, <1>4, <1>5, HalfIs
  <2>2. Lo(R, axis) \in Int /\ Span(R, axis) \in Int
    BY <1>1, <1>4, Numbers
  <2>3. Share(R, axis) \in Int
    BY <2>2 DEF Share, Gutter
  <2>4. CASE h = 1
    <3>1. /\ Lo(O, axis) = Lo(R, axis) /\ Span(O, axis) = Share(R, axis)
          /\ Lo(Q, axis) = Lo(R, axis) + Share(R, axis) + Gutter
      BY <1>1, <1>3, <1>4, <2>4, HalfIs
    <3> HIDE DEF R, O, Q, axis, h
    <3>2. QED
      BY <2>1, <2>2, <2>3, <2>4, <3>1 DEF Start, End, Gutter
  <2>5. CASE h = 2
    <3>1. /\ Lo(Q, axis) = Lo(R, axis) /\ Span(Q, axis) = Share(R, axis)
          /\ Lo(O, axis) = Lo(R, axis) + Share(R, axis) + Gutter
      BY <1>1, <1>3, <1>4, <2>5, HalfIs
    <3> HIDE DEF R, O, Q, axis, h
    <3>2. QED
      BY <2>1, <2>2, <2>3, <2>5, <3>1 DEF Start, End, Gutter
  <2>6. QED
    BY <1>1, <2>4, <2>5
<1> DEFINE near == [x \in Axes |-> IF x = axis THEN 3 - h ELSE 1]
           far == [x \in Axes |-> IF x = axis THEN h ELSE 1]
<1>7. near \in Corners /\ far \in Corners /\ near[axis] = 3 - h /\ far[axis] = h
      /\ near[b] = 1 /\ far[b] = 1
  BY <1>1, <1>5 DEF Corners
<1>8. PICK p \in LeavesBelow(n, i, d + 1) : KeepsTo(n[p].path, d + 1, near)
  BY <1>1, <1>7, CornerLeaf
<1>9. PICK q \in LeavesBelow(n, k, d + 1) : KeepsTo(n[q].path, d + 1, far)
  BY <1>3, <1>7, CornerLeaf
<1> DEFINE P == Box(n[p].path)
           A == Box(n[q].path)
<1>10. /\ p \in DOMAIN n /\ P \in Rect /\ Touches(P, O, near) /\ Within(P, R)
  <2>1. /\ p \in DOMAIN n /\ n[p].path \in Paths /\ SameTo(path, n[p].path, d + 1)
        /\ Len(n[p].path) \in Nat
    BY TreeFacts DEF LeavesBelow
  <2>2. d + 1 \in 0 .. Len(n[p].path) /\ d \in 0 .. Len(n[p].path)
        /\ d \in 0 .. d + 1 /\ d + 1 \in 0 .. d + 1
    BY <2>1 DEF SameTo
  <2>3. Rects(path)[d + 1] = Rects(n[p].path)[d + 1] /\ Rects(path)[d] = Rects(n[p].path)[d]
    BY <1>1, <2>1, <2>2, RectsInCommon
  <2>4. QED
    BY <1>7, <1>8, <2>1, <2>2, <2>3, CornerRect, BoxFacts DEF Sane
<1>11. /\ q \in DOMAIN n /\ A \in Rect /\ Touches(A, Q, far) /\ Within(A, R)
  <2>1. /\ q \in DOMAIN n /\ n[q].path \in Paths /\ SameTo(other, n[q].path, d + 1)
        /\ Len(n[q].path) \in Nat
    BY TreeFacts DEF LeavesBelow
  <2>2. d + 1 \in 0 .. Len(n[q].path) /\ d \in 0 .. Len(n[q].path)
        /\ d \in 0 .. d + 1 /\ d + 1 \in 0 .. d + 1 /\ d \in 0 .. d
    BY <2>1 DEF SameTo
  <2>3. Rects(other)[d + 1] = Rects(n[q].path)[d + 1] /\ Rects(other)[d] = Rects(n[q].path)[d]
    BY <1>3, <2>1, <2>2, RectsInCommon
  <2>4. R = Rects(other)[d]
    BY <1>1, <1>3, <2>2, RectsInCommon DEF LeavesBelow
  <2>5. QED
    BY <1>7, <1>9, <2>1, <2>2, <2>3, <2>4, CornerRect, BoxFacts DEF Sane
<1>12. /\ \A x \in Axes : Lo(P, x) \in Int /\ Span(P, x) \in Int /\ Span(P, x) > Eps
       /\ \A x \in Axes : Lo(A, x) \in Int /\ Span(A, x) \in Int /\ Span(A, x) > Eps
       /\ \A x \in Axes : Lo(R, x) \in Int /\ Span(R, x) \in Int
       /\ \A x \in Axes : Lo(O, x) \in Int /\ Span(O, x) \in Int
       /\ \A x \in Axes : Lo(Q, x) \in Int /\ Span(Q, x) \in Int
  BY <1>4, <1>10, <1>11, Numbers DEF Roomy
<1> HIDE DEF axis, h, b, key, R, O, Q, P, A, path, other, near, far
<1>13. End(P, axis, h) = End(O, axis, h) /\ Start(A, axis, h) = Start(Q, axis, h)
  <2>1. CASE h = 1
    <3>1. /\ Lo(P, axis) + Span(P, axis) = Lo(O, axis) + Span(O, axis)
          /\ Lo(A, axis) = Lo(Q, axis)
      BY <1>1, <1>7, <1>10, <1>11, <2>1 DEF Touches
    <3>2. QED
      BY <2>1, <3>1 DEF Start, End
  <2>2. CASE h = 2
    <3>1. /\ Lo(P, axis) = Lo(O, axis)
          /\ Lo(A, axis) + Span(A, axis) = Lo(Q, axis) + Span(Q, axis)
      BY <1>1, <1>7, <1>10, <1>11, <2>2 DEF Touches
    <3>2. QED
      BY <2>2, <3>1 DEF Start, End
  <2>3. QED
    BY <1>1, <2>1, <2>2
<1>14. Lo(P, b) = Lo(R, b) /\ Lo(A, b) = Lo(R, b)
  BY <1>5, <1>6, <1>7, <1>10, <1>11 DEF Touches
<1>15. Start(A, axis, h) - End(P, axis, h) = Gutter
  <2>1. End(O, axis, h) \in Int /\ Start(Q, axis, h) \in Int
    BY <1>1, <1>4, StartToEnd
  <2>2. QED
    BY <1>6, <1>13, <2>1 DEF Gutter
<1>16. Beyond(A, P, key) /\ Gap(A, P, key) = Gutter
  <2>1. Overlaps(A, P, b)
    BY <1>5, <1>12, <1>14 DEF Overlaps, Eps
  <2>2. Start(A, axis, h) >= End(P, axis, h) - Eps
    BY <1>1, <1>10, <1>11, <1>15, StartToEnd DEF Gutter, Eps
  <2>3. QED
    BY <1>1, <1>10, <1>11, <1>15, <2>1, <2>2, KeyLeads DEF key, b
<1>17. p # q
  <2>1. A # P
    <3>1. /\ Start(P, axis, h) \in Int /\ End(P, axis, h) = Start(P, axis, h) + Span(P, axis)
          /\ Span(P, axis) \in Int /\ Span(P, axis) > Eps
      BY <1>1, <1>10, <1>12, StartToEnd
    <3>2. QED
      BY <1>15, <3>1 DEF Gutter, Eps
  <2>2. QED
    BY <2>1 DEF A, P
<1>18. PICK r \in DOMAIN n :
         /\ FindNeighbor(ComputeTiling(n), n[p].id, key) = n[r].id
         /\ Beyond(Box(n[r].path), P, key)
         /\ Gap(Box(n[r].path), P, key) <= Gutter
  BY <1>1, <1>10, <1>11, <1>16, <1>17, Chosen DEF key, A, P
<1> DEFINE N == Box(n[r].path)
<1>19. N \in Rect
  BY <1>18, TreeFacts, BoxFacts DEF Sane
<1>20. \A x \in Axes : Lo(N, x) \in Int /\ Span(N, x) \in Int /\ Span(N, x) > Eps
  BY <1>18, <1>19, Numbers DEF Roomy
<1>21. /\ Start(N, axis, h) \in Int /\ End(N, axis, h) = Start(N, axis, h) + Span(N, axis)
       /\ Start(N, axis, h) >= End(P, axis, h) - Eps
       /\ Start(N, axis, h) <= End(P, axis, h) + Gutter
       /\ Overlaps(N, P, b)
  <2>1. /\ Start(N, axis, h) \in Int /\ End(P, axis, h) \in Int
        /\ End(N, axis, h) = Start(N, axis, h) + Span(N, axis)
    BY <1>1, <1>10, <1>19, StartToEnd
  <2>2. /\ Start(N, axis, h) >= End(P, axis, h) - Eps /\ Overlaps(N, P, b)
        /\ Start(N, axis, h) - End(P, axis, h) <= Gutter
    <3> HIDE DEF N
    <3>1. /\ Beyond(N, P, key) /\ Gap(N, P, key) <= Gutter
      BY <1>18 DEF N
    <3>2. QED
      BY <1>1, <1>10, <1>19, <3>1, KeyLeads DEF key, b
  <2>3. QED
    BY <2>1, <2>2 DEF Gutter
\* It is not in the half it is looked for from.
<1>22. r \notin LeavesBelow(n, i, d + 1)
  <2> SUFFICES ASSUME r \in LeavesBelow(n, i, d + 1) PROVE FALSE
    OBVIOUS
  <2>1. /\ n[r].path \in Paths /\ SameTo(path, n[r].path, d + 1) /\ Len(n[r].path) \in Nat
    BY TreeFacts DEF LeavesBelow, path
  <2>2. d + 1 \in 0 .. Len(n[r].path) /\ d + 1 \in 0 .. d + 1
    BY <2>1 DEF SameTo
  <2>3. O = Rects(n[r].path)[d + 1]
    BY <1>1, <2>1, <2>2, RectsInCommon DEF O
  <2>4. Within(N, O)
    BY <2>1, <2>2, <2>3, BoxFacts
  <2> HIDE DEF N
  <2>5. End(N, axis, h) <= End(O, axis, h)
    BY <1>1, <1>4, <1>19, <2>4, WithinLeads
  <2>6. Span(N, axis) \in Int /\ Span(N, axis) > Eps /\ End(P, axis, h) \in Int
    BY <1>1, <1>10, <1>20, StartToEnd
  <2>7. QED
    BY <1>13, <1>21, <2>5, <2>6 DEF Eps
\* Nor is it outside the node: the other half is nearer that way.
<1>23. r \in LeavesBelow(n, i, d)
  <2> SUFFICES ASSUME r \notin LeavesBelow(n, i, d) PROVE FALSE
    OBVIOUS
  <2>1. PICK x \in Axes : Precedes(N, R, x) \/ Precedes(R, N, x)
    BY <1>1, <1>18, NodeApart DEF R, path
  <2> HIDE DEF N
  <2>2. CASE x = b
    <3>1. /\ Lo(P, b) + Span(P, b) <= Lo(R, b) + Span(R, b) /\ Lo(R, b) <= Lo(P, b)
      BY <1>5, <1>10 DEF Within
    <3>2. /\ Lo(P, b) \in Int /\ Span(P, b) \in Int /\ Lo(N, b) \in Int /\ Span(N, b) \in Int
          /\ Lo(R, b) \in Int /\ Span(R, b) \in Int
      BY <1>5, <1>12, <1>20
    <3>3. \/ Lo(N, b) + Span(N, b) + Gutter <= Lo(R, b)
          \/ Lo(R, b) + Span(R, b) + Gutter <= Lo(N, b)
      BY <2>1, <2>2 DEF Precedes
    <3>4. /\ Lo(N, b) < Lo(P, b) + Span(P, b) - Eps
          /\ Lo(N, b) + Span(N, b) > Lo(P, b) + Eps
      BY <1>21 DEF Overlaps
    <3>5. QED
      BY <3>1, <3>2, <3>3, <3>4 DEF Gutter, Eps
  <2>3. CASE x = axis
    <3>1. \/ End(N, axis, h) + Gutter <= Start(R, axis, h)
          \/ End(R, axis, h) + Gutter <= Start(N, axis, h)
      BY <1>1, <1>4, <1>19, <2>1, <2>3, OneIsAhead
    <3>2. Start(R, axis, h) <= Start(P, axis, h) /\ End(A, axis, h) <= End(R, axis, h)
      BY <1>1, <1>4, <1>10, <1>11, WithinLeads
    <3>3. /\ Start(P, axis, h) \in Int /\ Start(A, axis, h) \in Int /\ Start(R, axis, h) \in Int
          /\ End(R, axis, h) \in Int
          /\ End(P, axis, h) = Start(P, axis, h) + Span(P, axis)
          /\ End(A, axis, h) = Start(A, axis, h) + Span(A, axis)
      BY <1>1, <1>4, <1>10, <1>11, StartToEnd
    <3>4. /\ Span(P, axis) \in Int /\ Span(A, axis) \in Int /\ Span(N, axis) \in Int
          /\ Span(P, axis) > Eps /\ Span(A, axis) > Eps /\ Span(N, axis) > Eps
      BY <1>1, <1>12, <1>20
    <3>5. QED
      BY <1>15, <1>21, <3>1, <3>2, <3>3, <3>4 DEF Gutter, Eps
  <2>4. QED
    BY <1>1, <1>5, <2>2, <2>3 DEF Axes, Other
<1>24. QED
  BY <1>5, <1>18, <1>22, <1>23

\* Of a tree of tiles with room for each, every tile is in reach of every other.
LEMMA RoomyTreesAreReachable ==
  ASSUME NEW n, Sound(n), Roomy(n), NoPane \notin Panes(n)
  PROVE  AllReachable(n)
<1> DEFINE tiling == ComputeTiling(n)
<1> SUFFICES ASSUME NEW part \in (SUBSET Panes(n)) \ {{}, Panes(n)},
                    \A p \in part, key \in MoveDirs :
                      FindNeighbor(tiling, p, key) \in part \cup {NoPane}
             PROVE  FALSE
  BY DEF AllReachable
<1> DEFINE Some(i, d) == \E j \in LeavesBelow(n, i, d) : n[j].id \in part
           All(i, d) == \A j \in LeavesBelow(n, i, d) : n[j].id \in part
           S == {x \in (DOMAIN n) \X Nat : Some(x[1], x[2]) => All(x[1], x[2])}
<1>0. \A i \in DOMAIN n, d \in Nat : <<i, d>> \in S <=> (Some(i, d) => All(i, d))
  <2> HIDE DEF Some, All
  <2>1. QED
    OBVIOUS
<1> HIDE DEF S
<1>1. ASSUME NEW i \in DOMAIN n, NEW d \in 0 .. Len(n[i].path),
             \A j \in LeavesBelow(n, i, d) : d < Len(n[j].path) => <<j, d + 1>> \in S
      PROVE  <<i, d>> \in S
  <2>0. Len(n[i].path) \in Nat /\ d \in Nat /\ d + 1 \in Nat
    BY TreeFacts
  <2> SUFFICES ASSUME NEW j \in LeavesBelow(n, i, d), n[j].id \in part,
                      NEW k \in LeavesBelow(n, i, d)
               PROVE  n[k].id \in part
    BY <1>0, <2>0
  <2>1. CASE d = Len(n[i].path)
    <3>1. ASSUME NEW m \in LeavesBelow(n, i, d), m # i PROVE FALSE
      <4> DEFINE p == n[i].path
                 q == n[m].path
      <4>1. /\ m \in DOMAIN n /\ Parted(p, q) /\ Len(p) \in Nat /\ Len(q) \in Nat
            /\ DOMAIN p = 1 .. Len(p) /\ DOMAIN q = 1 .. Len(q)
            /\ \A l \in 1 .. Len(p) : p[l] = q[l]
        BY <2>1, <3>1, TreeFacts, OthersPart DEF LeavesBelow, SameTo
      <4> HIDE DEF p, q
      <4>2. PICK e \in 1 .. Len(p) : p[e].half # q[e].half
        BY <4>1 DEF Parted, LeftOf
      <4>3. QED
        BY <4>1, <4>2
    <3>2. QED
      BY <3>1
  <2>2. CASE d < Len(n[i].path)
    \* The half the tile is in is taken whole,
    <3>1. ASSUME NEW m \in LeavesBelow(n, i, d), n[m].id \in part
          PROVE  /\ m \in DOMAIN n /\ d < Len(n[m].path) /\ LeavesBelow(n, m, d) = LeavesBelow(n, i, d)
                 /\ \A l \in LeavesBelow(n, m, d + 1) : n[l].id \in part
      <4>1. m \in DOMAIN n /\ d < Len(n[m].path)
        <5>1. m \in DOMAIN n /\ Len(n[m].path) \in Nat /\ d + 1 \in 1 .. Len(n[m].path)
          BY <2>0, <2>2, NodeForks, TreeFacts DEF LeavesBelow
        <5>2. QED
          BY <2>0, <5>1
      <4>2. <<m, d + 1>> \in S
        BY <1>1, <4>1
      <4>3. m \in LeavesBelow(n, m, d + 1)
        <5>1. d + 1 <= Len(n[m].path)
          BY <2>0, <4>1, TreeFacts
        <5>2. QED
          BY <4>1, <5>1 DEF LeavesBelow, SameTo
      <4>4. LeavesBelow(n, m, d) = LeavesBelow(n, i, d)
        BY <3>1 DEF LeavesBelow, SameTo
      <4>5. QED
        BY <1>0, <2>0, <3>1, <4>1, <4>2, <4>3, <4>4
    \* some key leads from it into the other half,
    <3>2. PICK p \in LeavesBelow(n, j, d + 1), key \in MoveDirs,
               r \in LeavesBelow(n, j, d) \ LeavesBelow(n, j, d + 1) :
            FindNeighbor(tiling, n[p].id, key) = n[r].id
      <4>1. j \in DOMAIN n /\ d < Len(n[j].path)
        BY <3>1
      <4> HIDE DEF tiling
      <4>2. QED
        BY <2>0, <4>1, Crossing DEF tiling
    <3>3. n[r].id \in part
      <4>1. n[p].id \in part
        BY <3>1
      <4>2. n[r].id # NoPane
        BY DEF Panes, LeavesBelow
      <4>3. QED
        BY <3>2, <4>1, <4>2
    \* and that one is taken whole too.
    <3>4. r \in LeavesBelow(n, i, d)
      BY <3>1
    <3>5. n[j].path[d + 1].half # n[r].path[d + 1].half
      BY <2>0, <2>2, <3>4, SameHalf
    <3>6. \A m \in LeavesBelow(n, i, d) : n[m].path[d + 1].half \in {1, 2}
      <4> TAKE m \in LeavesBelow(n, i, d)
      <4>1. m \in DOMAIN n /\ d + 1 \in 1 .. Len(n[m].path)
        BY <2>0, <2>2, NodeForks DEF LeavesBelow
      <4>2. n[m].path[d + 1] \in Steps
        BY <4>1, TreeFacts
      <4>3. QED
        BY <4>2, AxisOfStep
    <3>7. \/ n[j].path[d + 1].half = n[k].path[d + 1].half
          \/ n[r].path[d + 1].half = n[k].path[d + 1].half
      BY <3>4, <3>5, <3>6
    <3>8. k \in LeavesBelow(n, j, d + 1) \/ k \in LeavesBelow(n, r, d + 1)
      BY <2>0, <2>2, <3>4, <3>7, SameHalf
    <3>9. QED
      BY <3>1, <3>3, <3>4, <3>8
  <2>3. QED
    BY <2>0, <2>1, <2>2
<1>2. \A i \in DOMAIN n : \A d \in 0 .. Len(n[i].path) : <<i, d>> \in S
  BY <1>1, NodeInduction
<1>3. PICK i \in DOMAIN n : n[i].id \in part
  BY DEF Panes
<1>4. 0 \in 0 .. Len(n[i].path) /\ LeavesBelow(n, i, 0) = DOMAIN n
  <2>1. \A j \in DOMAIN n : Len(n[j].path) \in Nat
    BY TreeFacts
  <2>2. \A j \in DOMAIN n : SameTo(n[i].path, n[j].path, 0)
    BY <2>1 DEF SameTo
  <2>3. LeavesBelow(n, i, 0) = DOMAIN n
    BY <2>2 DEF LeavesBelow
  <2>4. QED
    BY <2>1, <2>3
<1>5. All(i, 0)
  BY <1>0, <1>2, <1>3, <1>4
<1>6. part = Panes(n)
  BY <1>4, <1>5 DEF Panes
<1>7. QED
  BY <1>6

-----------------------------------------------------------------------------
\* After any sequence of events, as long as no visible tile is as thin as the
\* tolerance of findNeighborRect, the focus keys reach every tile from every
\* other one: KeysReachEveryTile, in whatever viewport and for however many tiles.
THEOREM KeysReachWhereThereIsRoom ==
  Spec => [](Roomy(LayoutOf(Current)) => KeysReachEveryTile)
<1>1. WMInv => (Roomy(LayoutOf(Current)) => KeysReachEveryTile)
  <2> SUFFICES ASSUME WMInv, Roomy(LayoutOf(Current)) PROVE KeysReachEveryTile
    OBVIOUS
  <2>1. Sound(LayoutOf(Current)) /\ NoPane \notin Panes(LayoutOf(Current))
    BY Shown, BoundsAssumption
  <2>2. QED
    BY <2>1, RoomyTreesAreReachable DEF KeysReachEveryTile
<1>2. QED
  BY <1>1, WMCorrect, PTL

-----------------------------------------------------------------------------
(* How much room it takes.                                                 *)

\* A leaf is no deeper than there are other tiles: one of them is in the other
\* half of each split on its way.
LEMMA ShallowTrees ==
  ASSUME NEW n, Sound(n), IsFiniteSet(Pane), Panes(n) \subseteq Pane, NEW i \in DOMAIN n
  PROVE  Len(n[i].path) <= Cardinality(Pane) - 1
<1> DEFINE path == n[i].path
           others == Pane \ {n[i].id}
           beside == [d \in 1 .. Len(path) |-> CHOOSE j \in DOMAIN n : Beside(path, n[j].path, d)]
           f == [d \in 1 .. Len(path) |-> n[beside[d]].id]
<1>1. /\ Len(path) \in Nat /\ DOMAIN path = 1 .. Len(path) /\ n[i].id \in Pane
      /\ \A j \in DOMAIN n : n[j].id \in Pane
  BY TreeFacts DEF Panes
<1>2. ASSUME NEW d \in 1 .. Len(path)
      PROVE  beside[d] \in DOMAIN n /\ Beside(path, n[beside[d]].path, d)
  <2>1. \E j \in DOMAIN n : Beside(path, n[j].path, d)
    BY <1>1, TreeFacts DEF Tree
  <2>2. QED
    BY <2>1
<1> HIDE DEF beside
<1>3. f \in [1 .. Len(path) -> others]
  <2> SUFFICES ASSUME NEW d \in 1 .. Len(path) PROVE n[beside[d]].id \in others
    OBVIOUS
  <2>1. beside[d] # i
    BY <1>2 DEF Beside
  <2>2. n[beside[d]].id # n[i].id
    BY <1>2, <2>1 DEF Sound, Distinct
  <2>3. QED
    BY <1>1, <1>2, <2>2
<1>4. ASSUME NEW d \in 1 .. Len(path), NEW e \in 1 .. Len(path), f[d] = f[e], d < e PROVE FALSE
  <2>1. n[beside[d]].id = n[beside[e]].id
    BY <1>4
  <2>2. beside[d] = beside[e]
    BY <1>2, <2>1 DEF Sound, Distinct
  <2> DEFINE q == n[beside[d]].path
  <2>3. q[d].half # path[d].half /\ SameTo(path, q, e - 1)
    BY <1>2, <2>2 DEF Beside
  <2>4. d \in 1 .. e - 1
    BY <1>4
  <2> HIDE DEF q, path
  <2>5. q[d] = path[d]
    BY <2>3, <2>4 DEF SameTo
  <2>6. QED
    BY <2>3, <2>5
<1>5. IsFiniteSet(others) /\ Cardinality(others) = Cardinality(Pane) - 1
  BY <1>1, FS_RemoveElement
<1>6. IsFiniteSet(1 .. Len(path)) /\ Cardinality(1 .. Len(path)) = Len(path)
  BY <1>1, FS_Interval
<1>7. Cardinality(others) \in Nat
  BY <1>5, FS_CardinalityType
<1> HIDE DEF f, others, path
<1>8. ~(Cardinality(others) < Len(path))
  <2> SUFFICES ASSUME Cardinality(others) < Len(path) PROVE FALSE
    OBVIOUS
  <2>1. PICK d \in 1 .. Len(path), e \in 1 .. Len(path) : d # e /\ f[d] = f[e]
    BY <1>3, <1>5, <1>6, FS_PigeonHole
  <2>2. d < e \/ e < d
    BY <1>1, <2>1
  <2>3. QED
    BY <1>4, <2>1, <2>2
<1>9. QED
  BY <1>1, <1>5, <1>7, <1>8 DEF path

\* The viewport can be halved so many times and still leave more than the tolerance.
Affords(depth) ==
  \E room \in [0 .. depth -> Nat] :
    /\ room[0] <= ViewW /\ room[0] <= ViewH
    /\ \A k \in 1 .. depth : 2 * room[k] + Gutter <= room[k - 1]
    /\ \A k \in 0 .. depth : Eps < room[k]

LEMMA EnoughIsLeft ==
  ASSUME NEW span \in Int, NEW m \in Nat, 2 * m + Gutter <= span
  PROVE  LET share == (span - Gutter) \div 2
         IN  m <= share /\ m <= span - share - Gutter
<1> DEFINE share == (span - Gutter) \div 2
<1>1. share \in Int /\ 2 * share <= span - Gutter /\ span - Gutter < 2 * share + 2
  BY DEF Gutter
<1> HIDE DEF share
<1>2. m <= share /\ m <= span - share - Gutter
  BY <1>1 DEF Gutter
<1>3. QED
  BY <1>2 DEF share

LEMMA RoomLasts ==
  ASSUME NEW depth \in Nat, NEW room \in [0 .. depth -> Nat],
         room[0] <= ViewW, room[0] <= ViewH,
         \A k \in 1 .. depth : 2 * room[k] + Gutter <= room[k - 1],
         NEW path \in Paths, Len(path) <= depth
  PROVE  \A k \in 0 .. Len(path) : \A axis \in Axes : room[k] <= Span(Rects(path)[k], axis)
<1> DEFINE S == {k \in Nat : k <= Len(path) =>
                   \A axis \in Axes : room[k] <= Span(Rects(path)[k], axis)}
<1>0. Len(path) \in Nat
  BY PathFacts
<1>1. 0 \in S
  BY RectsDefined DEF Viewport, Span
<1>2. ASSUME NEW k \in Nat, k \in S PROVE k + 1 \in S
  <2> SUFFICES ASSUME k + 1 <= Len(path), NEW axis \in Axes
               PROVE  room[k + 1] <= Span(Rects(path)[k + 1], axis)
    OBVIOUS
  <2> DEFINE r == Rects(path)[k]
             q == Rects(path)[k + 1]
             step == path[k + 1]
             need == room[k]
             next == room[k + 1]
  <2>1. /\ k + 1 \in 1 .. Len(path) /\ (k + 1) - 1 = k /\ k <= Len(path) /\ k + 1 \in 1 .. depth
        /\ k \in 0 .. depth /\ k + 1 \in 0 .. depth /\ k \in 0 .. Len(path)
    BY <1>0
  <2>2. Sane(r) /\ q = Half(r, step) /\ step \in Steps /\ step.dir \in Axes /\ step.half \in {1, 2}
    BY <2>1, RectsDefined, RectsAreSane, PathFacts, AxisOfStep
  <2>3. need \in Nat /\ next \in Nat /\ 2 * next + Gutter <= need
    BY <2>1
  <2>4. need <= Span(r, axis) /\ Span(r, axis) \in Int
    BY <1>2, <2>1, <2>2, Numbers DEF Sane
  <2> HIDE DEF r, q, step, need, next
  <2>5. CASE axis # step.dir
    <3>1. Span(q, axis) = Span(r, axis)
      BY <2>2, <2>5, HalfIs
    <3>2. next <= Span(q, axis)
      BY <2>3, <2>4, <3>1 DEF Gutter
    <3>3. QED
      BY <3>2 DEF next, q
  <2>6. CASE axis = step.dir
    <3>1. \/ Span(q, axis) = Share(r, axis)
          \/ Span(q, axis) = Span(r, axis) - Share(r, axis) - Gutter
      BY <2>2, <2>6, HalfIs
    <3>2. next <= Share(r, axis) /\ next <= Span(r, axis) - Share(r, axis) - Gutter
      <4>1. 2 * next + Gutter <= Span(r, axis)
        BY <2>3, <2>4 DEF Gutter
      <4>2. QED
        BY <2>3, <2>4, <4>1, EnoughIsLeft DEF Share
    <3>3. next <= Span(q, axis)
      BY <3>1, <3>2
    <3>4. QED
      BY <3>3 DEF next, q
  <2>7. QED
    BY <2>5, <2>6
<1>3. \A k \in Nat : k \in S
  <2> HIDE DEF S
  <2>1. QED
    BY <1>1, <1>2, SetInduction
<1>4. QED
  BY <1>0, <1>3

\* In a viewport that affords as many halvings as there are other tiles, the
\* focus keys always reach every tile: KeysReachEveryTile.
THEOREM KeysAlwaysReachEveryTile ==
  ASSUME IsFiniteSet(Pane), Affords(Cardinality(Pane) - 1)
  PROVE  Spec => []KeysReachEveryTile
<1>1. Cardinality(Pane) - 1 \in Nat
  BY BoundsAssumption, FS_CardinalityType, FS_EmptySet
<1>2. ASSUME NEW n, Sound(n), Panes(n) \subseteq Pane PROVE Roomy(n)
  <2> SUFFICES ASSUME NEW i \in DOMAIN n, NEW axis \in Axes
               PROVE  Span(Box(n[i].path), axis) > Eps
    BY DEF Roomy
  <2> DEFINE depth == Cardinality(Pane) - 1
             path == n[i].path
  <2>1. PICK room \in [0 .. depth -> Nat] :
          /\ room[0] <= ViewW /\ room[0] <= ViewH
          /\ \A k \in 1 .. depth : 2 * room[k] + Gutter <= room[k - 1]
          /\ \A k \in 0 .. depth : Eps < room[k]
    BY DEF Affords
  <2>2. path \in Paths /\ Len(path) \in Nat /\ Len(path) <= depth
    BY <1>2, TreeFacts, ShallowTrees
  <2>3. Len(path) \in 0 .. Len(path) /\ Len(path) \in 0 .. depth
    BY <1>1, <2>2
  <2> HIDE DEF depth, path
  <2>4. room[Len(path)] <= Span(Rects(path)[Len(path)], axis)
    BY <1>1, <2>1, <2>2, <2>3, RoomLasts DEF depth
  <2>5. Span(Rects(path)[Len(path)], axis) \in Int
    BY <2>2, <2>3, RectsAreSane, Numbers DEF Sane
  <2>6. room[Len(path)] \in Nat /\ Eps < room[Len(path)]
    BY <2>1, <2>3
  <2>7. QED
    BY <2>4, <2>5, <2>6 DEF Box, Eps, path
<1>3. WMInv => Roomy(LayoutOf(Current))
  <2>1. WMInv => Sound(LayoutOf(Current)) /\ Panes(LayoutOf(Current)) \subseteq Pane
    BY Shown
  <2>2. QED
    BY <1>2, <2>1
<1>4. QED
  BY <1>3, WMCorrect, KeysReachWhereThereIsRoom, PTL

=============================================================================
