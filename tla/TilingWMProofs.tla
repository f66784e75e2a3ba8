--------------------------- MODULE TilingWMProofs ---------------------------
(***************************************************************************)
(* The tiling window manager, for any set of tiles and tile types and any  *)
(* number of spaces: the layouts stay trees of distinct tiles, the list of *)
(* spaces and focus mode stay in step, no tile is lost, and focus mode     *)
(* gives back what it borrowed.                                            *)
(***************************************************************************)
EXTENDS TilingWMProps, SequenceTheorems, TLAPS

-----------------------------------------------------------------------------
(* One element less, one element more.                                     *)

LEMMA Removing ==
  ASSUME NEW S, NEW s \in Seq(S), NEW k \in 1 .. Len(s)
  PROVE  /\ RemoveAt(s, k) \in Seq(S)
         /\ Len(RemoveAt(s, k)) = Len(s) - 1
         /\ \A i \in 1 .. Len(s) - 1 : RemoveAt(s, k)[i] = IF i < k THEN s[i] ELSE s[i + 1]
<1>0. Len(s) \in Nat /\ k \in Int /\ \A i \in 1 .. Len(s) : s[i] \in S
  BY LenProperties, ElementOfSeq
<1> DEFINE front == SubSeq(s, 1, k - 1)
           back == SubSeq(s, k + 1, Len(s))
<1>1. /\ front \in Seq(S) /\ Len(front) = k - 1
      /\ \A i \in 1 .. k - 1 : front[i] = s[i]
  <2>1. \A i \in 1 .. k - 1 : s[i] \in S
    BY <1>0
  <2>2. k - 1 \in Int /\ 1 \in Int
    BY <1>0
  <2> HIDE DEF front
  <2>3. /\ front \in Seq(S)
        /\ Len(front) = IF 1 <= k - 1 THEN k - 1 - 1 + 1 ELSE 0
        /\ \A i \in 1 .. k - 1 - 1 + 1 : front[i] = s[1 + i - 1]
    BY <2>1, <2>2, SubSeqProperties DEF front
  <2>4. QED
    BY <1>0, <2>3
<1>2. /\ back \in Seq(S) /\ Len(back) = Len(s) - k
      /\ \A i \in 1 .. Len(s) - k : back[i] = s[k + i]
  <2>1. \A i \in k + 1 .. Len(s) : s[i] \in S
    BY <1>0
  <2>2. k + 1 \in Int /\ Len(s) \in Int
    BY <1>0
  <2> HIDE DEF back
  <2>3. /\ back \in Seq(S)
        /\ Len(back) = IF k + 1 <= Len(s) THEN Len(s) - (k + 1) + 1 ELSE 0
        /\ \A i \in 1 .. Len(s) - (k + 1) + 1 : back[i] = s[(k + 1) + i - 1]
    BY <2>1, <2>2, SubSeqProperties DEF back
  <2>4. QED
    BY <1>0, <2>3
<1>3. RemoveAt(s, k) = front \o back
  BY DEF RemoveAt
<1> HIDE DEF front, back
<1>4. /\ front \o back \in Seq(S)
      /\ Len(front \o back) = Len(front) + Len(back)
      /\ \A i \in 1 .. Len(front) + Len(back) :
           (front \o back)[i] = IF i <= Len(front) THEN front[i] ELSE back[i - Len(front)]
  BY <1>1, <1>2, ConcatProperties
<1>5. QED
  BY <1>0, <1>1, <1>2, <1>3, <1>4

\* (The conclusion has a name so that it can be cited for one insertion without
\* the provers trying it on the result, and on the result of that.)
Inserted(r, S, s, k, e) ==
  /\ r \in Seq(S) /\ Len(r) = Len(s) + 1
  /\ \A i \in 1 .. Len(s) + 1 : r[i] = IF i < k THEN s[i] ELSE IF i = k THEN e ELSE s[i - 1]

LEMMA Inserting ==
  ASSUME NEW S, NEW s \in Seq(S), NEW k \in 1 .. Len(s) + 1, NEW e \in S
  PROVE  Inserted(InsertAt(s, k, e), S, s, k, e)
<1>0. Len(s) \in Nat /\ k \in Int /\ \A i \in 1 .. Len(s) : s[i] \in S
  BY LenProperties, ElementOfSeq
<1> DEFINE front == SubSeq(s, 1, k - 1)
           back == SubSeq(s, k, Len(s))
           middle == << e >>
<1>1. /\ front \in Seq(S) /\ Len(front) = k - 1
      /\ \A i \in 1 .. k - 1 : front[i] = s[i]
  <2>1. \A i \in 1 .. k - 1 : s[i] \in S
    BY <1>0
  <2>2. k - 1 \in Int /\ 1 \in Int
    BY <1>0
  <2> HIDE DEF front
  <2>3. /\ front \in Seq(S)
        /\ Len(front) = IF 1 <= k - 1 THEN k - 1 - 1 + 1 ELSE 0
        /\ \A i \in 1 .. k - 1 - 1 + 1 : front[i] = s[1 + i - 1]
    BY <2>1, <2>2, SubSeqProperties DEF front
  <2>4. QED
    BY <1>0, <2>3
<1>2. /\ back \in Seq(S) /\ Len(back) = Len(s) - k + 1
      /\ \A i \in 1 .. Len(s) - k + 1 : back[i] = s[k + i - 1]
  <2>1. \A i \in k .. Len(s) : s[i] \in S
    BY <1>0
  <2>2. k \in Int /\ Len(s) \in Int
    BY <1>0
  <2> HIDE DEF back
  <2>3. /\ back \in Seq(S)
        /\ Len(back) = IF k <= Len(s) THEN Len(s) - k + 1 ELSE 0
        /\ \A i \in 1 .. Len(s) - k + 1 : back[i] = s[k + i - 1]
    BY <2>1, <2>2, SubSeqProperties DEF back
  <2>4. QED
    BY <1>0, <2>3
<1>3. middle \in Seq(S) /\ Len(middle) = 1 /\ middle[1] = e
  OBVIOUS
<1>4. InsertAt(s, k, e) = (front \o middle) \o back
  BY DEF InsertAt
<1> HIDE DEF front, middle, back
<1>5. /\ front \o middle \in Seq(S)
      /\ Len(front \o middle) = Len(front) + Len(middle)
      /\ \A i \in 1 .. Len(front) + Len(middle) :
           (front \o middle)[i] = IF i <= Len(front) THEN front[i] ELSE middle[i - Len(front)]
  BY <1>1, <1>3, ConcatProperties
<1> DEFINE head == front \o middle
<1>6. /\ head \in Seq(S) /\ Len(head) = k
      /\ \A i \in 1 .. k : head[i] = IF i < k THEN s[i] ELSE e
  BY <1>0, <1>1, <1>3, <1>5
<1> HIDE DEF head
<1>7. /\ head \o back \in Seq(S)
      /\ Len(head \o back) = Len(head) + Len(back)
      /\ \A i \in 1 .. Len(head) + Len(back) :
           (head \o back)[i] = IF i <= Len(head) THEN head[i] ELSE back[i - Len(head)]
  BY <1>2, <1>6, ConcatProperties
<1>8. InsertAt(s, k, e) = head \o back
  BY <1>4 DEF head
<1> DEFINE r == InsertAt(s, k, e)
<1> HIDE DEF r
<1>9. r = head \o back
  BY <1>8 DEF r
<1>10. /\ r \in Seq(S) /\ Len(r) = Len(s) + 1
       /\ \A i \in 1 .. Len(s) + 1 : r[i] = IF i < k THEN s[i] ELSE IF i = k THEN e ELSE s[i - 1]
  BY <1>0, <1>2, <1>6, <1>7, <1>9
<1>11. QED
  BY <1>10 DEF r, Inserted

-----------------------------------------------------------------------------
(* Paths.                                                                  *)

Paths == Seq(Steps)
Parted(p, q) == LeftOf(p, q) \/ LeftOf(q, p)

LEMMA PathFacts ==
  ASSUME NEW p \in Paths
  PROVE  /\ Len(p) \in Nat /\ DOMAIN p = 1 .. Len(p)
         /\ \A k \in 1 .. Len(p) : /\ p[k] \in Steps
                                   /\ p[k].half \in {1, 2}
<1>1. /\ Len(p) \in Nat /\ DOMAIN p = 1 .. Len(p)
      /\ \A k \in 1 .. Len(p) : p[k] \in Steps
  BY LenProperties, ElementOfSeq DEF Paths
<1>2. \A step \in Steps : step.half \in {1, 2}
  BY DEF Steps
<1>3. QED
  BY <1>1, <1>2

\* One step more at the end of a path changes nothing on the way.
LEMMA LongerPath ==
  ASSUME NEW p \in Paths, NEW q \in Paths, NEW step \in Steps
  PROVE  /\ Append(p, step) \in Paths
         /\ Len(Append(p, step)) = Len(p) + 1
         /\ LeftOf(p, q) => LeftOf(Append(p, step), q)
         /\ LeftOf(q, p) => LeftOf(q, Append(p, step))
         /\ \A d \in 1 .. Len(p) : Beside(p, q, d) => Beside(Append(p, step), q, d)
         /\ \A d \in 1 .. Len(q) : Beside(q, p, d) => Beside(q, Append(p, step), d)
<1> DEFINE longer == Append(p, step)
<1>1. /\ longer \in Paths /\ Len(longer) = Len(p) + 1
      /\ \A k \in 1 .. Len(p) : longer[k] = p[k]
  BY AppendProperties DEF Paths
<1>2. /\ DOMAIN longer = 1 .. Len(p) + 1 /\ DOMAIN p = 1 .. Len(p)
      /\ DOMAIN q = 1 .. Len(q) /\ Len(p) \in Nat /\ Len(q) \in Nat
  BY <1>1, PathFacts
<1> HIDE DEF longer
<1>3. \A d \in 1 .. Len(p) + 1 :
        /\ SameTo(p, q, d - 1) => SameTo(longer, q, d - 1)
        /\ SameTo(q, p, d - 1) => SameTo(q, longer, d - 1)
  BY <1>1, <1>2 DEF SameTo
<1>4. ASSUME LeftOf(p, q) PROVE LeftOf(longer, q)
  <2>1. PICK d \in 1 .. Len(p) :
          /\ d \in 1 .. Len(q) /\ SameTo(p, q, d - 1)
          /\ p[d].dir = q[d].dir /\ p[d].half = 1 /\ q[d].half = 2
    BY <1>2, <1>4 DEF LeftOf
  <2>2. d \in DOMAIN longer \cap DOMAIN q /\ longer[d] = p[d] /\ SameTo(longer, q, d - 1)
    BY <1>1, <1>2, <1>3, <2>1
  <2>3. QED
    BY <2>1, <2>2 DEF LeftOf
<1>5. ASSUME LeftOf(q, p) PROVE LeftOf(q, longer)
  <2>1. PICK d \in 1 .. Len(p) :
          /\ d \in 1 .. Len(q) /\ SameTo(q, p, d - 1)
          /\ q[d].dir = p[d].dir /\ q[d].half = 1 /\ p[d].half = 2
    BY <1>2, <1>5 DEF LeftOf
  <2>2. d \in DOMAIN q \cap DOMAIN longer /\ longer[d] = p[d] /\ SameTo(q, longer, d - 1)
    BY <1>1, <1>2, <1>3, <2>1
  <2>3. QED
    BY <2>1, <2>2 DEF LeftOf
<1>6. \A d \in 1 .. Len(p) : Beside(p, q, d) => Beside(longer, q, d)
  BY <1>1, <1>2, <1>3 DEF Beside
<1>7. \A d \in 1 .. Len(q) : Beside(q, p, d) => Beside(q, longer, d)
  BY <1>1, <1>2, <1>3 DEF Beside
<1>8. QED
  BY <1>1, <1>4, <1>5, <1>6, <1>7 DEF longer

\* The two halves of a new split part at its depth.
LEMMA TwoHalves ==
  ASSUME NEW p \in Paths, NEW dir \in {"horizontal", "vertical"}
  PROVE  LET first == Append(p, [dir |-> dir, half |-> 1])
             second == Append(p, [dir |-> dir, half |-> 2])
         IN  /\ LeftOf(first, second)
             /\ Beside(first, second, Len(p) + 1) /\ Beside(second, first, Len(p) + 1)
<1> DEFINE a == [dir |-> dir, half |-> 1]
           b == [dir |-> dir, half |-> 2]
           first == Append(p, a)
           second == Append(p, b)
<1>1. a \in Steps /\ b \in Steps /\ a.dir = b.dir /\ a.half = 1 /\ b.half = 2
  BY DEF Steps
<1> HIDE DEF a, b
<1>2. /\ first \in Paths /\ Len(first) = Len(p) + 1
      /\ \A k \in 1 .. Len(p) : first[k] = p[k]
      /\ first[Len(p) + 1] = a
  BY <1>1, AppendProperties DEF Paths
<1>3. /\ second \in Paths /\ Len(second) = Len(p) + 1
      /\ \A k \in 1 .. Len(p) : second[k] = p[k]
      /\ second[Len(p) + 1] = b
  BY <1>1, AppendProperties DEF Paths
<1>4. Len(p) \in Nat
  BY PathFacts
<1>5. DOMAIN first = 1 .. Len(p) + 1 /\ DOMAIN second = 1 .. Len(p) + 1
  BY <1>2, <1>3, PathFacts
<1> HIDE DEF first, second
<1>6. SameTo(first, second, Len(p)) /\ SameTo(second, first, Len(p))
  BY <1>2, <1>3, <1>4 DEF SameTo
<1>7. (Len(p) + 1) - 1 = Len(p) /\ Len(p) + 1 \in 1 .. Len(p) + 1
  BY <1>4
<1>8. LeftOf(first, second)
  BY <1>1, <1>2, <1>3, <1>5, <1>6, <1>7 DEF LeftOf
<1>9. Beside(first, second, Len(p) + 1) /\ Beside(second, first, Len(p) + 1)
  BY <1>1, <1>2, <1>3, <1>5, <1>6, <1>7 DEF Beside
<1>10. QED
  BY <1>8, <1>9 DEF first, second, a, b

(* What CloseAt does to the path q of a leaf when the leaf at c goes: a path *)
(* below the split that collapses loses the step into its half.            *)
Under(c, q) == SameTo(c, q, Len(c) - 1)
Cut(c, q) == IF Under(c, q) THEN RemoveAt(q, Len(c)) ELSE q

LEMMA Cutting ==
  ASSUME NEW c \in Paths, NEW q \in Paths, Parted(c, q)
  PROVE  /\ Len(c) \in Nat \ {0}
         /\ Cut(c, q) \in Paths
         /\ ~Under(c, q) => Cut(c, q) = q
         /\ Under(c, q) =>
              /\ Len(c) \in 1 .. Len(q) /\ q[Len(c)].half # c[Len(c)].half
              /\ Len(Cut(c, q)) = Len(q) - 1
              /\ \A k \in 1 .. Len(q) - 1 :
                   Cut(c, q)[k] = IF k < Len(c) THEN q[k] ELSE q[k + 1]
<1>1. /\ Len(c) \in Nat /\ DOMAIN c = 1 .. Len(c)
      /\ Len(q) \in Nat /\ DOMAIN q = 1 .. Len(q)
  BY PathFacts
<1>2. PICK d \in 1 .. Len(c) :
        /\ d \in 1 .. Len(q) /\ c[d].half # q[d].half
  BY <1>1 DEF Parted, LeftOf
<1>3. Len(c) \in Nat \ {0}
  BY <1>1, <1>2
<1>4. CASE Under(c, q)
  <2>0. \A k \in 1 .. Len(c) - 1 : c[k] = q[k]
    BY <1>4 DEF Under, SameTo
  <2>1. d = Len(c)
    <3>1. d \in 1 .. Len(c) - 1 => FALSE
      BY <1>2, <2>0
    <3>2. d \in Nat /\ 1 <= d /\ d <= Len(c) /\ Len(c) \in Nat
      BY <1>3
    <3>3. d < Len(c) => d \in 1 .. Len(c) - 1
      BY <3>2
    <3>4. QED
      BY <3>1, <3>2, <3>3
  <2>2. Len(c) \in 1 .. Len(q) /\ q[Len(c)].half # c[Len(c)].half
    BY <1>2, <2>1
  <2>3. Cut(c, q) = RemoveAt(q, Len(c))
    BY <1>4 DEF Cut
  <2>4. QED
    BY <1>3, <1>4, <2>2, <2>3, Removing DEF Paths
<1>5. CASE ~Under(c, q)
  BY <1>3, <1>5 DEF Cut
<1>6. QED
  BY <1>4, <1>5

\* Of two leaves of which one is below the split and the other is not, the
\* paths part above it.
LEMMA OneUnder ==
  ASSUME NEW c \in Paths, NEW q \in Paths, NEW r \in Paths, Len(c) \in Nat \ {0},
         Under(c, q), ~Under(c, r), NEW d \in Nat \ {0},
         SameTo(q, r, d - 1) \/ SameTo(r, q, d - 1), d <= Len(r)
  PROVE  d < Len(c)
<1>1. Len(q) \in Nat /\ Len(r) \in Nat /\ Len(c) \in Nat
  BY PathFacts
<1>2. SUFFICES ASSUME d >= Len(c) PROVE FALSE
  BY <1>1
<1>3. \A k \in 1 .. Len(c) - 1 : q[k] = r[k]
  BY <1>1, <1>2 DEF SameTo
<1>4. QED
  BY <1>1, <1>2, <1>3 DEF Under, SameTo

\* The order of two leaves survives the collapse.
LEMMA CutKeepsOrder ==
  ASSUME NEW c \in Paths, NEW q \in Paths, NEW r \in Paths,
         Parted(c, q), Parted(c, r), LeftOf(q, r)
  PROVE  LeftOf(Cut(c, q), Cut(c, r))
<1> DEFINE D == Len(c)
           u == Cut(c, q)
           v == Cut(c, r)
<1>1. /\ Len(q) \in Nat /\ DOMAIN q = 1 .. Len(q) /\ Len(r) \in Nat /\ DOMAIN r = 1 .. Len(r)
      /\ D \in Nat \ {0} /\ u \in Paths /\ v \in Paths
  BY PathFacts, Cutting
<1>2. DOMAIN u = 1 .. Len(u) /\ DOMAIN v = 1 .. Len(v) /\ Len(u) \in Nat /\ Len(v) \in Nat
  BY <1>1, PathFacts
<1>3. /\ ~Under(c, q) => u = q
      /\ Under(c, q) => /\ D \in 1 .. Len(q) /\ Len(u) = Len(q) - 1 /\ q[D].half # c[D].half
                        /\ \A k \in 1 .. Len(q) - 1 : u[k] = IF k < D THEN q[k] ELSE q[k + 1]
  BY Cutting
<1>4. /\ ~Under(c, r) => v = r
      /\ Under(c, r) => /\ D \in 1 .. Len(r) /\ Len(v) = Len(r) - 1 /\ r[D].half # c[D].half
                        /\ \A k \in 1 .. Len(r) - 1 : v[k] = IF k < D THEN r[k] ELSE r[k + 1]
  BY Cutting
<1>5. PICK d \in 1 .. Len(q) :
        /\ d \in 1 .. Len(r) /\ SameTo(q, r, d - 1)
        /\ q[d].dir = r[d].dir /\ q[d].half = 1 /\ r[d].half = 2
  BY <1>1 DEF LeftOf
<1>6. \A k \in 1 .. d - 1 : q[k] = r[k]
  BY <1>5 DEF SameTo
<1>7. SUFFICES \E e \in 1 .. Len(u) :
                 /\ e \in 1 .. Len(v) /\ \A k \in 1 .. e - 1 : u[k] = v[k]
                 /\ u[e] = q[d] /\ v[e] = r[d]
  <2>1. PICK e \in 1 .. Len(u) :
          /\ e \in 1 .. Len(v) /\ \A k \in 1 .. e - 1 : u[k] = v[k]
          /\ u[e] = q[d] /\ v[e] = r[d]
    BY <1>7
  <2>2. SameTo(u, v, e - 1)
    BY <1>2, <2>1 DEF SameTo
  <2>3. QED
    BY <1>2, <1>5, <2>1, <2>2 DEF LeftOf
<1> HIDE DEF u, v, D
<1>8. CASE Under(c, q) /\ Under(c, r)
  <2>1. \A k \in 1 .. D - 1 : q[k] = c[k] /\ r[k] = c[k]
    BY <1>8 DEF Under, SameTo, D
  <2>2. q[D].half \in {1, 2} /\ r[D].half \in {1, 2} /\ c[D].half \in {1, 2}
    BY <1>1, <1>3, <1>4, <1>8, PathFacts DEF D
  <2>3. q[D].half = r[D].half
    BY <1>3, <1>4, <1>8, <2>2
  <2>4. d > D
    BY <1>1, <1>5, <2>1, <2>3
  <2>5. d - 1 \in 1 .. Len(u) /\ d - 1 \in 1 .. Len(v)
    BY <1>1, <1>3, <1>4, <1>5, <1>8, <2>4
  <2>6. u[d - 1] = q[d] /\ v[d - 1] = r[d]
    BY <1>1, <1>3, <1>4, <1>5, <1>8, <2>4
  <2>7. \A k \in 1 .. (d - 1) - 1 : u[k] = v[k]
    BY <1>1, <1>3, <1>4, <1>5, <1>6, <1>8, <2>4
  <2>8. QED
    BY <2>5, <2>6, <2>7
<1>9. CASE Under(c, q) /\ ~Under(c, r)
  <2>1. d < D
    BY <1>1, <1>5, <1>9, OneUnder DEF D
  <2>2. d \in 1 .. Len(u) /\ u[d] = q[d] /\ \A k \in 1 .. d - 1 : u[k] = q[k]
    <3>1. d \in 1 .. Len(q) - 1 /\ \A k \in 1 .. d - 1 : k \in 1 .. Len(q) - 1 /\ k < D
      BY <1>1, <1>3, <1>9, <2>1
    <3>2. QED
      BY <1>3, <1>9, <2>1, <3>1
  <2>3. QED
    BY <1>4, <1>5, <1>6, <1>9, <2>2
<1>10. CASE ~Under(c, q) /\ Under(c, r)
  <2>1. d < D
    BY <1>1, <1>5, <1>10, OneUnder DEF D
  <2>2. d \in 1 .. Len(v) /\ v[d] = r[d] /\ \A k \in 1 .. d - 1 : v[k] = r[k]
    <3>1. d \in 1 .. Len(r) - 1 /\ \A k \in 1 .. d - 1 : k \in 1 .. Len(r) - 1 /\ k < D
      BY <1>1, <1>4, <1>10, <2>1
    <3>2. QED
      BY <1>4, <1>10, <2>1, <3>1
  <2>3. QED
    BY <1>3, <1>5, <1>6, <1>10, <2>2
<1>11. CASE ~Under(c, q) /\ ~Under(c, r)
  BY <1>3, <1>4, <1>5, <1>6, <1>11
<1>12. QED
  BY <1>8, <1>9, <1>10, <1>11

\* So does the other half of each split that stays: it is that of the same
\* leaf, or of one beside the closed leaf when the closed one was all of it.
LEMMA CutKeepsOtherHalf ==
  ASSUME NEW c \in Paths, NEW q \in Paths, NEW r \in Paths, Parted(c, q), Parted(c, r),
         NEW d \in 1 .. Len(q)
  PROVE  /\ ~Under(c, q) /\ Beside(q, r, d) => Beside(Cut(c, q), Cut(c, r), d)
         /\ ~Under(c, q) /\ Beside(q, c, d) /\ Under(c, r) => Beside(Cut(c, q), Cut(c, r), d)
         /\ Under(c, q) /\ d < Len(c) =>
              ~Beside(q, c, d) /\ (Beside(q, r, d) => Beside(Cut(c, q), Cut(c, r), d))
         /\ Under(c, q) /\ d > Len(c) =>
              ~Beside(q, c, d) /\ (Beside(q, r, d) => Beside(Cut(c, q), Cut(c, r), d - 1))
<1> DEFINE D == Len(c)
           u == Cut(c, q)
           v == Cut(c, r)
<1>1. /\ Len(q) \in Nat /\ DOMAIN q = 1 .. Len(q) /\ Len(r) \in Nat /\ DOMAIN r = 1 .. Len(r)
      /\ D \in Nat \ {0} /\ DOMAIN c = 1 .. D /\ u \in Paths /\ v \in Paths
  BY PathFacts, Cutting
<1>2. DOMAIN u = 1 .. Len(u) /\ DOMAIN v = 1 .. Len(v) /\ Len(u) \in Nat /\ Len(v) \in Nat
  BY <1>1, PathFacts
<1>3. /\ ~Under(c, q) => u = q
      /\ Under(c, q) => /\ D \in 1 .. Len(q) /\ Len(u) = Len(q) - 1
                        /\ \A k \in 1 .. Len(q) - 1 : u[k] = IF k < D THEN q[k] ELSE q[k + 1]
  BY Cutting
<1>4. /\ ~Under(c, r) => v = r
      /\ Under(c, r) => /\ D \in 1 .. Len(r) /\ Len(v) = Len(r) - 1
                        /\ \A k \in 1 .. Len(r) - 1 : v[k] = IF k < D THEN r[k] ELSE r[k + 1]
  BY Cutting
<1>5. /\ Under(c, q) => \A k \in 1 .. D - 1 : q[k] = c[k]
      /\ Under(c, r) => \A k \in 1 .. D - 1 : r[k] = c[k]
  BY DEF Under, SameTo
<1> HIDE DEF u, v
<1>6. ASSUME ~Under(c, q), Beside(q, r, d) PROVE Beside(u, v, d)
  <2>1. SameTo(q, r, d - 1) /\ d \in 1 .. Len(r) /\ r[d].half # q[d].half
    BY <1>1, <1>6 DEF Beside
  <2>2. CASE Under(c, r)
    <3>1. d < D
      BY <1>1, <1>6, <2>1, <2>2, OneUnder
    <3>2. d \in 1 .. Len(v) /\ \A k \in 1 .. d : v[k] = r[k]
      BY <1>1, <1>4, <2>1, <2>2, <3>1
    <3>3. SameTo(q, v, d - 1)
      BY <1>1, <1>2, <2>1, <3>2 DEF SameTo
    <3>4. d \in DOMAIN v /\ v[d] = r[d]
      BY <1>1, <1>2, <3>2
    <3>5. Beside(q, v, d)
      BY <2>1, <3>3, <3>4 DEF Beside
    <3>6. QED
      BY <1>3, <1>6, <3>5
  <2>3. QED
    BY <1>3, <1>4, <1>6, <2>2
<1>7. ASSUME ~Under(c, q), Beside(q, c, d), Under(c, r) PROVE Beside(u, v, d)
  <2>1. SameTo(q, c, d - 1) /\ d \in 1 .. D /\ c[d].half # q[d].half
    BY <1>1, <1>7 DEF Beside
  <2>2. d < D
    BY <1>1, <1>7, <2>1 DEF Under, SameTo
  <2>3. d \in 1 .. Len(v) /\ \A k \in 1 .. d : v[k] = c[k]
    BY <1>1, <1>4, <1>5, <1>7, <2>1, <2>2
  <2>4. SameTo(q, v, d - 1)
    BY <1>1, <1>2, <2>1, <2>3 DEF SameTo
  <2>5. d \in DOMAIN v /\ v[d] = c[d]
    BY <1>1, <1>2, <2>3
  <2>6. Beside(q, v, d)
    BY <2>1, <2>4, <2>5 DEF Beside
  <2>7. QED
    BY <1>3, <1>7, <2>6
<1>8. ASSUME Under(c, q), d < D
      PROVE  ~Beside(q, c, d) /\ (Beside(q, r, d) => Beside(u, v, d))
  <2>1. q[d] = c[d]
    BY <1>5, <1>8
  <2>2. ~Beside(q, c, d)
    BY <2>1 DEF Beside
  <2>3. ASSUME Beside(q, r, d) PROVE Beside(u, v, d)
    <3>1. SameTo(q, r, d - 1) /\ d \in 1 .. Len(r) /\ r[d].half # q[d].half
      BY <1>1, <2>3 DEF Beside
    <3>2. ~Under(c, r)
      BY <1>1, <1>5, <1>8, <2>1, <3>1
    <3>3. d \in 1 .. Len(u) /\ \A k \in 1 .. d : u[k] = q[k]
      BY <1>1, <1>3, <1>8
    <3>4. SameTo(u, r, d - 1)
      BY <1>1, <1>2, <3>1, <3>3 DEF SameTo
    <3>5. u[d] = q[d] /\ d \in DOMAIN r
      BY <1>1, <3>1, <3>3
    <3>6. Beside(u, r, d)
      BY <3>1, <3>4, <3>5 DEF Beside
    <3>7. QED
      BY <1>4, <3>2, <3>6
  <2>4. QED
    BY <2>2, <2>3
<1>9. ASSUME Under(c, q), d > D
      PROVE  ~Beside(q, c, d) /\ (Beside(q, r, d) => Beside(u, v, d - 1))
  <2>1. ~Beside(q, c, d)
    BY <1>1, <1>9 DEF Beside
  <2>2. ASSUME Beside(q, r, d) PROVE Beside(u, v, d - 1)
    <3>1. SameTo(q, r, d - 1) /\ d \in 1 .. Len(r) /\ r[d].half # q[d].half
      BY <1>1, <2>2 DEF Beside
    <3>2. \A k \in 1 .. d - 1 : q[k] = r[k]
      BY <3>1 DEF SameTo
    <3>3. Under(c, r)
      BY <1>1, <1>5, <1>9, <3>1, <3>2 DEF Under, SameTo
    <3>4. d - 1 \in 1 .. Len(u) /\ d - 1 \in 1 .. Len(v) /\ u[d - 1] = q[d] /\ v[d - 1] = r[d]
      BY <1>1, <1>3, <1>4, <1>9, <3>1, <3>3
    <3>5. \A k \in 1 .. (d - 1) - 1 : u[k] = v[k]
      <4>1. TAKE k \in 1 .. (d - 1) - 1
      <4>2. /\ k \in 1 .. Len(q) - 1 /\ k \in 1 .. Len(r) - 1
            /\ k \in 1 .. d - 1 /\ k + 1 \in 1 .. d - 1
        BY <1>1, <3>1
      <4>3. u[k] = IF k < D THEN q[k] ELSE q[k + 1]
        BY <1>3, <1>9, <4>2
      <4>4. v[k] = IF k < D THEN r[k] ELSE r[k + 1]
        BY <1>4, <3>3, <4>2
      <4>5. QED
        BY <3>2, <4>2, <4>3, <4>4
    <3>6. SameTo(u, v, (d - 1) - 1)
      BY <1>2, <3>4, <3>5 DEF SameTo
    <3>7. QED
      BY <1>2, <3>1, <3>4, <3>6 DEF Beside
  <2>3. QED
    BY <2>1, <2>2
<1>10. QED
  BY <1>6, <1>7, <1>8, <1>9 DEF u, v

-----------------------------------------------------------------------------
(* Layouts.  While a leaf moves to another space its place is held by one  *)
(* without an id, so the lemmas about the operators allow that id too.     *)

AnyId == Pane \cup {NoPane}
Kind == Types \cup {"none"}
AnyTile == [id : AnyId, type : Kind, path : Paths]
Sound(n) == n \in Seq(AnyTile) /\ Distinct(n) /\ Tree(n)

\* A layout has a tile of an id and a type.
Has(n, id, type) == \E i \in DOMAIN n : n[i].id = id /\ n[i].type = type

\* What an operation does to the tiles of a layout, which stays sound.
Same(n, m) == Sound(m) /\ \A x, t : Has(m, x, t) <=> Has(n, x, t)
Gains(n, m, id, type) ==
  Sound(m) /\ \A x, t : Has(m, x, t) <=> Has(n, x, t) \/ (x = id /\ t = type)
Loses(n, m, id) == Sound(m) /\ \A x, t : Has(m, x, t) <=> Has(n, x, t) /\ x # id

LEMMA TileFacts ==
  ASSUME NEW t \in AnyTile
  PROVE  t.id \in AnyId /\ t.type \in Kind /\ t.path \in Paths
  BY DEF AnyTile

LEMMA LayoutFacts ==
  ASSUME NEW n \in Seq(AnyTile)
  PROVE  /\ Len(n) \in Nat /\ DOMAIN n = 1 .. Len(n)
         /\ \A i \in 1 .. Len(n) : /\ n[i] \in AnyTile /\ n[i].id \in AnyId
                                   /\ n[i].type \in Kind /\ n[i].path \in Paths
         /\ n = NoLayout <=> Len(n) = 0
         /\ n # NoLayout => 1 \in 1 .. Len(n) /\ Head(n) = n[1] /\ Head(n).id \in Panes(n)
         /\ \A id : id \in Panes(n) <=> \E type : Has(n, id, type)
<1>1. /\ Len(n) \in Nat /\ DOMAIN n = 1 .. Len(n)
      /\ \A i \in 1 .. Len(n) : n[i] \in AnyTile
  BY LenProperties, ElementOfSeq
<1>2. \A i \in 1 .. Len(n) : n[i].id \in AnyId /\ n[i].type \in Kind /\ n[i].path \in Paths
  BY <1>1, TileFacts
<1>3. n = NoLayout <=> Len(n) = 0
  BY <1>1, EmptySeq DEF NoLayout
<1>4. n # NoLayout => 1 \in 1 .. Len(n) /\ Head(n) = n[1]
  BY <1>1, <1>3
<1>5. n # NoLayout => Head(n).id \in Panes(n)
  BY <1>1, <1>4 DEF Panes
<1>6. \A id : id \in Panes(n) <=> \E type : Has(n, id, type)
  BY DEF Panes, Has
<1>7. QED
  BY <1>1, <1>2, <1>3, <1>4, <1>5, <1>6

LEMMA LayoutsAreSound ==
  ASSUME NEW n
  PROVE  n \in Layouts <=> Sound(n) /\ Panes(n) \subseteq Pane
<1>1. ASSUME n \in Layouts PROVE Sound(n) /\ Panes(n) \subseteq Pane
  <2>1. Tile \subseteq AnyTile
    BY DEF Tile, AnyTile, AnyId, Kind, Paths
  <2>2. n \in Seq(Tile) /\ n \in Seq(AnyTile)
    BY <1>1, <2>1, SeqMonotonic DEF Layouts
  <2>3. DOMAIN n = 1 .. Len(n) /\ \A i \in 1 .. Len(n) : n[i] \in Tile
    BY <2>2, LenProperties, ElementOfSeq
  <2>4. \A i \in DOMAIN n : n[i].id \in Pane
    BY <2>3 DEF Tile
  <2>5. QED
    BY <1>1, <2>2, <2>4 DEF Layouts, Sound, Panes
<1>2. ASSUME Sound(n), Panes(n) \subseteq Pane PROVE n \in Layouts
  <2>1. n \in Seq(AnyTile) /\ Len(n) \in Nat /\ n \in [1 .. Len(n) -> AnyTile]
    BY <1>2, LenProperties DEF Sound
  <2>2. \A i \in 1 .. Len(n) : n[i] \in AnyTile /\ n[i].id \in Pane
    BY <1>2, <2>1, LayoutFacts DEF Panes
  <2>3. \A t \in AnyTile : t.id \in Pane => t \in Tile
    BY DEF Tile, AnyTile, AnyId, Kind, Paths
  <2>4. n \in [1 .. Len(n) -> Tile]
    BY <2>1, <2>2, <2>3
  <2>5. n \in Seq(Tile)
    BY <2>1, <2>4, SeqDef
  <2>6. QED
    BY <1>2, <2>5 DEF Sound, Layouts
<1>3. QED
  BY <1>1, <1>2

\* The one place of a tile.
LEMMA Located ==
  ASSUME NEW n, Sound(n), NEW id \in Panes(n)
  PROVE  /\ At(n, id) \in 1 .. Len(n) /\ n[At(n, id)].id = id
         /\ \A i \in 1 .. Len(n) : n[i].id = id => i = At(n, id)
         /\ FindLeaf(n, id) = n[At(n, id)]
         /\ FindLeaf(n, id) \in AnyTile
<1>1. n \in Seq(AnyTile) /\ DOMAIN n = 1 .. Len(n)
  BY LayoutFacts DEF Sound
<1>2. \E i \in DOMAIN n : n[i].id = id
  BY DEF Panes
<1>3. At(n, id) \in DOMAIN n /\ n[At(n, id)].id = id
  BY <1>2 DEF At
<1>4. \A i \in 1 .. Len(n) : n[i].id = id => i = At(n, id)
  BY <1>1, <1>3 DEF Sound, Distinct
<1>5. QED
  BY <1>1, <1>3, <1>4, LayoutFacts DEF FindLeaf

\* A tree is one by its paths alone.
LEMMA SamePaths ==
  ASSUME NEW n \in Seq(AnyTile), NEW m \in Seq(AnyTile), Tree(n), Len(m) = Len(n),
         \A i \in 1 .. Len(n) : m[i].path = n[i].path
  PROVE  Tree(m)
<1>1. DOMAIN n = 1 .. Len(n) /\ DOMAIN m = 1 .. Len(n)
  BY LayoutFacts
<1>2. ASSUME NEW i \in DOMAIN m, NEW j \in DOMAIN m, i < j
      PROVE  LeftOf(m[i].path, m[j].path)
  <2>1. LeftOf(n[i].path, n[j].path)
    BY <1>1, <1>2 DEF Tree
  <2>2. QED
    BY <1>1, <2>1
<1>3. ASSUME NEW i \in DOMAIN m, NEW d \in DOMAIN m[i].path
      PROVE  \E j \in DOMAIN m : Beside(m[i].path, m[j].path, d)
  <2>1. i \in DOMAIN n /\ d \in DOMAIN n[i].path
    BY <1>1, <1>3
  <2>2. PICK j \in DOMAIN n : Beside(n[i].path, n[j].path, d)
    BY <2>1 DEF Tree
  <2>3. QED
    BY <1>1, <2>2
<1>4. QED
  BY <1>2, <1>3 DEF Tree

\* A leaf on its own.
LEMMA AloneIsSound ==
  ASSUME NEW leaf \in AnyTile
  PROVE  /\ Sound(Alone(leaf)) /\ Panes(Alone(leaf)) = {leaf.id}
         /\ \A id, type : Has(Alone(leaf), id, type) <=> id = leaf.id /\ type = leaf.type
<1> DEFINE t == [leaf EXCEPT !.path = << >>]
<1>1. t \in AnyTile /\ t.id = leaf.id /\ t.type = leaf.type /\ t.path = << >>
  BY EmptySeq DEF AnyTile, Paths
<1> HIDE DEF t
<1>2. Alone(leaf) = << t >>
  BY DEF Alone, t
<1>3. /\ << t >> \in Seq(AnyTile) /\ DOMAIN << t >> = {1} /\ << t >>[1] = t
  BY <1>1
<1>4. Tree(<< t >>)
  <2>1. \A i, j \in DOMAIN << t >> : ~(i < j)
    BY <1>3
  <2>2. \A i \in DOMAIN << t >> : DOMAIN << t >>[i].path = {}
    BY <1>1, <1>3
  <2>3. QED
    BY <2>1, <2>2 DEF Tree
<1>5. Distinct(<< t >>)
  BY <1>3 DEF Distinct
<1>6. QED
  BY <1>1, <1>2, <1>3, <1>4, <1>5 DEF Sound, Panes, Has

LEMMA EmptyIsSound == Sound(NoLayout) /\ Panes(NoLayout) = {} /\ NoLayout \in Layouts
<1>1. NoLayout \in Seq(AnyTile) /\ DOMAIN NoLayout = {}
  BY EmptySeq DEF NoLayout
<1>2. Sound(NoLayout) /\ Panes(NoLayout) = {}
  BY <1>1 DEF Sound, Distinct, Tree, Panes
<1>3. QED
  BY <1>2, LayoutsAreSound

-----------------------------------------------------------------------------
(* Splits.                                                                 *)

\* One leaf makes room for two, at the halves of a new split.
LEMMA ForkIsTree ==
  ASSUME NEW n \in Seq(AnyTile), Tree(n), NEW k \in 1 .. Len(n),
         NEW dir \in {"horizontal", "vertical"},
         NEW m \in Seq(AnyTile), Len(m) = Len(n) + 1,
         \A i \in 1 .. Len(m) :
           m[i].path = IF i < k THEN n[i].path
                       ELSE IF i = k THEN Append(n[k].path, [dir |-> dir, half |-> 1])
                       ELSE IF i = k + 1 THEN Append(n[k].path, [dir |-> dir, half |-> 2])
                       ELSE n[i - 1].path
  PROVE  Tree(m)
<1> DEFINE p == n[k].path
           old(i) == IF i <= k THEN i ELSE i - 1
           new(i) == IF i <= k THEN i ELSE i + 1
           one == [dir |-> dir, half |-> 1]
           two == [dir |-> dir, half |-> 2]
<1>1. /\ Len(n) \in Nat /\ k \in Nat /\ DOMAIN n = 1 .. Len(n) /\ DOMAIN m = 1 .. Len(n) + 1
      /\ \A i \in 1 .. Len(n) : n[i].path \in Paths
      /\ \A i \in 1 .. Len(n) + 1 : m[i].path \in Paths
  BY LayoutFacts
<1>2. \A i \in 1 .. Len(n) + 1 : old(i) \in 1 .. Len(n)
  BY <1>1
<1>3. \A i \in 1 .. Len(n) : new(i) \in 1 .. Len(n) + 1 /\ old(new(i)) = i
  BY <1>1
<1>4. p \in Paths /\ one \in Steps /\ two \in Steps
  BY <1>1 DEF Steps
<1>5. \A i \in 1 .. Len(n) + 1 :
        \/ old(i) # k /\ m[i].path = n[old(i)].path
        \/ old(i) = k /\ m[i].path = Append(p, one) /\ i = k
        \/ old(i) = k /\ m[i].path = Append(p, two) /\ i = k + 1
  <2>1. TAKE i \in 1 .. Len(n) + 1
  <2>2. i \in Nat /\ i \in 1 .. Len(m)
    BY <1>1
  <2>3. CASE i < k
    BY <1>1, <2>2, <2>3
  <2>4. CASE i = k
    <3>1. ~(i < k) /\ i <= k
      BY <1>1, <2>4
    <3>2. m[i].path = Append(p, one) /\ old(i) = k
      BY <2>2, <2>4, <3>1
    <3>3. QED
      BY <2>4, <3>2
  <2>5. CASE i = k + 1
    <3>1. ~(i < k) /\ i # k /\ ~(i <= k) /\ i - 1 = k
      BY <1>1, <2>5
    <3>2. m[i].path = Append(p, two) /\ old(i) = k
      BY <2>2, <2>5, <3>1
    <3>3. QED
      BY <2>5, <3>2
  <2>6. CASE i > k + 1
    <3>1. ~(i < k) /\ i # k /\ i # k + 1 /\ ~(i <= k) /\ i - 1 # k
      BY <1>1, <2>2, <2>6
    <3>2. m[i].path = n[i - 1].path /\ old(i) = i - 1
      BY <2>2, <3>1
    <3>3. QED
      BY <3>1, <3>2
  <2>7. QED
    BY <1>1, <2>2, <2>3, <2>4, <2>5, <2>6
<1> HIDE DEF p, one, two
<1>6. /\ LeftOf(Append(p, one), Append(p, two))
      /\ Beside(Append(p, one), Append(p, two), Len(p) + 1)
      /\ Beside(Append(p, two), Append(p, one), Len(p) + 1)
  BY <1>4, TwoHalves DEF one, two
<1>7. /\ \A q \in Paths, step \in {one, two} :
           /\ LeftOf(p, q) => LeftOf(Append(p, step), q)
           /\ LeftOf(q, p) => LeftOf(q, Append(p, step))
           /\ \A d \in 1 .. Len(p) : Beside(p, q, d) => Beside(Append(p, step), q, d)
           /\ \A d \in 1 .. Len(q) : Beside(q, p, d) => Beside(q, Append(p, step), d)
      /\ \A step \in {one, two} : Append(p, step) \in Paths /\ Len(Append(p, step)) = Len(p) + 1
  BY <1>4, LongerPath
<1>8. ASSUME NEW i \in DOMAIN m, NEW j \in DOMAIN m, i < j
      PROVE  LeftOf(m[i].path, m[j].path)
  <2>1. CASE old(i) < old(j)
    <3>1. LeftOf(n[old(i)].path, n[old(j)].path)
      BY <1>1, <1>2, <2>1 DEF Tree
    <3>2. n[old(i)].path \in Paths /\ n[old(j)].path \in Paths
      BY <1>1, <1>2
    <3>3. CASE old(i) = k
      <4>1. old(j) # k /\ m[j].path = n[old(j)].path
        BY <1>1, <1>5, <2>1, <3>3
      <4>2. LeftOf(p, n[old(j)].path)
        BY <3>1, <3>3 DEF p
      <4>3. \E step \in {one, two} : m[i].path = Append(p, step)
        BY <1>1, <1>5, <3>3
      <4>4. QED
        BY <1>7, <3>2, <4>1, <4>2, <4>3
    <3>4. CASE old(j) = k
      <4>1. old(i) # k /\ m[i].path = n[old(i)].path
        BY <1>1, <1>5, <2>1, <3>4
      <4>2. LeftOf(n[old(i)].path, p)
        BY <3>1, <3>4 DEF p
      <4>3. \E step \in {one, two} : m[j].path = Append(p, step)
        BY <1>1, <1>5, <3>4
      <4>4. QED
        BY <1>7, <3>2, <4>1, <4>2, <4>3
    <3>5. CASE old(i) # k /\ old(j) # k
      BY <1>1, <1>5, <3>1, <3>5
    <3>6. QED
      BY <3>3, <3>4, <3>5
  <2>2. CASE ~(old(i) < old(j))
    <3>1. i = k /\ j = k + 1
      BY <1>1, <1>8, <2>2
    <3>2. m[i].path = Append(p, one) /\ m[j].path = Append(p, two)
      BY <1>1, <1>5, <3>1
    <3>3. QED
      BY <1>6, <3>2
  <2>3. QED
    BY <2>1, <2>2
<1>9. ASSUME NEW i \in DOMAIN m, NEW d \in DOMAIN m[i].path
      PROVE  \E j \in DOMAIN m : Beside(m[i].path, m[j].path, d)
  <2>1. CASE old(i) # k
    <3>1. old(i) \in DOMAIN n /\ m[i].path = n[old(i)].path
      BY <1>1, <1>2, <1>5, <2>1
    <3>2. d \in DOMAIN n[old(i)].path /\ d \in 1 .. Len(n[old(i)].path)
      BY <1>1, <1>9, <3>1, PathFacts
    <3>3. PICK j \in DOMAIN n : Beside(n[old(i)].path, n[j].path, d)
      BY <3>1, <3>2 DEF Tree
    <3>4. new(j) \in DOMAIN m /\ old(new(j)) = j
      BY <1>1, <1>3
    <3>5. CASE j # k
      <4>1. m[new(j)].path = n[j].path
        BY <1>1, <1>5, <3>4, <3>5
      <4>2. QED
        BY <3>1, <3>3, <3>4, <4>1
    <3>6. CASE j = k
      <4>1. \E step \in {one, two} : m[new(j)].path = Append(p, step)
        BY <1>1, <1>5, <3>4, <3>6
      <4>2. Beside(n[old(i)].path, p, d)
        BY <3>3, <3>6 DEF p
      <4>3. n[old(i)].path \in Paths
        BY <1>1, <3>1
      <4>4. Beside(n[old(i)].path, m[new(j)].path, d)
        BY <1>7, <3>2, <4>1, <4>2, <4>3
      <4>5. QED
        BY <3>1, <3>4, <4>4
    <3>7. QED
      BY <3>5, <3>6
  <2>2. CASE old(i) = k
    <3>1. PICK step \in {one, two} : m[i].path = Append(p, step)
      BY <1>1, <1>5, <2>2
    <3>2. d \in 1 .. Len(p) + 1 /\ Len(p) \in Nat
      BY <1>4, <1>7, <1>9, <3>1, PathFacts
    <3>3. CASE d \in 1 .. Len(p)
      <4>1. d \in DOMAIN n[k].path /\ k \in DOMAIN n
        BY <1>1, <1>4, <3>3, PathFacts DEF p
      <4>2. PICK j \in DOMAIN n : Beside(p, n[j].path, d)
        BY <4>1 DEF Tree, p
      <4>3. j # k
        BY <4>2 DEF Beside, p
      <4>4. new(j) \in DOMAIN m /\ old(new(j)) = j
        BY <1>1, <1>3
      <4>5. m[new(j)].path = n[j].path
        BY <1>1, <1>5, <4>3, <4>4
      <4>6. Beside(Append(p, step), n[j].path, d)
        BY <1>1, <1>7, <3>3, <4>2
      <4>7. QED
        BY <3>1, <4>4, <4>5, <4>6
    <3>4. CASE d = Len(p) + 1
      <4>1. k \in DOMAIN m /\ k + 1 \in DOMAIN m
        BY <1>1
      <4>2. old(k) = k /\ old(k + 1) = k
        BY <1>1
      <4>3. m[k].path = Append(p, one) /\ m[k + 1].path = Append(p, two)
        BY <1>1, <1>5, <4>1, <4>2
      <4>4. QED
        BY <1>6, <3>1, <3>4, <4>1, <4>3
    <3>5. QED
      BY <3>2, <3>3, <3>4
  <2>3. QED
    BY <2>1, <2>2
<1>10. QED
  BY <1>8, <1>9 DEF Tree

\* m is n with two leaves where the one at place k was.
Forked(n, m, k, first, second) ==
  /\ m \in Seq(AnyTile) /\ Len(m) = Len(n) + 1
  /\ \A i \in 1 .. Len(m) :
       m[i] = IF i < k THEN n[i] ELSE IF i = k THEN first
              ELSE IF i = k + 1 THEN second ELSE n[i - 1]

LEMMA InsertForks ==
  ASSUME NEW n \in Seq(AnyTile), NEW k \in 1 .. Len(n),
         NEW first \in AnyTile, NEW second \in AnyTile
  PROVE  /\ Forked(n, InsertAt([n EXCEPT ![k] = second], k, first), k, first, second)
         /\ Forked(n, InsertAt([n EXCEPT ![k] = first], k + 1, second), k, first, second)
<1>1. Len(n) \in Nat /\ k \in Nat
  BY LayoutFacts
<1>2. ASSUME NEW own \in AnyTile, NEW guest \in AnyTile, NEW j \in {k, k + 1}
      PROVE  LET m == InsertAt([n EXCEPT ![k] = own], j, guest)
             IN  /\ m \in Seq(AnyTile) /\ Len(m) = Len(n) + 1
                 /\ \A i \in 1 .. Len(n) + 1 :
                      m[i] = IF i < j THEN (IF i = k THEN own ELSE n[i])
                             ELSE IF i = j THEN guest
                             ELSE IF i - 1 = k THEN own ELSE n[i - 1]
  <2> DEFINE base == [n EXCEPT ![k] = own]
             m == InsertAt(base, j, guest)
  <2>1. /\ base \in Seq(AnyTile) /\ Len(base) = Len(n)
        /\ \A i \in 1 .. Len(n) : base[i] = IF i = k THEN own ELSE n[i]
    BY ExceptSeq
  <2>2. j \in 1 .. Len(base) + 1
    BY <1>1, <2>1
  <2> HIDE DEF base
  <2> HIDE DEF m
  <2>3. /\ m \in Seq(AnyTile) /\ Len(m) = Len(base) + 1
        /\ \A i \in 1 .. Len(base) + 1 :
             m[i] = IF i < j THEN base[i] ELSE IF i = j THEN guest ELSE base[i - 1]
    <3>1. base \in Seq(AnyTile) /\ m = InsertAt(base, j, guest)
      BY <2>1 DEF m
    <3>2. Inserted(InsertAt(base, j, guest), AnyTile, base, j, guest)
      BY <2>2, <3>1, Inserting, Zenon
    <3>3. QED
      BY <3>1, <3>2 DEF Inserted
  <2>4. \A i \in 1 .. Len(n) + 1 : /\ i < j => i \in 1 .. Len(n)
                                   /\ ~(i < j) /\ i # j => i - 1 \in 1 .. Len(n)
    BY <1>1
  <2>5. \A i \in 1 .. Len(n) + 1 :
          m[i] = IF i < j THEN (IF i = k THEN own ELSE n[i])
                 ELSE IF i = j THEN guest
                 ELSE IF i - 1 = k THEN own ELSE n[i - 1]
    BY <2>1, <2>3, <2>4
  <2>6. QED
    BY <2>1, <2>3, <2>5 DEF m, base
<1>3. \A i \in 1 .. Len(n) + 1 : /\ i < k => i # k
                                 /\ (i - 1 = k) <=> (i = k + 1)
                                 /\ (i < k + 1) <=> (i < k \/ i = k)
                                 /\ i = k + 1 => ~(i < k) /\ i # k
  BY <1>1
<1>4. Forked(n, InsertAt([n EXCEPT ![k] = second], k, first), k, first, second)
  <2> DEFINE m == InsertAt([n EXCEPT ![k] = second], k, first)
  <2>1. /\ m \in Seq(AnyTile) /\ Len(m) = Len(n) + 1
        /\ \A i \in 1 .. Len(n) + 1 :
             m[i] = IF i < k THEN (IF i = k THEN second ELSE n[i])
                    ELSE IF i = k THEN first
                    ELSE IF i - 1 = k THEN second ELSE n[i - 1]
    BY <1>2
  <2> HIDE DEF m
  <2>2. Forked(n, m, k, first, second)
    BY <1>3, <2>1 DEF Forked
  <2>3. QED
    BY <2>2 DEF m
<1>5. Forked(n, InsertAt([n EXCEPT ![k] = first], k + 1, second), k, first, second)
  <2> DEFINE m == InsertAt([n EXCEPT ![k] = first], k + 1, second)
  <2>1. /\ m \in Seq(AnyTile) /\ Len(m) = Len(n) + 1
        /\ \A i \in 1 .. Len(n) + 1 :
             m[i] = IF i < k + 1 THEN (IF i = k THEN first ELSE n[i])
                    ELSE IF i = k + 1 THEN second
                    ELSE IF i - 1 = k THEN first ELSE n[i - 1]
    BY <1>2
  <2> HIDE DEF m
  <2>2. Forked(n, m, k, first, second)
    BY <1>3, <2>1 DEF Forked
  <2>3. QED
    BY <2>2 DEF m
<1>6. QED
  BY <1>4, <1>5

Half1(dir) == [dir |-> dir, half |-> 1]
Half2(dir) == [dir |-> dir, half |-> 2]

\* The target of a split and its peer, as the two halves in some order.
OneOfEach(first, second, own, peer) ==
  \/ /\ first.id = own.id /\ first.type = own.type
     /\ second.id = peer.id /\ second.type = peer.type
  \/ /\ first.id = peer.id /\ first.type = peer.type
     /\ second.id = own.id /\ second.type = own.type

LEMMA ForkIsSound ==
  ASSUME NEW n, Sound(n), NEW k \in 1 .. Len(n), NEW dir \in {"horizontal", "vertical"},
         NEW first \in AnyTile, NEW second \in AnyTile, NEW peer \in AnyTile,
         peer.id \notin Panes(n),
         first.path = Append(n[k].path, Half1(dir)),
         second.path = Append(n[k].path, Half2(dir)),
         OneOfEach(first, second, n[k], peer),
         NEW m, Forked(n, m, k, first, second)
  PROVE  Gains(n, m, peer.id, peer.type)
<1> DEFINE id == peer.id
           type == peer.type
<1>a. \/ /\ first.id = n[k].id /\ first.type = n[k].type
         /\ second.id = id /\ second.type = type
      \/ /\ first.id = id /\ first.type = type
         /\ second.id = n[k].id /\ second.type = n[k].type
  BY DEF OneOfEach
<1>0. /\ m \in Seq(AnyTile) /\ Len(m) = Len(n) + 1
      /\ \A i \in 1 .. Len(m) :
           m[i] = IF i < k THEN n[i] ELSE IF i = k THEN first
                  ELSE IF i = k + 1 THEN second ELSE n[i - 1]
  BY DEF Forked
<1>1. /\ n \in Seq(AnyTile) /\ Tree(n) /\ Distinct(n)
      /\ Len(n) \in Nat /\ DOMAIN n = 1 .. Len(n) /\ DOMAIN m = 1 .. Len(n) + 1
  BY <1>0, LayoutFacts DEF Sound
<1>2. \A i \in 1 .. Len(m) :
        m[i].path = IF i < k THEN n[i].path
                    ELSE IF i = k THEN Append(n[k].path, [dir |-> dir, half |-> 1])
                    ELSE IF i = k + 1 THEN Append(n[k].path, [dir |-> dir, half |-> 2])
                    ELSE n[i - 1].path
  BY <1>0 DEF Half1, Half2
<1>3. Tree(m)
  BY <1>0, <1>1, <1>2, ForkIsTree
<1> DEFINE own == IF first.id = id THEN k + 1 ELSE k
           guest == IF first.id = id THEN k ELSE k + 1
           new(i) == IF i < k THEN i ELSE IF i = k THEN own ELSE i + 1
<1>4. \A i \in 1 .. Len(n) : n[i].id # id
  BY <1>1 DEF Panes
<1>5. m[k] = first /\ m[k + 1] = second
  <2>1. k \in 1 .. Len(m) /\ k + 1 \in 1 .. Len(m) /\ ~(k < k) /\ ~(k + 1 < k) /\ k + 1 # k
    BY <1>0, <1>1
  <2>2. QED
    BY <1>0, <2>1
<1>6. /\ guest \in 1 .. Len(n) + 1 /\ m[guest].id = id /\ m[guest].type = type
      /\ own \in 1 .. Len(n) + 1 /\ m[own].id = n[k].id /\ m[own].type = n[k].type
  <2>1. k \in 1 .. Len(n) + 1 /\ k + 1 \in 1 .. Len(n) + 1 /\ n[k].id # id
    BY <1>1, <1>4
  <2>2. QED
    BY <1>5, <1>a, <2>1
<1>7. \A i \in 1 .. Len(n) :
        /\ new(i) \in 1 .. Len(n) + 1 /\ new(i) # guest
        /\ m[new(i)].id = n[i].id /\ m[new(i)].type = n[i].type
  <2>1. TAKE i \in 1 .. Len(n)
  <2>2. CASE i < k
    BY <1>0, <1>1, <2>2
  <2>3. CASE i = k
    BY <1>1, <1>6, <2>3
  <2>4. CASE i > k
    <3>1. /\ i + 1 \in 1 .. Len(m) /\ ~(i + 1 < k) /\ i + 1 # k /\ i + 1 # k + 1
          /\ (i + 1) - 1 = i /\ ~(i < k) /\ i # k
      BY <1>0, <1>1, <2>4
    <3>2. m[i + 1] = n[i] /\ new(i) = i + 1
      BY <1>0, <3>1
    <3>3. QED
      BY <1>1, <3>1, <3>2
  <2>5. QED
    BY <1>1, <2>2, <2>3, <2>4
<1>8. \A j \in 1 .. Len(n) + 1 : j = guest \/ \E i \in 1 .. Len(n) : j = new(i)
  <2>1. TAKE j \in 1 .. Len(n) + 1
  <2>2. CASE j < k
    <3>1. j \in 1 .. Len(n) /\ new(j) = j
      BY <1>1, <2>2
    <3>2. QED
      BY <3>1
  <2>3. CASE j \in {k, k + 1}
    <3>1. j = guest \/ new(k) = j
      BY <1>1, <2>3
    <3>2. QED
      BY <3>1
  <2>4. CASE j > k + 1
    <3>1. j - 1 \in 1 .. Len(n) /\ new(j - 1) = j
      BY <1>1, <2>4
    <3>2. QED
      BY <3>1
  <2>5. QED
    BY <1>1, <2>2, <2>3, <2>4
<1> HIDE DEF own, guest, new
<1>9. Distinct(m)
  <2>1. SUFFICES ASSUME NEW i \in 1 .. Len(n) + 1, NEW j \in 1 .. Len(n) + 1, m[i].id = m[j].id
                 PROVE  i = j
    BY <1>1 DEF Distinct
  <2>0. \A a \in 1 .. Len(n) + 1 : m[a].id = id => a = guest
    <3>1. TAKE a \in 1 .. Len(n) + 1
    <3>2. CASE \E b \in 1 .. Len(n) : a = new(b)
      BY <1>4, <1>7, <3>2
    <3>3. QED
      BY <1>8, <3>2
  <2>2. CASE i = guest \/ j = guest
    BY <1>6, <2>0, <2>1, <2>2
  <2>3. CASE i # guest /\ j # guest
    <3>1. PICK a \in 1 .. Len(n) : i = new(a)
      BY <1>8, <2>3
    <3>2. PICK b \in 1 .. Len(n) : j = new(b)
      BY <1>8, <2>3
    <3>3. n[a].id = n[b].id
      BY <1>7, <2>1, <3>1, <3>2
    <3>4. a = b
      BY <1>1, <3>3 DEF Distinct
    <3>5. QED
      BY <3>1, <3>2, <3>4
  <2>4. QED
    BY <2>2, <2>3
<1>10. ASSUME NEW x, NEW t
       PROVE  Has(m, x, t) <=> Has(n, x, t) \/ (x = id /\ t = type)
  <2>1. Has(m, x, t) <=> \E i \in 1 .. Len(n) + 1 : m[i].id = x /\ m[i].type = t
    BY <1>1 DEF Has
  <2>2. Has(n, x, t) <=> \E i \in 1 .. Len(n) : n[i].id = x /\ n[i].type = t
    BY <1>1 DEF Has
  <2>3. ASSUME Has(n, x, t) PROVE Has(m, x, t)
    <3>1. PICK i \in 1 .. Len(n) : n[i].id = x /\ n[i].type = t
      BY <2>2, <2>3
    <3>2. QED
      BY <1>7, <2>1, <3>1
  <2>4. ASSUME x = id, t = type PROVE Has(m, x, t)
    BY <1>6, <2>1, <2>4
  <2>5. ASSUME Has(m, x, t) PROVE Has(n, x, t) \/ (x = id /\ t = type)
    <3>1. PICK j \in 1 .. Len(n) + 1 : m[j].id = x /\ m[j].type = t
      BY <2>1, <2>5
    <3>2. CASE j = guest
      BY <1>6, <3>1, <3>2
    <3>3. CASE \E i \in 1 .. Len(n) : j = new(i)
      BY <1>7, <2>2, <3>1, <3>3
    <3>4. QED
      BY <1>8, <3>2, <3>3
  <2>6. QED
    BY <2>3, <2>4, <2>5
<1>11. QED
  BY <1>0, <1>3, <1>9, <1>10 DEF Sound, Gains

LEMMA Splitting ==
  ASSUME NEW n, Sound(n), NEW target \in Panes(n), NEW dir \in {"horizontal", "vertical"},
         NEW side \in {"before", "after"}, NEW peer \in AnyTile, peer.id \notin Panes(n)
  PROVE  LET m == SplitAt(n, target, dir, side, peer)
             k == At(n, target)
         IN  /\ Gains(n, m, peer.id, peer.type) /\ Len(m) = Len(n) + 1
             /\ side = "after" => /\ m[k].id = target
                                  /\ m[k + 1].id = peer.id /\ m[k + 1].type = peer.type
<1> DEFINE k == At(n, target)
           m == SplitAt(n, target, dir, side, peer)
           one == Half1(dir)
           two == Half2(dir)
<1>1. /\ n \in Seq(AnyTile) /\ Len(n) \in Nat /\ DOMAIN n = 1 .. Len(n)
      /\ \A i \in 1 .. Len(n) : n[i] \in AnyTile /\ n[i].id \in AnyId /\ n[i].path \in Paths
  BY LayoutFacts DEF Sound
<1>2. k \in 1 .. Len(n) /\ n[k].id = target
  BY Located
<1> HIDE DEF k
<1>3. one \in Steps /\ two \in Steps
  BY DEF Steps, Half1, Half2
<1>4. peer.id \in AnyId /\ peer.type \in Kind
  BY TileFacts
<1>5. ASSUME NEW leaf \in AnyTile, NEW step \in Steps
      PROVE  LET half == [leaf EXCEPT !.path = Append(n[k].path, step)]
             IN  /\ half \in AnyTile /\ half.path = Append(n[k].path, step)
                 /\ half.id = leaf.id /\ half.type = leaf.type
  <2>1. Append(n[k].path, step) \in Paths
    BY <1>1, <1>2, AppendProperties DEF Paths
  <2>2. QED
    BY <2>1 DEF AnyTile
<1>6. CASE side = "before"
  <2> DEFINE first == [peer EXCEPT !.path = Append(n[k].path, one)]
             second == [n[k] EXCEPT !.path = Append(n[k].path, two)]
             base == [n EXCEPT ![k] = second]
  <2>1. m = InsertAt(base, k, first)
    BY <1>6 DEF SplitAt, k, Half1, Half2
  <2>2. /\ first \in AnyTile /\ first.path = Append(n[k].path, one)
        /\ first.id = peer.id /\ first.type = peer.type
    BY <1>3, <1>5
  <2>3. /\ second \in AnyTile /\ second.path = Append(n[k].path, two)
        /\ second.id = n[k].id /\ second.type = n[k].type
    BY <1>1, <1>2, <1>3, <1>5
  <2> HIDE DEF first, second, m
  <2>4. Forked(n, m, k, first, second)
    BY <1>1, <1>2, <2>1, <2>2, <2>3, InsertForks DEF base
  <2>5. m \in Seq(AnyTile) /\ Len(m) = Len(n) + 1
    BY <2>4 DEF Forked
  <2>7. Gains(n, m, peer.id, peer.type)
    <3>1. OneOfEach(first, second, n[k], peer)
      BY <2>2, <2>3 DEF OneOfEach
    <3>2. first \in AnyTile /\ second \in AnyTile
      BY <2>2, <2>3
    <3>3. /\ first.path = Append(n[k].path, Half1(dir))
          /\ second.path = Append(n[k].path, Half2(dir))
      BY <2>2, <2>3
    <3>4. k \in 1 .. Len(n)
      BY <1>2
    <3>5. QED
      BY <2>4, <3>1, <3>2, <3>3, <3>4, ForkIsSound
  <2>8. QED
    BY <1>6, <2>5, <2>7 DEF m
<1>7. CASE side = "after"
  <2> DEFINE first == [n[k] EXCEPT !.path = Append(n[k].path, one)]
             second == [peer EXCEPT !.path = Append(n[k].path, two)]
             base == [n EXCEPT ![k] = first]
  <2>1. m = InsertAt(base, k + 1, second)
    BY <1>7 DEF SplitAt, k, Half1, Half2
  <2>2. /\ first \in AnyTile /\ first.path = Append(n[k].path, one)
        /\ first.id = n[k].id /\ first.type = n[k].type
    BY <1>1, <1>2, <1>3, <1>5
  <2>3. /\ second \in AnyTile /\ second.path = Append(n[k].path, two)
        /\ second.id = peer.id /\ second.type = peer.type
    BY <1>3, <1>5
  <2> HIDE DEF first, second, m
  <2>4. Forked(n, m, k, first, second)
    BY <1>1, <1>2, <2>1, <2>2, <2>3, InsertForks DEF base
  <2>5. m \in Seq(AnyTile) /\ Len(m) = Len(n) + 1
    BY <2>4 DEF Forked
  <2>7. Gains(n, m, peer.id, peer.type)
    <3>1. OneOfEach(first, second, n[k], peer)
      BY <2>2, <2>3 DEF OneOfEach
    <3>2. first \in AnyTile /\ second \in AnyTile
      BY <2>2, <2>3
    <3>3. /\ first.path = Append(n[k].path, Half1(dir))
          /\ second.path = Append(n[k].path, Half2(dir))
      BY <2>2, <2>3
    <3>4. k \in 1 .. Len(n)
      BY <1>2
    <3>5. QED
      BY <2>4, <3>1, <3>2, <3>3, <3>4, ForkIsSound
  <2>8. m[k] = first /\ m[k + 1] = second
    <3>1. k \in 1 .. Len(m) /\ k + 1 \in 1 .. Len(m) /\ ~(k < k) /\ ~(k + 1 < k) /\ k + 1 # k
      BY <1>1, <1>2, <2>5
    <3>2. QED
      BY <2>4, <3>1 DEF Forked
  <2>9. QED
    BY <1>2, <2>2, <2>3, <2>5, <2>7, <2>8 DEF m, k
<1>8. QED
  BY <1>6, <1>7

-----------------------------------------------------------------------------
(* Closing.                                                                *)

\* m is n without the leaf at place k, whose split has collapsed.
Closed(n, m, k) ==
  /\ m \in Seq(AnyTile) /\ Len(m) = Len(n) - 1
  /\ \A i \in 1 .. Len(n) - 1 :
       LET leaf == n[IF i < k THEN i ELSE i + 1]
       IN  m[i].id = leaf.id /\ m[i].type = leaf.type /\ m[i].path = Cut(n[k].path, leaf.path)

\* Every other leaf parts from the closed one.
LEMMA OthersPart ==
  ASSUME NEW n, Sound(n), NEW k \in 1 .. Len(n), NEW i \in 1 .. Len(n), i # k
  PROVE  Parted(n[k].path, n[i].path)
<1>1. n \in Seq(AnyTile) /\ Tree(n) /\ DOMAIN n = 1 .. Len(n) /\ Len(n) \in Nat
  BY LayoutFacts DEF Sound
<1>2. CASE i < k
  BY <1>1, <1>2 DEF Tree, Parted
<1>3. CASE k < i
  BY <1>1, <1>3 DEF Tree, Parted
<1>4. QED
  BY <1>1, <1>2, <1>3

LEMMA CloseAtCloses ==
  ASSUME NEW n, Sound(n), NEW id \in Panes(n)
  PROVE  Closed(n, CloseAt(n, id), At(n, id))
<1> DEFINE k == At(n, id)
           c == n[k].path
           rest == RemoveAt(n, k)
           m == CloseAt(n, id)
           old(i) == IF i < k THEN i ELSE i + 1
<1>1. /\ n \in Seq(AnyTile) /\ Len(n) \in Nat /\ DOMAIN n = 1 .. Len(n)
      /\ \A i \in 1 .. Len(n) : n[i] \in AnyTile /\ n[i].path \in Paths
  BY LayoutFacts DEF Sound
<1>2. k \in 1 .. Len(n) /\ FindLeaf(n, id) = n[k]
  BY Located
<1>3. m = [i \in DOMAIN rest |->
             IF SameTo(c, rest[i].path, Len(c) - 1)
             THEN [rest[i] EXCEPT !.path = RemoveAt(rest[i].path, Len(c))] ELSE rest[i]]
  BY <1>2 DEF CloseAt
<1> HIDE DEF k, m
<1>4. /\ rest \in Seq(AnyTile) /\ Len(rest) = Len(n) - 1
      /\ \A i \in 1 .. Len(n) - 1 : rest[i] = n[old(i)]
  <2>1. /\ rest \in Seq(AnyTile) /\ Len(rest) = Len(n) - 1
        /\ \A i \in 1 .. Len(n) - 1 : rest[i] = IF i < k THEN n[i] ELSE n[i + 1]
    BY <1>1, <1>2, Removing
  <2>2. QED
    BY <2>1
<1> HIDE DEF rest
<1>5. DOMAIN rest = 1 .. Len(n) - 1
  BY <1>4, LayoutFacts
<1>6. \A i \in 1 .. Len(n) - 1 : old(i) \in 1 .. Len(n) /\ old(i) # k
  BY <1>1, <1>2
<1> HIDE DEF old
<1>7. ASSUME NEW i \in 1 .. Len(n) - 1
      PROVE  /\ m[i] \in AnyTile /\ m[i].id = n[old(i)].id /\ m[i].type = n[old(i)].type
             /\ m[i].path = Cut(c, n[old(i)].path)
  <2>1. Parted(c, n[old(i)].path) /\ c \in Paths /\ n[old(i)].path \in Paths
    BY <1>1, <1>2, <1>6, OthersPart
  <2>2. Cut(c, n[old(i)].path) \in Paths
    BY <2>1, Cutting
  <2>3. rest[i] = n[old(i)] /\ n[old(i)] \in AnyTile /\ i \in DOMAIN rest
    BY <1>1, <1>4, <1>5, <1>6
  <2>4. CASE Under(c, n[old(i)].path)
    <3>1. m[i] = [n[old(i)] EXCEPT !.path = Cut(c, n[old(i)].path)]
      BY <1>3, <2>3, <2>4 DEF Under, Cut
    <3>2. QED
      BY <2>2, <2>3, <3>1 DEF AnyTile
  <2>5. CASE ~Under(c, n[old(i)].path)
    <3>1. m[i] = n[old(i)] /\ Cut(c, n[old(i)].path) = n[old(i)].path
      BY <1>3, <2>3, <2>5 DEF Under, Cut
    <3>2. QED
      BY <2>3, <3>1
  <2>6. QED
    BY <2>4, <2>5
<1>8. m \in Seq(AnyTile) /\ Len(m) = Len(n) - 1
  <2>1. Len(n) - 1 \in Nat
    BY <1>1, <1>2
  <2>2. m \in [1 .. Len(n) - 1 -> AnyTile]
    BY <1>3, <1>5, <1>7
  <2>3. m \in Seq(AnyTile)
    BY <2>1, <2>2, SeqDef
  <2>4. DOMAIN m = 1 .. Len(m) /\ Len(m) \in Nat
    BY <2>3, LenProperties
  <2>5. QED
    BY <2>1, <2>2, <2>3, <2>4
<1>9. QED
  BY <1>7, <1>8 DEF Closed, k, m, old

LEMMA ClosedIsTree ==
  ASSUME NEW n, Sound(n), NEW k \in 1 .. Len(n), NEW m, Closed(n, m, k)
  PROVE  Tree(m)
<1> DEFINE c == n[k].path
           old(i) == IF i < k THEN i ELSE i + 1
           new(i) == IF i < k THEN i ELSE i - 1
           P(i) == n[i].path
           D == Len(c)
<1>1. /\ n \in Seq(AnyTile) /\ Tree(n) /\ Len(n) \in Nat /\ DOMAIN n = 1 .. Len(n)
      /\ \A i \in 1 .. Len(n) : P(i) \in Paths
  BY LayoutFacts DEF Sound
<1>2. /\ DOMAIN m = 1 .. Len(n) - 1
      /\ \A i \in 1 .. Len(n) - 1 : m[i].path = Cut(c, P(old(i)))
  BY LayoutFacts DEF Closed
<1>3. \A i \in 1 .. Len(n) - 1 : old(i) \in 1 .. Len(n) /\ old(i) # k
  BY <1>1
<1>4. \A i \in 1 .. Len(n) : i # k => new(i) \in 1 .. Len(n) - 1 /\ old(new(i)) = i
  BY <1>1
<1>5. \A i, j \in 1 .. Len(n) - 1 : i < j => old(i) < old(j)
  BY <1>1
<1>6. \A i \in 1 .. Len(n) : i # k => Parted(c, P(i))
  BY OthersPart
<1>7. c \in Paths
  BY <1>1
<1> HIDE DEF c, old, new, P
<1>8. ASSUME NEW i \in DOMAIN m, NEW j \in DOMAIN m, i < j
      PROVE  LeftOf(m[i].path, m[j].path)
  <2>1. LeftOf(P(old(i)), P(old(j)))
    BY <1>1, <1>2, <1>3, <1>5, <1>8 DEF Tree, P
  <2>2. /\ P(old(i)) \in Paths /\ P(old(j)) \in Paths
        /\ Parted(c, P(old(i))) /\ Parted(c, P(old(j)))
    BY <1>1, <1>2, <1>3, <1>6
  <2>3. LeftOf(Cut(c, P(old(i))), Cut(c, P(old(j))))
    BY <1>7, <2>1, <2>2, CutKeepsOrder
  <2>4. QED
    BY <1>2, <2>3
<1>9. ASSUME NEW i \in DOMAIN m, NEW d \in DOMAIN m[i].path
      PROVE  \E j \in DOMAIN m : Beside(m[i].path, m[j].path, d)
  <2> DEFINE q == P(old(i))
  <2>1. /\ q \in Paths /\ Parted(c, q) /\ m[i].path = Cut(c, q)
        /\ old(i) \in 1 .. Len(n) /\ old(i) # k
    BY <1>1, <1>2, <1>3, <1>6
  <2>2. \A e \in DOMAIN q : \E j \in 1 .. Len(n) : Beside(q, P(j), e)
    BY <1>1, <2>1 DEF Tree, P
  <2>3. ASSUME NEW j \in 1 .. Len(n), j # k, Beside(Cut(c, q), Cut(c, P(j)), d)
        PROVE  \E x \in DOMAIN m : Beside(m[i].path, m[x].path, d)
    <3>1. new(j) \in DOMAIN m /\ m[new(j)].path = Cut(c, P(j))
      BY <1>2, <1>4, <2>3
    <3>2. QED
      BY <2>1, <2>3, <3>1
  <2>4. D \in Nat \ {0} /\ Len(q) \in Nat /\ DOMAIN q = 1 .. Len(q) /\ DOMAIN c = 1 .. D
    BY <1>7, <2>1, Cutting, PathFacts
  <2> HIDE DEF q
  <2>5. CASE ~Under(c, q)
    <3>1. d \in DOMAIN q /\ d \in 1 .. Len(q)
      BY <1>7, <1>9, <2>1, <2>4, <2>5, Cutting
    <3>2. PICK j \in 1 .. Len(n) : Beside(q, P(j), d)
      BY <2>2, <3>1
    <3>3. CASE j # k
      <4>1. P(j) \in Paths /\ Parted(c, P(j))
        BY <1>1, <1>6, <3>3
      <4>2. Beside(Cut(c, q), Cut(c, P(j)), d)
        BY <1>7, <2>1, <2>5, <3>1, <3>2, <4>1, CutKeepsOtherHalf
      <4>3. QED
        BY <2>3, <3>3, <4>2
    <3>4. CASE j = k
      <4>1. Beside(q, c, d)
        BY <3>2, <3>4 DEF c, P
      <4>2. PICK x \in 1 .. Len(n) : Beside(c, P(x), D)
        <5>1. D \in DOMAIN n[k].path /\ k \in DOMAIN n
          BY <1>1, <2>4 DEF c
        <5>2. \E x \in DOMAIN n : Beside(n[k].path, n[x].path, D)
          BY <1>1, <5>1 DEF Tree
        <5>3. QED
          BY <1>1, <5>2 DEF P, c
      <4>3. x # k
        BY <4>2 DEF Beside, P, c
      <4>4. Under(c, P(x))
        BY <4>2 DEF Beside, Under
      <4>5. P(x) \in Paths /\ Parted(c, P(x))
        BY <1>1, <1>6, <4>3
      <4>6. Beside(Cut(c, q), Cut(c, P(x)), d)
        BY <1>7, <2>1, <2>5, <3>1, <4>1, <4>4, <4>5, CutKeepsOtherHalf
      <4>7. QED
        BY <2>3, <4>3, <4>6
    <3>5. QED
      BY <3>3, <3>4
  <2>6. CASE Under(c, q)
    <3>1. Cut(c, q) \in Paths /\ Len(Cut(c, q)) = Len(q) - 1
      BY <1>7, <2>1, <2>6, Cutting
    <3>2. d \in 1 .. Len(q) - 1
      BY <1>9, <2>1, <3>1, PathFacts
    <3>3. CASE d < D
      <4>1. d \in 1 .. Len(q)
        BY <2>4, <3>2
      <4>2. PICK j \in 1 .. Len(n) : Beside(q, P(j), d)
        BY <2>2, <2>4, <4>1
      <4>3. ~Beside(q, c, d)
        BY <1>7, <2>1, <2>6, <3>3, <4>1, CutKeepsOtherHalf
      <4>4. j # k
        BY <4>2, <4>3 DEF c, P
      <4>5. P(j) \in Paths /\ Parted(c, P(j))
        BY <1>1, <1>6, <4>4
      <4>6. Beside(Cut(c, q), Cut(c, P(j)), d)
        BY <1>7, <2>1, <2>6, <3>3, <4>1, <4>2, <4>5, CutKeepsOtherHalf
      <4>7. QED
        BY <2>3, <4>4, <4>6
    <3>4. CASE d >= D
      <4>1. d + 1 \in 1 .. Len(q) /\ d + 1 > D /\ (d + 1) - 1 = d
        BY <2>4, <3>2, <3>4
      <4>2. PICK j \in 1 .. Len(n) : Beside(q, P(j), d + 1)
        BY <2>2, <2>4, <4>1
      <4>3. ~Beside(q, c, d + 1)
        BY <1>7, <2>1, <2>6, <4>1, CutKeepsOtherHalf
      <4>4. j # k
        BY <4>2, <4>3 DEF c, P
      <4>5. P(j) \in Paths /\ Parted(c, P(j))
        BY <1>1, <1>6, <4>4
      <4>6. Beside(Cut(c, q), Cut(c, P(j)), (d + 1) - 1)
        BY <1>7, <2>1, <2>6, <4>1, <4>2, <4>5, CutKeepsOtherHalf
      <4>7. QED
        BY <2>3, <4>1, <4>4, <4>6
    <3>5. QED
      BY <2>4, <3>2, <3>3, <3>4
  <2>7. QED
    BY <2>5, <2>6
<1>10. QED
  BY <1>8, <1>9 DEF Tree

LEMMA Closing ==
  ASSUME NEW n, Sound(n), NEW id \in Panes(n)
  PROVE  Loses(n, CloseAt(n, id), id) /\ Len(CloseAt(n, id)) = Len(n) - 1
<1> DEFINE k == At(n, id)
           m == CloseAt(n, id)
           old(i) == IF i < k THEN i ELSE i + 1
           new(i) == IF i < k THEN i ELSE i - 1
<1>1. /\ n \in Seq(AnyTile) /\ Distinct(n) /\ Len(n) \in Nat /\ DOMAIN n = 1 .. Len(n)
  BY LayoutFacts DEF Sound
<1>2. /\ k \in 1 .. Len(n) /\ n[k].id = id
      /\ \A i \in 1 .. Len(n) : n[i].id = id => i = k
  BY Located
<1>3. Closed(n, m, k)
  BY CloseAtCloses
<1>4. Tree(m)
  BY <1>2, <1>3, ClosedIsTree
<1> HIDE DEF k, m
<1>5. /\ m \in Seq(AnyTile) /\ Len(m) = Len(n) - 1 /\ DOMAIN m = 1 .. Len(n) - 1
      /\ \A i \in 1 .. Len(n) - 1 : m[i].id = n[old(i)].id /\ m[i].type = n[old(i)].type
  BY <1>3, LayoutFacts DEF Closed
<1>6. \A i \in 1 .. Len(n) - 1 : old(i) \in 1 .. Len(n) /\ old(i) # k
  BY <1>1, <1>2
<1>7. \A i \in 1 .. Len(n) : i # k => new(i) \in 1 .. Len(n) - 1 /\ old(new(i)) = i
  BY <1>1, <1>2
<1>8. \A i, j \in 1 .. Len(n) - 1 : old(i) = old(j) => i = j
  BY <1>1, <1>2
<1> HIDE DEF old, new
<1>9. Distinct(m)
  BY <1>1, <1>5, <1>6, <1>8 DEF Distinct
<1>10. ASSUME NEW x, NEW t PROVE Has(m, x, t) <=> Has(n, x, t) /\ x # id
  <2>1. ASSUME Has(m, x, t) PROVE Has(n, x, t) /\ x # id
    <3>1. PICK i \in 1 .. Len(n) - 1 : m[i].id = x /\ m[i].type = t
      BY <1>5, <2>1 DEF Has
    <3>2. old(i) \in 1 .. Len(n) /\ old(i) # k /\ n[old(i)].id = x /\ n[old(i)].type = t
      BY <1>5, <1>6, <3>1
    <3>3. QED
      BY <1>1, <1>2, <3>2 DEF Has
  <2>2. ASSUME Has(n, x, t), x # id PROVE Has(m, x, t)
    <3>1. PICK i \in 1 .. Len(n) : n[i].id = x /\ n[i].type = t
      BY <1>1, <2>2 DEF Has
    <3>2. i # k
      BY <1>2, <2>2, <3>1
    <3>3. new(i) \in DOMAIN m /\ m[new(i)].id = x /\ m[new(i)].type = t
      BY <1>5, <1>7, <3>1, <3>2
    <3>4. QED
      BY <3>3 DEF Has
  <2>3. QED
    BY <2>1, <2>2
<1>11. QED
  BY <1>4, <1>5, <1>9, <1>10 DEF Sound, Loses, m

-----------------------------------------------------------------------------
(* The other operations on a layout.                                       *)

LEMMA PanesAre ==
  ASSUME NEW n
  PROVE  \A x : x \in Panes(n) <=> \E t : Has(n, x, t)
  BY DEF Panes, Has

LEMMA PanesStay ==
  ASSUME NEW n, NEW m, Same(n, m)
  PROVE  Panes(m) = Panes(n)
<1>1. \A x : x \in Panes(m) <=> x \in Panes(n)
  BY PanesAre DEF Same
<1>2. QED
  BY <1>1 DEF Panes

LEMMA PanesGain ==
  ASSUME NEW n, NEW m, NEW id, NEW type, Gains(n, m, id, type)
  PROVE  Panes(m) = Panes(n) \cup {id}
  BY PanesAre DEF Gains

LEMMA PanesLose ==
  ASSUME NEW n, NEW m, NEW id, Loses(n, m, id)
  PROVE  Panes(m) = Panes(n) \ {id}
  BY PanesAre DEF Loses

\* A tile has one type.
LEMMA OneType ==
  ASSUME NEW n, Sound(n), NEW id \in Panes(n), NEW type
  PROVE  Has(n, id, type) <=> type = FindLeaf(n, id).type
<1>1. n \in Seq(AnyTile) /\ DOMAIN n = 1 .. Len(n)
  BY LayoutFacts DEF Sound
<1>2. QED
  BY <1>1, Located DEF Has

LEMMA Retyping ==
  ASSUME NEW n, Sound(n), NEW ids, NEW type \in Kind
  PROVE  LET m == SetLeafType(n, ids, type)
         IN  /\ Sound(m) /\ Len(m) = Len(n) /\ Panes(m) = Panes(n)
             /\ \A x, t : x \notin ids => (Has(m, x, t) <=> Has(n, x, t))
<1> DEFINE m == SetLeafType(n, ids, type)
<1>1. /\ n \in Seq(AnyTile) /\ Tree(n) /\ Distinct(n) /\ Len(n) \in Nat /\ DOMAIN n = 1 .. Len(n)
      /\ \A i \in 1 .. Len(n) : n[i] \in AnyTile
  BY LayoutFacts DEF Sound
<1>2. \A i \in 1 .. Len(n) : m[i] = IF n[i].id \in ids THEN [n[i] EXCEPT !.type = type] ELSE n[i]
  BY <1>1 DEF SetLeafType
<1>3. \A i \in 1 .. Len(n) : /\ m[i] \in AnyTile /\ m[i].id = n[i].id /\ m[i].path = n[i].path
                             /\ n[i].id \notin ids => m[i].type = n[i].type
  BY <1>1, <1>2 DEF AnyTile
<1>4. m \in [1 .. Len(n) -> AnyTile]
  BY <1>1, <1>3 DEF SetLeafType
<1> HIDE DEF m
<1>5. m \in Seq(AnyTile)
  BY <1>1, <1>4, SeqDef
<1>6. Len(m) = Len(n) /\ DOMAIN m = 1 .. Len(n)
  BY <1>1, <1>4, <1>5, LenProperties
<1>7. Tree(m)
  BY <1>1, <1>3, <1>5, <1>6, SamePaths
<1>8. Distinct(m)
  BY <1>1, <1>3, <1>6 DEF Distinct
<1>9. Panes(m) = Panes(n)
  BY <1>1, <1>3, <1>6 DEF Panes
<1>10. \A x, t : x \notin ids => (Has(m, x, t) <=> Has(n, x, t))
  BY <1>1, <1>3, <1>6 DEF Has
<1>11. QED
  BY <1>5, <1>6, <1>7, <1>8, <1>9, <1>10 DEF Sound, m

LEMMA Swapping ==
  ASSUME NEW n, Sound(n), NEW a, NEW b
  PROVE  Same(n, SwapLeaves(n, a, b))
<1>1. CASE a = b \/ {a, b} \ Panes(n) # {}
  BY <1>1 DEF SwapLeaves, Same
<1>2. CASE a # b /\ {a, b} \subseteq Panes(n)
  <2> DEFINE i == At(n, a)
             j == At(n, b)
             first == [n[j] EXCEPT !.path = n[i].path]
             second == [n[i] EXCEPT !.path = n[j].path]
             base == [n EXCEPT ![i] = first]
             m == [base EXCEPT ![j] = second]
             old(k) == IF k = i THEN j ELSE IF k = j THEN i ELSE k
  <2>1. /\ n \in Seq(AnyTile) /\ Tree(n) /\ Distinct(n) /\ Len(n) \in Nat /\ DOMAIN n = 1 .. Len(n)
        /\ \A k \in 1 .. Len(n) : n[k] \in AnyTile /\ n[k].path \in Paths
    BY LayoutFacts DEF Sound
  <2>2. /\ i \in 1 .. Len(n) /\ j \in 1 .. Len(n) /\ n[i].id = a /\ n[j].id = b
        /\ FindLeaf(n, a) = n[i] /\ FindLeaf(n, b) = n[j]
    BY <1>2, Located
  <2>3. SwapLeaves(n, a, b) = m
    <3>1. SwapLeaves(n, a, b) =
            LET at(k, leaf) == [leaf EXCEPT !.path = n[k].path]
            IN  [n EXCEPT ![i] = at(i, FindLeaf(n, b)), ![j] = at(j, FindLeaf(n, a))]
      BY <1>2 DEF SwapLeaves
    <3> HIDE DEF i, j
    <3>2. QED
      BY <2>2, <3>1
  <2> HIDE DEF i, j
  <2>4. /\ first \in AnyTile /\ first.id = n[j].id /\ first.type = n[j].type /\ first.path = n[i].path
        /\ second \in AnyTile /\ second.id = n[i].id /\ second.type = n[i].type
        /\ second.path = n[j].path
    BY <2>1, <2>2 DEF AnyTile
  <2> HIDE DEF first, second
  <2>5. /\ base \in Seq(AnyTile) /\ Len(base) = Len(n)
        /\ \A k \in 1 .. Len(n) : base[k] = IF k = i THEN first ELSE n[k]
    BY <2>1, <2>2, <2>4, ExceptSeq
  <2> HIDE DEF base
  <2>6. /\ m \in Seq(AnyTile) /\ Len(m) = Len(n)
        /\ \A k \in 1 .. Len(n) : m[k] = IF k = j THEN second ELSE base[k]
    <3>1. j \in 1 .. Len(base)
      BY <2>2, <2>5
    <3>2. QED
      BY <2>4, <2>5, <3>1, ExceptSeq
  <2> HIDE DEF m
  <2>7. DOMAIN m = 1 .. Len(n)
    BY <2>6, LayoutFacts
  <2>8. \A k \in 1 .. Len(n) :
          /\ old(k) \in 1 .. Len(n) /\ old(old(k)) = k
          /\ m[k].path = n[k].path /\ m[k].id = n[old(k)].id /\ m[k].type = n[old(k)].type
    BY <1>2, <2>2, <2>4, <2>5, <2>6
  <2> HIDE DEF old
  <2>9. Tree(m)
    BY <2>1, <2>6, <2>8, SamePaths
  <2>10. Distinct(m)
    <3>1. ASSUME NEW k \in 1 .. Len(n), NEW l \in 1 .. Len(n), m[k].id = m[l].id PROVE k = l
      <4>1. old(k) = old(l)
        BY <2>1, <2>8, <3>1 DEF Distinct
      <4>2. QED
        BY <2>8, <4>1
    <3>2. QED
      BY <2>7, <3>1 DEF Distinct
  <2>11. ASSUME NEW x, NEW t PROVE Has(m, x, t) <=> Has(n, x, t)
    <3>1. ASSUME Has(m, x, t) PROVE Has(n, x, t)
      BY <2>1, <2>7, <2>8, <3>1 DEF Has
    <3>2. ASSUME Has(n, x, t) PROVE Has(m, x, t)
      <4>1. PICK k \in 1 .. Len(n) : n[k].id = x /\ n[k].type = t
        BY <2>1, <3>2 DEF Has
      <4>2. old(k) \in DOMAIN m /\ m[old(k)].id = x /\ m[old(k)].type = t
        BY <2>7, <2>8, <4>1
      <4>3. QED
        BY <4>2 DEF Has
    <3>3. QED
      BY <3>1, <3>2
  <2>12. QED
    BY <2>3, <2>6, <2>9, <2>10, <2>11 DEF Same, Sound
<1>3. QED
  BY <1>1, <1>2

LEMMA Moving ==
  ASSUME NEW n, Sound(n), NEW source, NEW target, NEW zone \in DropZones
  PROVE  Same(n, MoveLeafAdjacent(n, source, target, zone))
<1>1. CASE source = target \/ {source, target} \ Panes(n) # {}
  BY <1>1 DEF MoveLeafAdjacent, Same
<1>2. CASE source # target /\ {source, target} \subseteq Panes(n)
  <2> DEFINE rest == CloseAt(n, source)
             leaf == FindLeaf(n, source)
             dir == IF zone \in {"top", "bottom"} THEN "vertical" ELSE "horizontal"
             side == IF zone \in {"top", "left"} THEN "before" ELSE "after"
             m == SplitAt(rest, target, dir, side, leaf)
  <2>1. MoveLeafAdjacent(n, source, target, zone) = m
    BY <1>2 DEF MoveLeafAdjacent
  <2>2. leaf \in AnyTile /\ leaf.id = source
    BY <1>2, Located
  <2>3. Loses(n, rest, source)
    BY <1>2, Closing
  <2>4. Sound(rest) /\ target \in Panes(rest) /\ leaf.id \notin Panes(rest)
    <3>1. Panes(rest) = Panes(n) \ {source} /\ Sound(rest)
      BY <2>3, PanesLose DEF Loses
    <3>2. QED
      BY <1>2, <2>2, <3>1
  <2>5. dir \in {"horizontal", "vertical"} /\ side \in {"before", "after"}
    OBVIOUS
  <2> HIDE DEF rest, leaf, dir, side
  <2>6. Gains(rest, m, leaf.id, leaf.type)
    BY <2>2, <2>4, <2>5, Splitting
  <2>7. \A t : Has(n, source, t) <=> t = leaf.type
    BY <1>2, OneType DEF leaf
  <2> HIDE DEF m
  <2>8. ASSUME NEW x, NEW t PROVE Has(m, x, t) <=> Has(n, x, t)
    BY <2>2, <2>3, <2>6, <2>7 DEF Loses, Gains
  <2>9. QED
    BY <2>1, <2>6, <2>8 DEF Same, Gains
<1>3. QED
  BY <1>1, <1>2

LEMMA Growing ==
  ASSUME NEW n, Sound(n), NEW focus, NEW dir \in {"horizontal", "vertical"},
         NEW side \in {"before", "after"}, NEW peer \in AnyTile, peer.id \notin Panes(n)
  PROVE  LET m == SplitAndFocus(n, focus, dir, side, peer)
         IN  Gains(n, m, peer.id, peer.type) /\ m # NoLayout
<1> DEFINE m == SplitAndFocus(n, focus, dir, side, peer)
<1>1. Gains(n, m, peer.id, peer.type)
  <2>1. CASE n = NoLayout
    <3>1. m = Alone(peer) /\ \A x, t : ~Has(n, x, t)
      BY <2>1 DEF SplitAndFocus, Has, NoLayout
    <3>2. QED
      BY <3>1, AloneIsSound DEF Gains
  <2>2. CASE n # NoLayout
    <3> DEFINE target == IF focus \in Panes(n) THEN focus ELSE Head(n).id
    <3>1. target \in Panes(n)
      BY <2>2, LayoutFacts DEF Sound
    <3>2. m = SplitAt(n, target, dir, side, peer)
      BY <2>2 DEF SplitAndFocus
    <3> HIDE DEF target
    <3>3. QED
      BY <3>1, <3>2, Splitting
  <2>3. QED
    BY <2>1, <2>2
<1>2. m # NoLayout
  <2>1. peer.id \in Panes(m)
    BY <1>1, PanesGain
  <2>2. QED
    BY <2>1, EmptyIsSound
<1>3. QED
  BY <1>1, <1>2

LEMMA Adopting ==
  ASSUME NEW n, Sound(n), NoPane \notin Panes(n), NEW leaf \in AnyTile,
         leaf.id \in Pane, leaf.id \notin Panes(n)
  PROVE  Gains(n, Adopt(n, leaf), leaf.id, leaf.type)
<1>1. CASE n = NoLayout
  <2>1. Adopt(n, leaf) = Alone(leaf) /\ \A x, t : ~Has(n, x, t)
    BY <1>1 DEF Adopt, Has, NoLayout
  <2>2. QED
    BY <2>1, AloneIsSound DEF Gains
<1>2. CASE n # NoLayout
  <2> DEFINE first == Head(n).id
             hole == Leaf(NoPane, "none")
             next == SplitAt(n, first, "horizontal", "after", hole)
             empty == CHOOSE i \in DOMAIN next :
                        next[i].id # first /\ \A k \in 1 .. i - 1 : next[k].id = first
             placed == [leaf EXCEPT !.path = next[empty].path]
             m == [next EXCEPT ![empty] = placed]
  <2>1. Adopt(n, leaf) = m
    BY <1>2 DEF Adopt
  <2>2. /\ n \in Seq(AnyTile) /\ Len(n) \in Nat /\ 1 \in 1 .. Len(n) /\ first = n[1].id
        /\ first \in Panes(n)
    BY <1>2, LayoutFacts DEF Sound
  <2>3. hole \in AnyTile /\ hole.id = NoPane /\ hole.type = "none"
    BY EmptySeq DEF Leaf, AnyTile, AnyId, Kind, Paths
  <2>4. At(n, first) = 1
    BY <2>2, Located
  <2> HIDE DEF hole, first
  <2>5. /\ Gains(n, next, NoPane, "none") /\ Len(next) = Len(n) + 1
        /\ next[1].id = first /\ next[2].id = NoPane
    <3>1. /\ Gains(n, next, hole.id, hole.type) /\ Len(next) = Len(n) + 1
          /\ next[At(n, first)].id = first /\ next[At(n, first) + 1].id = hole.id
      BY <2>2, <2>3, Splitting
    <3> HIDE DEF next
    <3>2. At(n, first) + 1 = 2
      BY <2>4
    <3>3. QED
      BY <2>3, <2>4, <3>1, <3>2
  <2> HIDE DEF next
  <2>6. /\ next \in Seq(AnyTile) /\ Tree(next) /\ Distinct(next)
        /\ DOMAIN next = 1 .. Len(n) + 1 /\ Len(next) = Len(n) + 1
        /\ \A i \in 1 .. Len(n) + 1 : next[i] \in AnyTile /\ next[i].path \in Paths
    BY <2>5, LayoutFacts DEF Gains, Sound
  <2>7. first # NoPane
    BY <2>2
  <2>8. empty = 2
    <3>1. 2 \in DOMAIN next /\ next[2].id # first /\ \A k \in 1 .. 2 - 1 : next[k].id = first
      BY <2>2, <2>5, <2>6, <2>7
    <3>2. ASSUME NEW i \in DOMAIN next, next[i].id # first, \A k \in 1 .. i - 1 : next[k].id = first
          PROVE  i = 2
      <4>1. i \in Nat /\ i # 1
        BY <2>2, <2>5, <2>6, <3>2
      <4>2. ~(2 \in 1 .. i - 1)
        BY <2>5, <2>7, <3>2
      <4>3. QED
        BY <2>6, <4>1, <4>2
    <3>3. QED
      BY <3>1, <3>2
  <2>9. 2 \in 1 .. Len(next)
    BY <2>2, <2>6
  <2> HIDE DEF empty
  <2>10. /\ placed \in AnyTile /\ placed.id = leaf.id /\ placed.type = leaf.type
         /\ placed.path = next[2].path
    BY <2>6, <2>8, <2>9 DEF AnyTile
  <2> HIDE DEF placed
  <2>11. /\ m \in Seq(AnyTile) /\ Len(m) = Len(next)
         /\ \A i \in 1 .. Len(next) : m[i] = IF i = 2 THEN placed ELSE next[i]
    BY <2>6, <2>8, <2>9, <2>10, ExceptSeq
  <2> HIDE DEF m
  <2>12. DOMAIN m = 1 .. Len(n) + 1 /\ 2 \in 1 .. Len(n) + 1
    BY <2>6, <2>9, <2>11, LayoutFacts
  <2>13. Tree(m)
    <3>1. \A i \in 1 .. Len(next) : m[i].path = next[i].path
      BY <2>10, <2>11
    <3>2. QED
      BY <2>6, <2>11, <3>1, SamePaths
  <2>14. \A x, t : Has(next, x, t) <=> Has(n, x, t) \/ (x = NoPane /\ t = "none")
    BY <2>5 DEF Gains
  <2>15. \A i \in 1 .. Len(n) + 1 : i # 2 => next[i].id # NoPane
    BY <2>5, <2>6, <2>12 DEF Distinct
  <2>16. \A i \in 1 .. Len(n) + 1 : i # 2 => next[i].id \in Panes(n)
    <3>1. \A i \in 1 .. Len(n) + 1 : Has(next, next[i].id, next[i].type)
      BY <2>6 DEF Has
    <3>2. \A x, t : Has(n, x, t) => x \in Panes(n)
      BY DEF Has, Panes
    <3>3. QED
      BY <2>14, <2>15, <3>1, <3>2
  <2>17. Distinct(m)
    BY <2>6, <2>10, <2>11, <2>12, <2>16 DEF Distinct
  <2>18. ASSUME NEW x, NEW t
         PROVE  Has(m, x, t) <=> Has(n, x, t) \/ (x = leaf.id /\ t = leaf.type)
    <3>1. ASSUME Has(m, x, t) PROVE Has(n, x, t) \/ (x = leaf.id /\ t = leaf.type)
      <4>1. PICK i \in 1 .. Len(n) + 1 : m[i].id = x /\ m[i].type = t
        BY <2>12, <3>1 DEF Has
      <4>2. CASE i = 2
        BY <2>6, <2>10, <2>11, <4>1, <4>2
      <4>3. CASE i # 2
        <5>1. next[i].id = x /\ next[i].type = t /\ x # NoPane
          BY <2>6, <2>11, <2>15, <4>1, <4>3
        <5>2. Has(next, x, t)
          BY <2>6, <5>1 DEF Has
        <5>3. QED
          BY <2>14, <5>1, <5>2
      <4>4. QED
        BY <4>2, <4>3
    <3>2. ASSUME Has(n, x, t) PROVE Has(m, x, t)
      <4>1. x \in Panes(n) /\ x # NoPane
        BY <3>2 DEF Has, Panes
      <4>2. Has(next, x, t)
        BY <2>14, <3>2
      <4>3. PICK i \in 1 .. Len(n) + 1 : next[i].id = x /\ next[i].type = t
        BY <2>6, <4>2 DEF Has
      <4>4. i # 2
        BY <2>5, <4>1, <4>3
      <4>5. m[i].id = x /\ m[i].type = t
        BY <2>6, <2>11, <4>3, <4>4
      <4>6. QED
        BY <2>12, <4>5 DEF Has
    <3>3. Has(m, leaf.id, leaf.type)
      BY <2>6, <2>10, <2>11, <2>12 DEF Has
    <3>4. QED
      BY <3>1, <3>2, <3>3
  <2>19. QED
    BY <2>1, <2>11, <2>13, <2>17, <2>18 DEF Gains, Sound
<1>3. QED
  BY <1>1, <1>2

-----------------------------------------------------------------------------
(* The list of spaces, and what the effects make of a state.               *)

SpaceRec == [name : {"user", "focus"}, layout : Layouts, fonts : SUBSET Pane]
ModeRec == [pane : Pane \cup {NoPane}, source : Nat, snapshot : Layouts]
OnlyFirst(sp) == \A i \in DOMAIN sp : IsFocusSpace(sp[i]) => i = 1

\* The invariants, of a state as a record.
Good(s) ==
  /\ s.spaces \in Seq(SpaceRec) /\ s.spaces # << >> /\ OnlyFirst(s.spaces)
  /\ s.active \in Nat \ {0} /\ s.focused \in Pane \cup {NoPane} /\ s.mode \in ModeRec
  /\ s.mode # NotFocusing =>
       /\ s.active = 1 /\ IsFocusSpace(s.spaces[1]) /\ s.mode.pane \in Panes(s.spaces[1].layout)
       /\ s.mode.source > 1
  /\ ~IsFocusSpace(s.spaces[1]) => s.active \in DOMAIN s.spaces
  /\ LayoutOf(s) # NoLayout => s.focused \in Panes(LayoutOf(s))

WMInv == Good(Current)

\* What a handler may leave to the effects: the focus may be on no visible tile,
\* and focus mode may be on although another space has become the visible one.
Ready(w, prev) ==
  /\ w = [spaces |-> w.spaces, active |-> w.active, focused |-> w.focused, mode |-> w.mode]
  /\ w.spaces \in Seq(SpaceRec) /\ w.spaces # << >> /\ OnlyFirst(w.spaces)
  /\ w.active \in Nat \ {0} /\ w.mode \in ModeRec
  /\ LayoutOf(w) = NoLayout => w.focused \in Pane \cup {NoPane}
  /\ w.mode # NotFocusing =>
       /\ IsFocusSpace(w.spaces[1]) /\ w.mode.pane \in Pane /\ w.mode.source > 1
       /\ w.active = 1 => w.mode.pane \in Panes(w.spaces[1].layout)
       /\ w.active # 1 => prev = 1 /\ Len(w.spaces) > 1
  /\ ~IsFocusSpace(w.spaces[1]) => w.active \in DOMAIN w.spaces

LEMMA SpaceFacts ==
  ASSUME NEW sp \in Seq(SpaceRec)
  PROVE  /\ Len(sp) \in Nat /\ DOMAIN sp = 1 .. Len(sp)
         /\ sp # << >> => 1 \in 1 .. Len(sp)
         /\ \A i \in 1 .. Len(sp) : /\ sp[i] \in SpaceRec /\ sp[i].layout \in Layouts
                                    /\ sp[i].fonts \subseteq Pane
                                    /\ sp[i].name \in {"user", "focus"}
<1>1. /\ Len(sp) \in Nat /\ DOMAIN sp = 1 .. Len(sp)
      /\ \A i \in 1 .. Len(sp) : sp[i] \in SpaceRec
  BY LenProperties, ElementOfSeq
<1>2. sp # << >> => 1 \in 1 .. Len(sp)
  BY <1>1, EmptySeq
<1>3. \A s \in SpaceRec : /\ s.layout \in Layouts /\ s.fonts \subseteq Pane
                          /\ s.name \in {"user", "focus"}
  BY DEF SpaceRec
<1>4. QED
  BY <1>1, <1>2, <1>3

LEMMA NotFocusingFacts ==
  /\ NotFocusing \in ModeRec /\ NotFocusing.pane = NoPane
  /\ \A m \in ModeRec : m.pane \in Pane => m # NotFocusing
<1>1. NotFocusing \in ModeRec /\ NotFocusing.pane = NoPane
  BY EmptyIsSound DEF NotFocusing, ModeRec
<1>2. QED
  BY <1>1, BoundsAssumption

\* One space is replaced.
LEMMA OneSpace ==
  ASSUME NEW sp \in Seq(SpaceRec), NEW k \in 1 .. Len(sp), NEW s \in SpaceRec,
         s.name = sp[k].name, OnlyFirst(sp)
  PROVE  LET new == [sp EXCEPT ![k] = s]
         IN  /\ new \in Seq(SpaceRec) /\ Len(new) = Len(sp) /\ OnlyFirst(new)
             /\ \A i \in 1 .. Len(sp) : new[i] = IF i = k THEN s ELSE sp[i]
<1> DEFINE new == [sp EXCEPT ![k] = s]
<1>1. /\ new \in Seq(SpaceRec) /\ Len(new) = Len(sp)
      /\ \A i \in 1 .. Len(sp) : new[i] = IF i = k THEN s ELSE sp[i]
  BY ExceptSeq
<1>2. DOMAIN new = 1 .. Len(sp) /\ DOMAIN sp = 1 .. Len(sp)
  BY <1>1, SpaceFacts
<1> HIDE DEF new
<1>3. OnlyFirst(new)
  BY <1>1, <1>2 DEF OnlyFirst, IsFocusSpace
<1>4. QED
  BY <1>1, <1>3 DEF new

Cleaned(sp) == [i \in DOMAIN sp |-> CleanStalePaneData(sp[i])]

LEMMA Cleaning ==
  ASSUME NEW sp \in Seq(SpaceRec)
  PROVE  /\ Cleaned(sp) \in Seq(SpaceRec) /\ Len(Cleaned(sp)) = Len(sp)
         /\ DOMAIN Cleaned(sp) = 1 .. Len(sp)
         /\ \A i \in 1 .. Len(sp) :
              /\ Cleaned(sp)[i].name = sp[i].name /\ Cleaned(sp)[i].layout = sp[i].layout
              /\ Cleaned(sp)[i].fonts = sp[i].fonts \cap Panes(sp[i].layout)
<1> DEFINE new == Cleaned(sp)
<1>1. /\ Len(sp) \in Nat /\ DOMAIN sp = 1 .. Len(sp)
      /\ \A i \in 1 .. Len(sp) : sp[i] \in SpaceRec
  BY SpaceFacts
<1>2. ASSUME NEW s \in SpaceRec
      PROVE  /\ CleanStalePaneData(s) \in SpaceRec
             /\ CleanStalePaneData(s).name = s.name /\ CleanStalePaneData(s).layout = s.layout
             /\ CleanStalePaneData(s).fonts = s.fonts \cap Panes(s.layout)
  BY DEF CleanStalePaneData, SpaceRec
<1>3. new \in [1 .. Len(sp) -> SpaceRec]
  BY <1>1, <1>2 DEF Cleaned
<1>4. \A i \in 1 .. Len(sp) : new[i] = CleanStalePaneData(sp[i])
  BY <1>1 DEF Cleaned
<1> HIDE DEF new
<1>5. new \in Seq(SpaceRec)
  BY <1>1, <1>3, SeqDef
<1>6. Len(new) = Len(sp) /\ DOMAIN new = 1 .. Len(sp)
  BY <1>1, <1>3, <1>5, LenProperties
<1>7. QED
  BY <1>1, <1>2, <1>4, <1>5, <1>6 DEF new

\* One pass of the effects that does not end focus mode.
Kept(w) ==
  [spaces |-> Cleaned(w.spaces), active |-> w.active,
   focused |-> IF LayoutOf(w) # NoLayout /\ w.focused \notin Panes(LayoutOf(w))
               THEN Head(LayoutOf(w)).id ELSE w.focused,
   mode |-> w.mode]

LEMMA OnePass ==
  ASSUME NEW w, NEW prev, Ready(w, prev)
  PROVE  Effects(w, prev) = IF w.mode.pane # NoPane /\ w.active # 1 /\ prev = 1
                            THEN LeaveFocusMode(Kept(w)) ELSE Kept(w)
<1> DEFINE f == IF LayoutOf(w) # NoLayout /\ w.focused \notin Panes(LayoutOf(w))
                THEN Head(LayoutOf(w)).id ELSE w.focused
           clean == [w EXCEPT !.spaces = Cleaned(w.spaces), !.focused = f]
<1>1. Effects(w, prev) = IF w.mode.pane # NoPane /\ w.active # 1 /\ prev = 1
                         THEN LeaveFocusMode(clean) ELSE clean
  BY DEF Effects, Cleaned
<1>2. clean = Kept(w)
  <2> HIDE DEF f
  <2>1. w = [spaces |-> w.spaces, active |-> w.active, focused |-> w.focused, mode |-> w.mode]
    BY DEF Ready
  <2>2. PICK a, b, c, d : w = [spaces |-> a, active |-> b, focused |-> c, mode |-> d]
    BY <2>1
  <2>3. ASSUME NEW sp, NEW g
        PROVE  [w EXCEPT !.spaces = sp, !.focused = g] =
                 [spaces |-> sp, active |-> b, focused |-> g, mode |-> d]
    <3>1. PICK x : x = [w EXCEPT !.spaces = sp]
      OBVIOUS
    <3>2. x = [spaces |-> sp, active |-> b, focused |-> c, mode |-> d]
      BY <2>2, <3>1
    <3>3. [x EXCEPT !.focused = g] = [spaces |-> sp, active |-> b, focused |-> g, mode |-> d]
      BY <3>2
    <3>4. QED
      BY <3>1, <3>3
  <2>4. w.active = b /\ w.mode = d
    BY <2>2
  <2>5. clean = [spaces |-> Cleaned(w.spaces), active |-> b, focused |-> f, mode |-> d]
    BY <2>3, Zenon
  <2>6. Kept(w) = [spaces |-> Cleaned(w.spaces), active |-> b, focused |-> f, mode |-> d]
    BY <2>4, Zenon DEF Kept, f
  <2>7. QED
    BY <2>5, <2>6, Zenon
<1>3. QED
  BY <1>1, <1>2

LEMMA VisibleLayout ==
  ASSUME NEW w, w.spaces \in Seq(SpaceRec)
  PROVE  /\ LayoutOf(w) \in Layouts /\ Sound(LayoutOf(w)) /\ Panes(LayoutOf(w)) \subseteq Pane
         /\ LayoutOf(w) # NoLayout => /\ w.active \in 1 .. Len(w.spaces)
                                      /\ LayoutOf(w) = w.spaces[w.active].layout
                                      /\ Head(LayoutOf(w)).id \in Panes(LayoutOf(w))
<1>1. DOMAIN w.spaces = 1 .. Len(w.spaces) /\ \A i \in 1 .. Len(w.spaces) : w.spaces[i].layout \in Layouts
  BY SpaceFacts
<1>2. LayoutOf(w) \in Layouts
  BY <1>1, EmptyIsSound DEF LayoutOf
<1>3. Sound(LayoutOf(w)) /\ Panes(LayoutOf(w)) \subseteq Pane
  BY <1>2, LayoutsAreSound
<1>4. LayoutOf(w) # NoLayout => /\ w.active \in 1 .. Len(w.spaces)
                                /\ LayoutOf(w) = w.spaces[w.active].layout
  BY <1>1 DEF LayoutOf
<1>5. LayoutOf(w) # NoLayout => Head(LayoutOf(w)).id \in Panes(LayoutOf(w))
  BY <1>3, LayoutFacts DEF Sound
<1>6. QED
  BY <1>2, <1>3, <1>4, <1>5

LEMMA KeptIsGood ==
  ASSUME NEW w, NEW prev, Ready(w, prev), w.mode = NotFocusing \/ w.active = 1
  PROVE  Good(Kept(w))
<1> DEFINE s == Kept(w)
           n == LayoutOf(w)
<1>1. /\ w.spaces \in Seq(SpaceRec) /\ w.spaces # << >> /\ OnlyFirst(w.spaces)
      /\ w.active \in Nat \ {0} /\ w.mode \in ModeRec
      /\ n = NoLayout => w.focused \in Pane \cup {NoPane}
      /\ w.mode # NotFocusing => /\ IsFocusSpace(w.spaces[1]) /\ w.mode.source > 1
                                 /\ w.active = 1 /\ w.mode.pane \in Panes(w.spaces[1].layout)
      /\ ~IsFocusSpace(w.spaces[1]) => w.active \in DOMAIN w.spaces
  BY DEF Ready
<1>2. /\ s.spaces = Cleaned(w.spaces) /\ s.active = w.active /\ s.mode = w.mode
      /\ s.focused = IF n # NoLayout /\ w.focused \notin Panes(n) THEN Head(n).id ELSE w.focused
  BY DEF Kept
<1> HIDE DEF s, n
<1>3. /\ DOMAIN w.spaces = 1 .. Len(w.spaces) /\ 1 \in 1 .. Len(w.spaces)
      /\ s.spaces \in Seq(SpaceRec) /\ Len(s.spaces) = Len(w.spaces)
      /\ DOMAIN s.spaces = 1 .. Len(w.spaces)
      /\ \A i \in 1 .. Len(w.spaces) : /\ s.spaces[i].name = w.spaces[i].name
                                       /\ s.spaces[i].layout = w.spaces[i].layout
  BY <1>1, <1>2, SpaceFacts, Cleaning
<1>4. s.spaces # << >> /\ OnlyFirst(s.spaces)
  <2>1. s.spaces # << >>
    BY <1>3
  <2>2. QED
    BY <1>1, <1>3, <2>1 DEF OnlyFirst, IsFocusSpace
<1>5. LayoutOf(s) = n
  BY <1>2, <1>3 DEF LayoutOf, n
<1>6. /\ Panes(n) \subseteq Pane
      /\ n # NoLayout => Head(n).id \in Panes(n)
  BY <1>1, VisibleLayout DEF n
<1>7. n # NoLayout => s.focused \in Panes(n)
  BY <1>2, <1>6
<1>8. s.focused \in Pane \cup {NoPane}
  BY <1>1, <1>2, <1>6, <1>7
<1>9. s.mode # NotFocusing =>
       /\ s.active = 1 /\ IsFocusSpace(s.spaces[1]) /\ s.mode.pane \in Panes(s.spaces[1].layout)
       /\ s.mode.source > 1
  BY <1>1, <1>2, <1>3 DEF IsFocusSpace
<1>10. ~IsFocusSpace(s.spaces[1]) => s.active \in DOMAIN s.spaces
  BY <1>1, <1>2, <1>3 DEF IsFocusSpace
<1>11. QED
  BY <1>1, <1>2, <1>3, <1>4, <1>5, <1>7, <1>8, <1>9, <1>10 DEF Good, s

\* What LeaveFocusMode leaves: the spaces behind the focus space, with the
\* snapshot at the source.
LEMMA Leaving ==
  ASSUME NEW w, NEW prev, Ready(w, prev), w.mode # NotFocusing, w.active # 1
  PROVE  LET v == LeaveFocusMode(Kept(w))
         IN  /\ Ready(v, w.active) /\ v.mode = NotFocusing /\ v.active < w.active
             /\ Len(v.spaces) = Len(w.spaces) - 1
             /\ \A i \in DOMAIN v.spaces : ~IsFocusSpace(v.spaces[i])
             /\ w.mode.source - 1 \in DOMAIN v.spaces =>
                  v.spaces[w.mode.source - 1].layout = w.mode.snapshot
<1> DEFINE v == LeaveFocusMode(Kept(w))
           sp == Cleaned(w.spaces)
           rest == Tail(sp)
           at == w.mode.source - 1
           back == IF at \in DOMAIN rest THEN [rest EXCEPT ![at].layout = w.mode.snapshot] ELSE rest
           last == IF w.active - 1 <= Len(back) THEN w.active - 1 ELSE Len(back)
<1>1. /\ w.spaces \in Seq(SpaceRec) /\ w.spaces # << >> /\ OnlyFirst(w.spaces)
      /\ w.active \in Nat \ {0, 1} /\ w.mode \in ModeRec /\ w.mode.pane \in Pane
      /\ Len(w.spaces) > 1 /\ w.mode.source > 1
  BY DEF Ready
<1>2. v = [spaces |-> back, active |-> IF last < 1 THEN 1 ELSE last,
           focused |-> w.mode.pane, mode |-> NotFocusing]
  BY DEF LeaveFocusMode, Kept
<1>3. w.mode.snapshot \in Layouts /\ w.mode.source \in Nat
  BY <1>1 DEF ModeRec
<1>4. /\ sp \in Seq(SpaceRec) /\ Len(sp) = Len(w.spaces) /\ Len(w.spaces) \in Nat
      /\ DOMAIN w.spaces = 1 .. Len(w.spaces)
      /\ \A i \in 1 .. Len(w.spaces) : sp[i].name = w.spaces[i].name
  BY <1>1, Cleaning, SpaceFacts
<1> HIDE DEF v, sp
<1>5. /\ rest \in Seq(SpaceRec) /\ Len(rest) = Len(w.spaces) - 1
      /\ \A i \in 1 .. Len(rest) : rest[i] = sp[i + 1]
  <2>1. sp # << >>
    BY <1>1, <1>4
  <2>2. QED
    BY <1>4, <2>1, HeadTailProperties
<1> HIDE DEF rest
<1>6. /\ DOMAIN rest = 1 .. Len(w.spaces) - 1
      /\ \A i \in 1 .. Len(w.spaces) - 1 : ~IsFocusSpace(rest[i]) /\ rest[i] \in SpaceRec
  <2>1. DOMAIN rest = 1 .. Len(w.spaces) - 1
    BY <1>5, SpaceFacts
  <2>2. ASSUME NEW i \in 1 .. Len(w.spaces) - 1 PROVE ~IsFocusSpace(rest[i]) /\ rest[i] \in SpaceRec
    <3>1. rest[i] = sp[i + 1] /\ i + 1 \in 1 .. Len(w.spaces) /\ i + 1 # 1
      BY <1>1, <1>4, <1>5
    <3>2. rest[i].name = w.spaces[i + 1].name
      BY <1>4, <3>1
    <3>3. ~IsFocusSpace(w.spaces[i + 1])
      BY <1>1, <1>4, <3>1 DEF OnlyFirst
    <3>4. rest[i] \in SpaceRec
      BY <1>5, SpaceFacts
    <3>5. QED
      BY <3>2, <3>3, <3>4 DEF IsFocusSpace
  <2>3. QED
    BY <2>1, <2>2
<1>7. /\ back \in Seq(SpaceRec) /\ Len(back) = Len(w.spaces) - 1
      /\ DOMAIN back = 1 .. Len(w.spaces) - 1
      /\ \A i \in 1 .. Len(w.spaces) - 1 : ~IsFocusSpace(back[i])
      /\ at \in 1 .. Len(w.spaces) - 1 => back[at].layout = w.mode.snapshot
  <2>1. CASE at \in DOMAIN rest
    <3> DEFINE s == [rest[at] EXCEPT !.layout = w.mode.snapshot]
    <3>1. /\ back = [rest EXCEPT ![at] = s] /\ at \in 1 .. Len(rest) /\ rest[at] \in SpaceRec
      BY <1>5, <1>6, <2>1
    <3>2. s \in SpaceRec /\ s.name = rest[at].name /\ s.layout = w.mode.snapshot
      BY <1>3, <3>1 DEF SpaceRec
    <3> HIDE DEF s, back
    <3>3. OnlyFirst(rest)
      BY <1>6 DEF OnlyFirst
    <3>4. /\ back \in Seq(SpaceRec) /\ Len(back) = Len(rest)
          /\ \A i \in 1 .. Len(rest) : back[i] = IF i = at THEN s ELSE rest[i]
      BY <1>5, <3>1, <3>2, <3>3, OneSpace
    <3>5. DOMAIN back = 1 .. Len(w.spaces) - 1
      BY <1>5, <3>4, SpaceFacts
    <3>6. \A i \in 1 .. Len(w.spaces) - 1 : ~IsFocusSpace(back[i])
      BY <1>5, <1>6, <3>2, <3>4 DEF IsFocusSpace
    <3>7. back[at].layout = w.mode.snapshot
      BY <3>1, <3>2, <3>4
    <3>8. QED
      BY <1>5, <3>4, <3>5, <3>6, <3>7
  <2>2. CASE at \notin DOMAIN rest
    BY <1>5, <1>6, <2>2
  <2>3. QED
    BY <2>1, <2>2
<1> HIDE DEF back
<1>8. v.active \in 1 .. Len(w.spaces) - 1 /\ v.active < w.active
  BY <1>1, <1>2, <1>4, <1>7
<1>9. Ready(v, w.active)
  <2>1. /\ v.spaces = back /\ v.mode = NotFocusing /\ v.focused = w.mode.pane
        /\ v = [spaces |-> v.spaces, active |-> v.active, focused |-> v.focused, mode |-> v.mode]
    BY <1>2
  <2>2. back # << >> /\ OnlyFirst(back) /\ v.active \in DOMAIN back /\ v.active \in Nat \ {0}
    BY <1>1, <1>4, <1>7, <1>8 DEF OnlyFirst
  <2>3. QED
    BY <1>1, <1>7, <2>1, <2>2, NotFocusingFacts DEF Ready
<1>10. QED
  BY <1>2, <1>7, <1>8, <1>9 DEF v

\* The effects take at most two passes, and make any ready state good.
LEMMA Settling ==
  ASSUME NEW w, NEW prev, Ready(w, prev)
  PROVE  /\ w.mode = NotFocusing \/ w.active = 1 => Settle(w, prev) = Kept(w)
         /\ w.mode # NotFocusing /\ w.active # 1 =>
              Settle(w, prev) = Kept(LeaveFocusMode(Kept(w)))
         /\ Good(Settle(w, prev))
<1>1. CASE w.mode = NotFocusing \/ w.active = 1
  <2>1. Effects(w, prev) = Kept(w)
    BY <1>1, OnePass, NotFocusingFacts
  <2>2. Kept(w).active = w.active
    BY DEF Kept
  <2>3. Settle(w, prev) = Kept(w)
    BY <2>1, <2>2 DEF Settle
  <2>4. QED
    BY <1>1, <2>3, KeptIsGood
<1>2. CASE w.mode # NotFocusing /\ w.active # 1
  <2> DEFINE v == LeaveFocusMode(Kept(w))
  <2>1. /\ w.mode.pane \in Pane /\ prev = 1 /\ w.active \in Nat
    BY <1>2 DEF Ready
  <2>2. Effects(w, prev) = v
    BY <1>2, <2>1, OnePass, BoundsAssumption
  <2>3. Ready(v, w.active) /\ v.mode = NotFocusing /\ v.active < w.active
    BY <1>2, Leaving
  <2> HIDE DEF v
  <2>4. v.active # w.active
    BY <2>1, <2>3 DEF Ready
  <2>5. Effects(v, w.active) = Kept(v)
    BY <2>3, OnePass, NotFocusingFacts
  <2>6. Settle(w, prev) = Kept(v)
    BY <2>2, <2>4, <2>5 DEF Settle
  <2>7. Good(Kept(v))
    BY <2>3, KeptIsGood
  <2>8. QED
    BY <1>2, <2>6, <2>7 DEF v
<1>3. QED
  BY <1>1, <1>2

-----------------------------------------------------------------------------
(* From the record a handler leaves to the next state.                     *)

State(sp, a, f, m) == [spaces |-> sp, active |-> a, focused |-> f, mode |-> m]

LEMMA Updates ==
  ASSUME NEW sp, NEW a, NEW f, NEW m, NEW x
  PROVE  /\ [State(sp, a, f, m) EXCEPT !.spaces = x] = State(x, a, f, m)
         /\ [State(sp, a, f, m) EXCEPT !.active = x] = State(sp, x, f, m)
         /\ [State(sp, a, f, m) EXCEPT !.focused = x] = State(sp, a, x, m)
         /\ [State(sp, a, f, m) EXCEPT !.mode = x] = State(sp, a, f, x)
         /\ State(sp, a, f, m).spaces = sp /\ State(sp, a, f, m).active = a
         /\ State(sp, a, f, m).focused = f /\ State(sp, a, f, m).mode = m
  BY DEF State

LEMMA CurrentIs == Current = State(spaces, active, focused, mode)
  BY DEF Current, State

LEMMA CurrentSpacesActive ==
  ASSUME NEW x, NEW y
  PROVE  [Current EXCEPT !.spaces = x, !.active = y] = State(x, y, focused, mode)
<1>1. PICK u : u = [Current EXCEPT !.spaces = x]
  OBVIOUS
<1>2. u = State(x, active, focused, mode)
  BY <1>1, CurrentIs, Updates
<1>3. [u EXCEPT !.active = y] = State(x, y, focused, mode)
  BY <1>2, Updates
<1>4. QED
  BY <1>1, <1>3

LEMMA CurrentSpacesActiveFocused ==
  ASSUME NEW x, NEW y, NEW z
  PROVE  [Current EXCEPT !.spaces = x, !.active = y, !.focused = z] = State(x, y, z, mode)
<1>1. PICK u : u = [Current EXCEPT !.spaces = x, !.active = y]
  OBVIOUS
<1>2. u = State(x, y, focused, mode)
  BY <1>1, CurrentSpacesActive, Zenon
<1>3. [u EXCEPT !.focused = z] = State(x, y, z, mode)
  BY <1>2, Updates
<1>4. QED
  BY <1>1, <1>3

LEMMA CurrentActiveFocused ==
  ASSUME NEW y, NEW z
  PROVE  [Current EXCEPT !.active = y, !.focused = z] = State(spaces, y, z, mode)
<1>1. PICK u : u = [Current EXCEPT !.active = y]
  OBVIOUS
<1>2. u = State(spaces, y, focused, mode)
  BY <1>1, CurrentIs, Updates
<1>3. [u EXCEPT !.focused = z] = State(spaces, y, z, mode)
  BY <1>2, Updates
<1>4. QED
  BY <1>1, <1>3

LEMMA CurrentSpacesFocusedMode ==
  ASSUME NEW x, NEW y, NEW z
  PROVE  [Current EXCEPT !.spaces = x, !.focused = y, !.mode = z] = State(x, active, y, z)
<1>1. PICK u : u = [Current EXCEPT !.spaces = x]
  OBVIOUS
<1>2. u = State(x, active, focused, mode)
  BY <1>1, CurrentIs, Updates
<1>3. PICK v : v = [u EXCEPT !.focused = y]
  OBVIOUS
<1>4. v = State(x, active, y, mode)
  BY <1>2, <1>3, Updates
<1>5. [v EXCEPT !.mode = z] = State(x, active, y, z)
  BY <1>4, Updates
<1>6. QED
  BY <1>1, <1>3, <1>5

\* Only a focus space that a reload left behind lets the index leave the list.
IndexInRange == ~IsFocusSpace(spaces[1]) => active \in DOMAIN spaces

LEMMA InvParts == WMInv <=> TypeOK /\ SpaceListSound /\ IndexInRange /\ FocusedIsVisible
<1> DEFINE n == LayoutOf(Current)
<1>1. /\ Current.spaces = spaces /\ Current.active = active
      /\ Current.focused = focused /\ Current.mode = mode
  BY DEF Current
<1>2. ASSUME spaces \in Seq(SpaceRec) PROVE n # NoLayout <=> Visible # {}
  <2>1. Sound(n)
    BY <1>1, <1>2, VisibleLayout
  <2>2. n # NoLayout => Head(n).id \in Panes(n)
    BY <2>1, LayoutFacts DEF Sound
  <2>3. QED
    BY <2>2, EmptyIsSound DEF Visible
<1>3. QED
  BY <1>1, <1>2 DEF WMInv, Good, TypeOK, SpaceListSound, IndexInRange, FocusedIsVisible, Visible, SpaceRec,
     ModeRec, OnlyFirst

\* What every action may use of the state it starts in.
LEMMA Given ==
  ASSUME WMInv
  PROVE  /\ spaces \in Seq(SpaceRec) /\ spaces # << >> /\ OnlyFirst(spaces)
         /\ Len(spaces) \in Nat /\ DOMAIN spaces = 1 .. Len(spaces) /\ 1 \in 1 .. Len(spaces)
         /\ active \in Nat \ {0} /\ focused \in Pane \cup {NoPane} /\ mode \in ModeRec
         /\ mode # NotFocusing =>
              /\ active = 1 /\ IsFocusSpace(spaces[1])
              /\ mode.pane \in Panes(spaces[1].layout) /\ mode.source > 1
         /\ ~IsFocusSpace(spaces[1]) => active \in 1 .. Len(spaces)
<1>1. /\ Current.spaces = spaces /\ Current.active = active
      /\ Current.focused = focused /\ Current.mode = mode
  BY DEF Current
<1>2. /\ spaces \in Seq(SpaceRec) /\ spaces # << >> /\ OnlyFirst(spaces)
      /\ active \in Nat \ {0} /\ focused \in Pane \cup {NoPane} /\ mode \in ModeRec
      /\ mode # NotFocusing =>
           /\ active = 1 /\ IsFocusSpace(spaces[1])
           /\ mode.pane \in Panes(spaces[1].layout) /\ mode.source > 1
      /\ ~IsFocusSpace(spaces[1]) => active \in DOMAIN spaces
  BY <1>1 DEF WMInv, Good
<1>3. QED
  BY <1>2, SpaceFacts

\* The layout that is shown.
LEMMA Shown ==
  ASSUME WMInv
  PROVE  /\ Visible = Panes(LayoutOf(Current)) /\ Sound(LayoutOf(Current))
         /\ LayoutOf(Current) \in Layouts
         /\ Visible \subseteq Pane /\ Visible \subseteq SpacePanes(spaces)
         /\ SpacePanes(spaces) \subseteq Pane
         /\ active \in DOMAIN spaces => LayoutOf(Current) = spaces[active].layout
         /\ active \notin DOMAIN spaces => LayoutOf(Current) = NoLayout
         /\ Visible # {} => active \in DOMAIN spaces
         /\ LayoutOf(Current) # NoLayout => Visible # {} /\ focused \in Visible
<1> DEFINE n == LayoutOf(Current)
<1>1. Current.spaces = spaces /\ Current.active = active
  BY DEF Current
<1>2. spaces \in Seq(SpaceRec) /\ DOMAIN spaces = 1 .. Len(spaces)
  BY Given
<1>3. n = IF active \in DOMAIN spaces THEN spaces[active].layout ELSE NoLayout
  BY <1>1 DEF LayoutOf
<1>4. Sound(n) /\ Panes(n) \subseteq Pane /\ n \in Layouts
  BY <1>1, <1>2, VisibleLayout
<1>5. \A i \in DOMAIN spaces : Panes(spaces[i].layout) \subseteq Pane
  BY <1>2, SpaceFacts, LayoutsAreSound
<1>6. n # NoLayout => Head(n).id \in Panes(n)
  BY <1>4, LayoutFacts DEF Sound
<1>7. FocusedIsVisible
  BY InvParts
<1>8. QED
  BY <1>3, <1>4, <1>5, <1>6, <1>7, EmptyIsSound DEF Visible, SpacePanes, FocusedIsVisible

\* The effects end every handler that leaves a ready state in a good one.
LEMMA Becoming ==
  ASSUME NEW w, Ready(w, active), Become(w)
  PROVE  WMInv'
<1>1. PICK s : s = Settle(w, active)
  OBVIOUS
<1>2. Good(s)
  BY <1>1, Settling
<1>3. spaces' = s.spaces /\ active' = s.active /\ focused' = s.focused /\ mode' = s.mode
  BY <1>1 DEF Become
<1>4. QED
  BY <1>2, <1>3 DEF WMInv, Good, Current, LayoutOf

\* A handler that stays in its space leaves a ready state.
LEMMA StaysReady ==
  ASSUME WMInv, NEW sp \in Seq(SpaceRec), NEW f,
         Len(sp) = Len(spaces), \A i \in 1 .. Len(spaces) : sp[i].name = spaces[i].name,
         mode # NotFocusing => mode.pane \in Panes(sp[1].layout),
         LayoutOf(State(sp, active, f, mode)) = NoLayout => f \in Pane \cup {NoPane}
  PROVE  Ready(State(sp, active, f, mode), active)
<1> DEFINE w == State(sp, active, f, mode)
<1>1. w.spaces = sp /\ w.active = active /\ w.focused = f /\ w.mode = mode
  BY DEF State
<1>2. w = [spaces |-> w.spaces, active |-> w.active, focused |-> w.focused, mode |-> w.mode]
  BY DEF State
<1>3. DOMAIN sp = 1 .. Len(spaces) /\ sp # << >>
  BY Given, SpaceFacts
<1>4. OnlyFirst(sp) /\ (IsFocusSpace(sp[1]) <=> IsFocusSpace(spaces[1]))
  BY <1>3, Given DEF OnlyFirst, IsFocusSpace
<1>5. mode # NotFocusing => mode.pane \in Pane
  <2>1. sp[1].layout \in Layouts
    BY <1>3, SpaceFacts
  <2>2. QED
    BY <2>1, LayoutsAreSound
<1> HIDE DEF w
<1>6. QED
  BY <1>1, <1>2, <1>3, <1>4, <1>5, Given DEF Ready, w

\* A handler that changes to another space leaves a ready state.
LEMMA LeavesReady ==
  ASSUME WMInv, NEW sp \in Seq(SpaceRec), sp # << >>, OnlyFirst(sp),
         NEW a \in Nat \ {0}, a \in 1 .. Len(sp) \/ (IsFocusSpace(sp[1]) /\ Len(sp) > 1),
         NEW f \in Pane \cup {NoPane}, mode # NotFocusing => sp[1].name = spaces[1].name,
         mode # NotFocusing /\ a = 1 => mode.pane \in Panes(sp[1].layout)
  PROVE  Ready(State(sp, a, f, mode), active)
<1> DEFINE w == State(sp, a, f, mode)
<1>1. w.spaces = sp /\ w.active = a /\ w.focused = f /\ w.mode = mode
  BY DEF State
<1>2. w = [spaces |-> w.spaces, active |-> w.active, focused |-> w.focused, mode |-> w.mode]
  BY DEF State
<1>3. /\ Len(sp) \in Nat /\ DOMAIN sp = 1 .. Len(sp)
      /\ a # 1 => Len(sp) > 1
  BY SpaceFacts
<1>4. mode # NotFocusing => mode.pane \in Pane /\ IsFocusSpace(sp[1])
  <2>1. spaces[1].layout \in Layouts
    BY Given, SpaceFacts
  <2>2. QED
    BY <2>1, Given, LayoutsAreSound DEF IsFocusSpace
<1> HIDE DEF w
<1>5. QED
  BY <1>1, <1>2, <1>3, <1>4, Given DEF Ready, w

\* A handler that ends focus mode leaves a ready state.
LEMMA EndsReady ==
  ASSUME NEW sp \in Seq(SpaceRec), sp # << >>, OnlyFirst(sp), NEW a \in Nat \ {0}, NEW f, NEW prev,
         ~IsFocusSpace(sp[1]) => a \in DOMAIN sp,
         LayoutOf(State(sp, a, f, NotFocusing)) = NoLayout => f \in Pane \cup {NoPane}
  PROVE  Ready(State(sp, a, f, NotFocusing), prev)
<1> DEFINE w == State(sp, a, f, NotFocusing)
<1>1. w.spaces = sp /\ w.active = a /\ w.focused = f /\ w.mode = NotFocusing
  BY DEF State
<1>2. w = [spaces |-> w.spaces, active |-> w.active, focused |-> w.focused, mode |-> w.mode]
  BY DEF State
<1>3. LayoutOf(w) = NoLayout => f \in Pane \cup {NoPane}
  OBVIOUS
<1> HIDE DEF w
<1>4. w.mode \in ModeRec
  BY <1>1, NotFocusingFacts
<1>5. QED
  BY <1>1, <1>2, <1>3, <1>4 DEF Ready, w

-----------------------------------------------------------------------------
(* What a handler does to the tiles of all the spaces.                     *)

UniqueIn(sp) ==
  \A i, j \in DOMAIN sp : i < j => Panes(sp[i].layout) \cap Panes(sp[j].layout) = {}

\* Some space has a tile of an id and a type.
SomeHas(sp, x, t) == \E i \in DOMAIN sp : Has(sp[i].layout, x, t)

\* A tile has the type it had, unless it had none or is new.
TypesFollow(sp, new) ==
  \A x, t : SomeHas(new, x, t) =>
    SomeHas(sp, x, t) \/ SomeHas(sp, x, "none") \/ x \notin SpacePanes(sp)

FontsFollow(sp, new) == \A p \in SpacePanes(new) : HasFont(sp, p) => HasFont(new, p)

Follows(sp, new) == UniqueIn(new) /\ TypesFollow(sp, new) /\ FontsFollow(sp, new)

LEMMA Places ==
  ASSUME NEW sp \in Seq(SpaceRec)
  PROVE  /\ DOMAIN sp = 1 .. Len(sp) /\ Len(sp) \in Nat
         /\ \A p : p \in SpacePanes(sp) <=> \E i \in 1 .. Len(sp) : p \in Panes(sp[i].layout)
         /\ \A i \in 1 .. Len(sp) : Panes(sp[i].layout) \subseteq SpacePanes(sp)
         /\ \A i \in 1 .. Len(sp) : Panes(sp[i].layout) \subseteq Pane /\ Sound(sp[i].layout)
         /\ SpacePanes(sp) \subseteq Pane
<1>1. DOMAIN sp = 1 .. Len(sp) /\ Len(sp) \in Nat /\ \A i \in 1 .. Len(sp) : sp[i].layout \in Layouts
  BY SpaceFacts
<1>2. \A i \in 1 .. Len(sp) : Panes(sp[i].layout) \subseteq Pane /\ Sound(sp[i].layout)
  BY <1>1, LayoutsAreSound
<1>3. QED
  BY <1>1, <1>2 DEF SpacePanes

\* The place of a tile is unique, and the type in it.
LEMMA OnePlace ==
  ASSUME NEW sp \in Seq(SpaceRec)
  PROVE  UniqueIn(sp) <=>
           \A i, j \in 1 .. Len(sp) : \A p :
             p \in Panes(sp[i].layout) /\ p \in Panes(sp[j].layout) => i = j
<1>1. DOMAIN sp = 1 .. Len(sp) /\ Len(sp) \in Nat
  BY SpaceFacts
<1>2. ASSUME UniqueIn(sp), NEW i \in 1 .. Len(sp), NEW j \in 1 .. Len(sp), NEW p,
             p \in Panes(sp[i].layout), p \in Panes(sp[j].layout)
      PROVE  i = j
  <2>1. ~ i < j /\ ~ j < i
    BY <1>1, <1>2 DEF UniqueIn
  <2>2. i \in Nat /\ j \in Nat
    BY <1>1
  <2>3. QED
    BY <2>1, <2>2
<1>3. ASSUME \A i, j \in 1 .. Len(sp) : \A p :
               p \in Panes(sp[i].layout) /\ p \in Panes(sp[j].layout) => i = j
      PROVE  UniqueIn(sp)
  <2>1. ASSUME NEW i \in DOMAIN sp, NEW j \in DOMAIN sp, i < j
        PROVE  Panes(sp[i].layout) \cap Panes(sp[j].layout) = {}
    <3>1. i # j /\ i \in 1 .. Len(sp) /\ j \in 1 .. Len(sp)
      BY <1>1, <2>1
    <3>2. QED
      BY <1>3, <3>1
  <2>2. QED
    BY <2>1 DEF UniqueIn
<1>4. QED
  BY <1>2, <1>3

\* Where the spaces of new come from: space i is space g[i] with at most the new
\* tiles N in addition, which are in space k alone.
From(sp, new, g, k, N) ==
  /\ \A i \in 1 .. Len(new) : \A x \in Panes(new[i].layout) :
       \/ x \in N /\ i = k
       \/ g[i] \in 1 .. Len(sp) /\ x \in Panes(sp[g[i]].layout)
  /\ \A i, j \in 1 .. Len(new) : g[i] \in 1 .. Len(sp) /\ g[i] = g[j] => i = j
  /\ \A i \in 1 .. Len(new) : \A x, t : g[i] \in 1 .. Len(sp) /\ Has(new[i].layout, x, t) =>
       x \in N \/ Has(sp[g[i]].layout, x, t) \/ Has(sp[g[i]].layout, x, "none")
  /\ \A i \in 1 .. Len(new) : g[i] \in 1 .. Len(sp) => sp[g[i]].fonts \subseteq new[i].fonts

LEMMA HasFacts ==
  ASSUME NEW sp \in Seq(SpaceRec), NEW x
  PROVE  /\ x \in SpacePanes(sp) <=> \E t : SomeHas(sp, x, t)
         /\ \A i \in 1 .. Len(sp) : x \in Panes(sp[i].layout) <=> \E t : Has(sp[i].layout, x, t)
         /\ \A t : SomeHas(sp, x, t) <=> \E i \in 1 .. Len(sp) : Has(sp[i].layout, x, t)
<1>1. DOMAIN sp = 1 .. Len(sp) /\ \A i \in 1 .. Len(sp) : sp[i].layout \in Seq(AnyTile)
  BY Places DEF Sound
<1>2. \A i \in 1 .. Len(sp) : x \in Panes(sp[i].layout) <=> \E t : Has(sp[i].layout, x, t)
  BY <1>1, LayoutFacts
<1>3. QED
  BY <1>1, <1>2, Places DEF SomeHas

LEMMA FromFollows ==
  ASSUME NEW sp \in Seq(SpaceRec), UniqueIn(sp), NEW new \in Seq(SpaceRec),
         NEW g, NEW k, NEW N, N \cap SpacePanes(sp) = {}, From(sp, new, g, k, N)
  PROVE  Follows(sp, new)
<1>1. ASSUME NEW i \in 1 .. Len(new), NEW x \in Panes(new[i].layout)
      PROVE  \/ x \in N /\ i = k /\ x \notin SpacePanes(sp)
             \/ /\ x \notin N /\ g[i] \in 1 .. Len(sp)
                /\ x \in Panes(sp[g[i]].layout) /\ x \in SpacePanes(sp)
  <2>1. \A j \in 1 .. Len(sp) : Panes(sp[j].layout) \subseteq SpacePanes(sp)
    BY Places
  <2>2. QED
    BY <1>1, <2>1 DEF From
<1>2. UniqueIn(new)
  <2>1. ASSUME NEW i \in 1 .. Len(new), NEW j \in 1 .. Len(new), NEW p,
               p \in Panes(new[i].layout), p \in Panes(new[j].layout)
        PROVE  i = j
    <3>1. CASE p \in N
      BY <1>1, <2>1, <3>1
    <3>2. CASE p \notin N
      <4>1. g[i] \in 1 .. Len(sp) /\ p \in Panes(sp[g[i]].layout)
        BY <1>1, <2>1, <3>2
      <4>2. g[j] \in 1 .. Len(sp) /\ p \in Panes(sp[g[j]].layout)
        BY <1>1, <2>1, <3>2
      <4>3. g[i] = g[j]
        BY <4>1, <4>2, OnePlace
      <4>4. QED
        BY <4>1, <4>3 DEF From
    <3>3. QED
      BY <3>1, <3>2
  <2>2. QED
    BY <2>1, OnePlace
<1>3. TypesFollow(sp, new)
  <2>1. ASSUME NEW x, NEW t, SomeHas(new, x, t), x \in SpacePanes(sp)
        PROVE  SomeHas(sp, x, t) \/ SomeHas(sp, x, "none")
    <3>1. PICK i \in 1 .. Len(new) : Has(new[i].layout, x, t) /\ x \in Panes(new[i].layout)
      BY <2>1, HasFacts
    <3>2. x \notin N /\ g[i] \in 1 .. Len(sp)
      BY <1>1, <2>1, <3>1
    <3>3. Has(sp[g[i]].layout, x, t) \/ Has(sp[g[i]].layout, x, "none")
      BY <3>1, <3>2 DEF From
    <3>4. QED
      BY <3>2, <3>3, HasFacts
  <2>2. QED
    BY <2>1 DEF TypesFollow
<1>4. FontsFollow(sp, new)
  <2>1. ASSUME NEW p \in SpacePanes(new), HasFont(sp, p) PROVE HasFont(new, p)
    <3>1. PICK i \in 1 .. Len(sp) : p \in sp[i].fonts /\ p \in Panes(sp[i].layout)
      BY <2>1, Places DEF HasFont
    <3>2. PICK j \in 1 .. Len(new) : p \in Panes(new[j].layout)
      BY Places
    <3>3. p \in SpacePanes(sp)
      BY <3>1, Places
    <3>4. g[j] \in 1 .. Len(sp) /\ p \in Panes(sp[g[j]].layout)
      BY <1>1, <3>2, <3>3
    <3>5. g[j] = i
      BY <3>1, <3>4, OnePlace
    <3>6. p \in new[j].fonts
      BY <3>1, <3>4, <3>5 DEF From
    <3>7. QED
      BY <3>2, <3>6, Places DEF HasFont
  <2>2. QED
    BY <2>1 DEF FontsFollow
<1>5. QED
  BY <1>2, <1>3, <1>4 DEF Follows

\* The layout of one space changes, and possibly its fonts grow: the tiles that
\* come are new ones, and only untyped ones change their type.
LEMMA OneSpaceFollows ==
  ASSUME NEW sp \in Seq(SpaceRec), UniqueIn(sp), NEW k \in 1 .. Len(sp), NEW new \in Seq(SpaceRec),
         Len(new) = Len(sp), \A i \in 1 .. Len(sp) : i # k => new[i] = sp[i],
         NEW N, N \cap SpacePanes(sp) = {},
         Panes(new[k].layout) \subseteq Panes(sp[k].layout) \cup N,
         \A x, t : Has(new[k].layout, x, t) =>
           x \in N \/ Has(sp[k].layout, x, t) \/ Has(sp[k].layout, x, "none"),
         sp[k].fonts \subseteq new[k].fonts
  PROVE  /\ Follows(sp, new)
         /\ \A p \in SpacePanes(sp) \ SpacePanes(new) :
              p \in Panes(sp[k].layout) \ Panes(new[k].layout)
<1> DEFINE g == [i \in 1 .. Len(sp) |-> i]
<1>1. \A i \in 1 .. Len(sp) : g[i] = i
  OBVIOUS
<1> HIDE DEF g
<1>2. From(sp, new, g, k, N)
  BY <1>1, Zenon DEF From
<1>3. Follows(sp, new)
  BY <1>2, FromFollows
<1>4. \A p \in SpacePanes(sp) \ SpacePanes(new) : p \in Panes(sp[k].layout) \ Panes(new[k].layout)
  BY Places
<1>5. QED
  BY <1>3, <1>4

LEMMA UnchangedFollows ==
  ASSUME NEW sp \in Seq(SpaceRec), UniqueIn(sp)
  PROVE  Follows(sp, sp)
  BY DEF Follows, TypesFollow, FontsFollow

\* The effects change no layout, and drop no font of a tile that is there.
LEMMA CleaningFollows ==
  ASSUME NEW sp, NEW new \in Seq(SpaceRec)
  PROVE  /\ SpacePanes(Cleaned(new)) = SpacePanes(new)
         /\ \A x, t : SomeHas(Cleaned(new), x, t) <=> SomeHas(new, x, t)
         /\ UniqueIn(new) => UniqueIn(Cleaned(new))
         /\ TypesFollow(sp, new) => TypesFollow(sp, Cleaned(new))
         /\ FontsFollow(sp, new) => FontsFollow(sp, Cleaned(new))
<1> DEFINE c == Cleaned(new)
<1>1. /\ DOMAIN c = DOMAIN new
      /\ \A i \in DOMAIN new : /\ c[i].layout = new[i].layout
                               /\ c[i].fonts = new[i].fonts \cap Panes(new[i].layout)
  BY Cleaning, SpaceFacts
<1> HIDE DEF c
<1>2. SpacePanes(c) = SpacePanes(new)
  BY <1>1 DEF SpacePanes
<1>3. \A x, t : SomeHas(c, x, t) <=> SomeHas(new, x, t)
  BY <1>1 DEF SomeHas
<1>4. UniqueIn(new) => UniqueIn(c)
  BY <1>1 DEF UniqueIn
<1>5. TypesFollow(sp, new) => TypesFollow(sp, c)
  BY <1>3 DEF TypesFollow
<1>6. \A p : HasFont(new, p) => HasFont(c, p)
  BY <1>1 DEF HasFont
<1>7. QED
  BY <1>2, <1>3, <1>4, <1>5, <1>6 DEF FontsFollow, c

-----------------------------------------------------------------------------
(* The handlers that stay in their space.                                  *)

\* A handler leaves the index in the list or to the end of focus mode, unless it
\* is out of it already or the header counts a focus space twice.
KeepsIndex(w) ==
  active \in DOMAIN spaces /\ ~HeaderCountsTwice =>
    w.active \in DOMAIN w.spaces \/ w.mode # NotFocusing

\* The record w is what a handler makes of the state; it loses only the tiles lost.
Handles(w, lost) ==
  /\ Ready(w, active) /\ Become(w) /\ KeepsIndex(w)
  /\ mode = NotFocusing => w.mode = NotFocusing \/ w.active = 1
  /\ Ordinary => /\ UniqueIn(w.spaces) /\ TypesFollow(spaces, w.spaces)
                 /\ w.mode = NotFocusing => FontsFollow(spaces, w.spaces)
                 /\ SpacePanes(spaces) \ SpacePanes(w.spaces) \subseteq lost

\* Focus mode goes on, as far as the handler is concerned, and no space goes.
Stays(w) == w.mode = mode /\ Len(w.spaces) >= Len(spaces)

WithLayout(s, n) == [s EXCEPT !.layout = n]
WithFont(s, p) == [s EXCEPT !.fonts = @ \cup {p}]

LEMMA SpaceUpdates ==
  ASSUME NEW s \in SpaceRec, NEW n \in Layouts, NEW p \in Pane
  PROVE  /\ WithLayout(s, n) \in SpaceRec /\ WithLayout(s, n).name = s.name
         /\ WithLayout(s, n).layout = n /\ WithLayout(s, n).fonts = s.fonts
         /\ WithFont(s, p) \in SpaceRec /\ WithFont(s, p).name = s.name
         /\ WithFont(s, p).layout = s.layout /\ WithFont(s, p).fonts = s.fonts \cup {p}
  BY DEF SpaceRec, WithLayout, WithFont

\* The state with another visible space and focus.
Here(s, f) == State([spaces EXCEPT ![active] = s], active, f, mode)

LEMMA SettingLayout ==
  ASSUME NEW n, active \in DOMAIN spaces, NEW f
  PROVE  SetLayout(State(spaces, active, f, mode), n) = Here(WithLayout(spaces[active], n), f)
<1> DEFINE w == State(spaces, active, f, mode)
           new == [spaces EXCEPT ![active] = [spaces[active] EXCEPT !.layout = n]]
<1>1. w.spaces = spaces /\ w.active = active
  BY Updates
<1>2. SetLayout(w, n) = [w EXCEPT !.spaces = new]
  BY <1>1 DEF SetLayout
<1> HIDE DEF new
<1>3. [w EXCEPT !.spaces = new] = State(new, active, f, mode)
  BY Updates
<1>4. QED
  BY <1>2, <1>3 DEF new, WithLayout, Here

LEMMA SettingNothing ==
  ASSUME active \notin DOMAIN spaces
  PROVE  \A n, f : /\ SetLayout(Current, n) = State(spaces, active, focused, mode)
                  /\ [SetLayout(Current, n) EXCEPT !.focused = f] = State(spaces, active, f, mode)
<1>1. \A n : SetLayout(Current, n) = State(spaces, active, focused, mode)
  BY CurrentIs, Updates DEF SetLayout
<1>2. \A f : [State(spaces, active, focused, mode) EXCEPT !.focused = f] =
               State(spaces, active, f, mode)
  BY Updates
<1>3. QED
  BY <1>1, <1>2

LEMMA AddingFont ==
  ASSUME NEW a, NEW sp, NEW f, NEW m, NEW i \in DOMAIN sp, NEW p
  PROVE  AddFont(State(sp, a, f, m), i, p) =
           State([sp EXCEPT ![i] = WithFont(sp[i], p)], a, f, m)
<1> DEFINE w == State(sp, a, f, m)
           new == [sp EXCEPT ![i] = [sp[i] EXCEPT !.fonts = @ \cup {p}]]
<1>1. w.spaces = sp
  BY Updates
<1>2. AddFont(w, i, p) = [w EXCEPT !.spaces = new]
  BY <1>1 DEF AddFont
<1> HIDE DEF new
<1>3. [w EXCEPT !.spaces = new] = State(new, a, f, m)
  BY Updates
<1>4. QED
  BY <1>2, <1>3 DEF new, WithFont

LEMMA Overwriting ==
  ASSUME NEW sp, NEW a, NEW s, NEW t, NEW new, new = [sp EXCEPT ![a] = s]
  PROVE  [new EXCEPT ![a] = t] = [sp EXCEPT ![a] = t]
<1>1. DOMAIN new = DOMAIN sp /\ \A i \in DOMAIN sp : i # a => new[i] = sp[i]
  OBVIOUS
<1>2. QED
  BY <1>1

LEMMA HereFacts ==
  ASSUME WMInv, active \in DOMAIN spaces
  PROVE  /\ \A n : SetLayout(Current, n) = Here(WithLayout(spaces[active], n), focused)
         /\ \A s, f, p : AddFont(Here(s, f), active, p) = Here(WithFont(s, p), f)
         /\ \A s, f, x : [Here(s, f) EXCEPT !.focused = x] = Here(s, x)
<1>1. \A n : SetLayout(Current, n) = Here(WithLayout(spaces[active], n), focused)
  BY SettingLayout, CurrentIs
<1>2. ASSUME NEW s, NEW f, NEW p PROVE AddFont(Here(s, f), active, p) = Here(WithFont(s, p), f)
  <2>1. PICK sp : sp = [spaces EXCEPT ![active] = s]
    OBVIOUS
  <2>2. active \in DOMAIN sp /\ sp[active] = s
    BY <2>1
  <2>3. [sp EXCEPT ![active] = WithFont(s, p)] = [spaces EXCEPT ![active] = WithFont(s, p)]
    BY <2>1, Overwriting, Zenon
  <2>4. AddFont(State(sp, active, f, mode), active, p) =
          State([sp EXCEPT ![active] = WithFont(s, p)], active, f, mode)
    BY <2>2, AddingFont
  <2>5. QED
    BY <2>1, <2>3, <2>4 DEF Here
<1>3. ASSUME NEW s, NEW f, NEW x PROVE [Here(s, f) EXCEPT !.focused = x] = Here(s, x)
  <2>1. PICK sp : sp = [spaces EXCEPT ![active] = s]
    OBVIOUS
  <2>2. [State(sp, active, f, mode) EXCEPT !.focused = x] = State(sp, active, x, mode)
    BY Updates
  <2>3. QED
    BY <2>1, <2>2 DEF Here
<1>4. QED
  BY <1>1, <1>2, <1>3

LEMMA StateUnique == Unique <=> UniqueIn(spaces)
  BY DEF Unique, UniqueIn

\* A handler that updates the visible space.
LEMMA UpdatesSpace ==
  ASSUME WMInv, active \in 1 .. Len(spaces), NEW s \in SpaceRec, s.name = spaces[active].name,
         NEW N, N \cap SpacePanes(spaces) = {},
         Panes(s.layout) \subseteq Visible \cup N,
         \A x, t : Has(s.layout, x, t) => \/ x \in N
                                          \/ Has(LayoutOf(Current), x, t)
                                          \/ Has(LayoutOf(Current), x, "none"),
         spaces[active].fonts \subseteq s.fonts,
         mode # NotFocusing => mode.pane \in Panes(s.layout),
         NEW f, s.layout = NoLayout => f \in Pane \cup {NoPane},
         NEW lost, Visible \ Panes(s.layout) \subseteq lost,
         Become(Here(s, f))
  PROVE  \E w : Handles(w, lost) /\ Stays(w)
<1> DEFINE sp == [spaces EXCEPT ![active] = s]
           w == State(sp, active, f, mode)
<1>1. /\ sp \in Seq(SpaceRec) /\ Len(sp) = Len(spaces)
      /\ \A i \in 1 .. Len(spaces) : sp[i] = IF i = active THEN s ELSE spaces[i]
  BY Given, OneSpace
<1>2. Become(w)
  BY DEF Here
<1> HIDE DEF sp
<1>3. w.spaces = sp /\ w.active = active /\ w.focused = f /\ w.mode = mode
  BY Updates
<1>4. LayoutOf(Current) = spaces[active].layout /\ Visible = Panes(spaces[active].layout)
  BY Given, Shown
<1>5. LayoutOf(w) = s.layout
  <2>1. DOMAIN sp = 1 .. Len(spaces)
    BY <1>1, SpaceFacts
  <2>2. QED
    BY <1>1, <1>3, <2>1 DEF LayoutOf
<1>6. Ready(w, active)
  <2>1. \A i \in 1 .. Len(spaces) : sp[i].name = spaces[i].name
    BY <1>1
  <2>2. mode # NotFocusing => mode.pane \in Panes(sp[1].layout)
    BY <1>1, Given
  <2>3. QED
    BY <1>1, <1>5, <2>1, <2>2, StaysReady
<1>7. /\ Follows(spaces, sp)
      /\ \A p \in SpacePanes(spaces) \ SpacePanes(sp) :
           p \in Panes(spaces[active].layout) \ Panes(sp[active].layout)
  <2>1. sp[active] = s /\ \A i \in 1 .. Len(spaces) : i # active => sp[i] = spaces[i]
    BY <1>1
  <2>2. spaces \in Seq(SpaceRec) /\ UniqueIn(spaces)
    BY <1>2, Given, StateUnique DEF Become
  <2>3. Panes(sp[active].layout) \subseteq Panes(spaces[active].layout) \cup N
    BY <1>4, <2>1
  <2>4. \A x, t : Has(sp[active].layout, x, t) =>
          x \in N \/ Has(spaces[active].layout, x, t) \/ Has(spaces[active].layout, x, "none")
    BY <1>4, <2>1
  <2>5. spaces[active].fonts \subseteq sp[active].fonts
    BY <2>1
  <2>6. sp \in Seq(SpaceRec) /\ Len(sp) = Len(spaces)
    BY <1>1
  <2>7. QED
    BY <2>1, <2>2, <2>3, <2>4, <2>5, <2>6, OneSpaceFollows, Zenon
<1>8. SpacePanes(spaces) \ SpacePanes(sp) \subseteq lost
  BY <1>1, <1>4, <1>7
<1>9. Len(sp) >= Len(spaces)
  BY <1>1, Given
<1>10. KeepsIndex(w)
  BY <1>1, <1>3, SpaceFacts DEF KeepsIndex
<1> HIDE DEF w
<1>11. QED
  BY <1>2, <1>3, <1>6, <1>7, <1>8, <1>9, <1>10 DEF Handles, Stays, Follows

\* A handler that only moves the focus.
LEMMA MovesFocus ==
  ASSUME WMInv, NEW f, LayoutOf(Current) = NoLayout => f \in Pane \cup {NoPane},
         Become(State(spaces, active, f, mode)), NEW lost
  PROVE  \E w : Handles(w, lost) /\ Stays(w)
<1> DEFINE w == State(spaces, active, f, mode)
<1>1. w.spaces = spaces /\ w.active = active /\ w.focused = f /\ w.mode = mode
  BY Updates
<1>2. LayoutOf(w) = LayoutOf(Current)
  BY <1>1 DEF LayoutOf, Current
<1>3. Ready(w, active)
  BY <1>2, Given, StaysReady
<1>4. Follows(spaces, spaces)
  BY UnchangedFollows, Given, StateUnique DEF Become
<1>5. Len(spaces) >= Len(spaces)
  BY Given
<1> HIDE DEF w
<1>6. Become(w) /\ KeepsIndex(w)
  BY <1>1 DEF w, KeepsIndex
<1>7. QED
  BY <1>1, <1>3, <1>4, <1>5, <1>6 DEF Handles, Stays, Follows

\* The same, with the new layout and possibly a font of the visible space.
LEMMA UpdatesLayout ==
  ASSUME WMInv, active \in 1 .. Len(spaces), NEW m, Sound(m),
         NEW N \in SUBSET Pane, N \cap SpacePanes(spaces) = {},
         Panes(m) \subseteq Visible \cup N,
         \A x, t : Has(m, x, t) => \/ x \in N
                                   \/ Has(LayoutOf(Current), x, t)
                                   \/ Has(LayoutOf(Current), x, "none"),
         mode # NotFocusing => mode.pane \in Panes(m),
         NEW f, m = NoLayout => f \in Pane \cup {NoPane},
         NEW lost, Visible \ Panes(m) \subseteq lost,
         NEW s, \/ s = WithLayout(spaces[active], m)
                \/ \E q \in Pane : s = WithFont(WithLayout(spaces[active], m), q),
         Become(Here(s, f))
  PROVE  \E w : Handles(w, lost) /\ Stays(w)
<1> DEFINE old == spaces[active]
           mid == WithLayout(old, m)
<1>1. old \in SpaceRec /\ Panes(m) \subseteq Pane
  BY Given, SpaceFacts, Shown
<1>2. m \in Layouts
  BY <1>1, LayoutsAreSound
<1>3. /\ mid \in SpaceRec /\ mid.name = old.name /\ mid.layout = m /\ mid.fonts = old.fonts
  BY <1>1, <1>2, SpaceUpdates, BoundsAssumption
<1> HIDE DEF mid
<1>4. s \in SpaceRec /\ s.name = old.name /\ s.layout = m /\ old.fonts \subseteq s.fonts
  <2>1. CASE s = mid
    BY <1>3, <2>1
  <2>2. CASE \E q \in Pane : s = WithFont(mid, q)
    BY <1>2, <1>3, <2>2, SpaceUpdates
  <2>3. QED
    BY <2>1, <2>2 DEF mid
<1>5. QED
  BY <1>4, UpdatesSpace

\* A tile that nothing refers to any more.
LEMMA Fresh ==
  ASSUME WMInv, NEW new \in Unused, NEW type \in Types \cup {"none"}
  PROVE  /\ new \in Pane /\ new # NoPane /\ new \notin SpacePanes(spaces)
         /\ new \notin Panes(LayoutOf(Current))
         /\ Leaf(new, type) \in AnyTile
         /\ Leaf(new, type).id = new /\ Leaf(new, type).type = type
<1>1. new \in Pane /\ new \notin SpacePanes(spaces)
  BY DEF Unused
<1>2. new \notin Panes(LayoutOf(Current))
  BY <1>1, Shown
<1>3. << >> \in Paths
  BY EmptySeq DEF Paths
<1>4. QED
  BY <1>1, <1>2, <1>3, BoundsAssumption DEF Leaf, AnyTile, AnyId, Kind

\* A new tile in the visible space.
LEMMA AddsTile ==
  ASSUME WMInv, active \in 1 .. Len(spaces), NEW new \in Unused, NEW type, NEW m,
         Gains(LayoutOf(Current), m, new, type), NEW s,
         \/ s = WithLayout(spaces[active], m)
         \/ s = WithFont(WithLayout(spaces[active], m), new),
         Become(Here(s, new))
  PROVE  \E w : Handles(w, {}) /\ Stays(w)
<1>1. new \in Pane /\ new \notin SpacePanes(spaces)
  BY DEF Unused
<1>2. Panes(m) = Visible \cup {new}
  BY PanesGain, Shown
<1>3. \A x, t : Has(m, x, t) => x \in {new} \/ Has(LayoutOf(Current), x, t)
  BY DEF Gains
<1>4. mode # NotFocusing => mode.pane \in Panes(m)
  BY <1>2, Given, Shown
<1>5. Sound(m)
  BY DEF Gains
<1>6. \/ s = WithLayout(spaces[active], m)
      \/ \E q \in Pane : s = WithFont(WithLayout(spaces[active], m), q)
  BY <1>1
<1> DEFINE N == {new}
<1>7. N \in SUBSET Pane /\ N \cap SpacePanes(spaces) = {} /\ Panes(m) \subseteq Visible \cup N
  BY <1>1, <1>2
<1>8. \A x, t : Has(m, x, t) => \/ x \in N
                                \/ Has(LayoutOf(Current), x, t)
                                \/ Has(LayoutOf(Current), x, "none")
  BY <1>3
<1>9. m = NoLayout => new \in Pane \cup {NoPane}
  BY <1>1
<1>10. Visible \ Panes(m) \subseteq {}
  BY <1>2
<1> HIDE DEF N
<1>11. QED
  BY <1>4, <1>5, <1>6, <1>7, <1>8, <1>9, <1>10, UpdatesLayout

LEMMA Splits ==
  ASSUME WMInv, NEW new, NEW dir \in {"horizontal", "vertical"},
         NEW side \in {"before", "after"}, SplitTile(new, dir, side)
  PROVE  \E w : Handles(w, {}) /\ Stays(w)
<1> DEFINE n == LayoutOf(Current)
           m == SplitAndFocus(n, focused, dir, side, Leaf(new, "none"))
<1>1. new \in Unused /\ Become([SetLayout(Current, m) EXCEPT !.focused = new])
  BY DEF SplitTile
<1>2. Gains(n, m, new, "none")
  BY <1>1, Fresh, Shown, Growing
<1> HIDE DEF m
<1>3. CASE active \in DOMAIN spaces
  <2> DEFINE s == WithLayout(spaces[active], m)
  <2>1. SetLayout(Current, m) = Here(s, focused)
    BY <1>3, HereFacts
  <2> HIDE DEF s
  <2>2. [SetLayout(Current, m) EXCEPT !.focused = new] = Here(s, new)
    BY <1>3, <2>1, HereFacts
  <2>3. Become(Here(s, new))
    BY <1>1, <2>2
  <2>4. active \in 1 .. Len(spaces)
    BY <1>3, Given
  <2>5. QED
    BY <1>1, <1>2, <2>3, <2>4, AddsTile DEF s
<1>4. CASE active \notin DOMAIN spaces
  <2>1. [SetLayout(Current, m) EXCEPT !.focused = new] = State(spaces, active, new, mode)
    BY <1>4, SettingNothing
  <2>2. Become(State(spaces, active, new, mode))
    BY <1>1, <2>1
  <2>3. QED
    BY <1>1, <2>2, Fresh, MovesFocus
<1>5. QED
  BY <1>3, <1>4

LEMMA Opens ==
  ASSUME WMInv, NEW new, NEW source \in Pane \cup {NoPane}, NEW type \in Types,
         OpenTile(new, source, type)
  PROVE  \E w : Handles(w, {}) /\ Stays(w)
<1> DEFINE w == State(spaces, active, source, mode)
           n == LayoutOf(Current)
           m == SplitAndFocus(n, source, ResolveSplit(w), "after", Leaf(new, type))
           next == SetLayout(w, m)
           typed == IF type = "term" THEN AddFont(next, active, new) ELSE next
<1>1. [Current EXCEPT !.focused = source] = w /\ LayoutOf(w) = n
  BY CurrentIs, Updates DEF LayoutOf, Current
<1>2. new \in Unused /\ Become(IF active \in DOMAIN spaces THEN [typed EXCEPT !.focused = new] ELSE w)
  BY <1>1 DEF OpenTile
<1>3. Gains(n, m, new, type)
  <2>1. ResolveSplit(w) \in {"horizontal", "vertical"}
    BY DEF ResolveSplit
  <2>2. /\ Sound(n) /\ Leaf(new, type) \in AnyTile /\ new \notin Panes(n)
        /\ Leaf(new, type).id = new /\ Leaf(new, type).type = type
    BY <1>2, Fresh, Shown
  <2>3. QED
    BY <2>1, <2>2, Growing
<1> HIDE DEF m
<1>4. CASE active \in DOMAIN spaces
  <2> DEFINE s == WithLayout(spaces[active], m)
             s2 == IF type = "term" THEN WithFont(s, new) ELSE s
  <2>1. next = Here(s, source)
    BY <1>4, SettingLayout
  <2> HIDE DEF s
  <2>2. typed = Here(s2, source)
    BY <1>4, <2>1, HereFacts
  <2> HIDE DEF s2, typed
  <2>3. [typed EXCEPT !.focused = new] = Here(s2, new)
    BY <1>4, <2>2, HereFacts
  <2>4. Become(Here(s2, new))
    BY <1>2, <1>4, <2>3
  <2>5. active \in 1 .. Len(spaces)
    BY <1>4, Given
  <2>6. \/ s2 = WithLayout(spaces[active], m)
        \/ s2 = WithFont(WithLayout(spaces[active], m), new)
    BY DEF s, s2
  <2>7. QED
    BY <1>2, <1>3, <2>4, <2>5, <2>6, AddsTile
<1>5. CASE active \notin DOMAIN spaces
  BY <1>2, <1>5, MovesFocus
<1>6. QED
  BY <1>4, <1>5

\* The type of untyped tiles of the visible space.
LEMMA Picks ==
  ASSUME WMInv, NEW p, NEW type \in Types, PickType(p, type)
  PROVE  \E w : Handles(w, {}) /\ Stays(w)
<1> DEFINE n == LayoutOf(Current)
           m == SetLeafType(n, {p}, type)
           s == WithLayout(spaces[active], m)
           s2 == IF type = "term" THEN WithFont(s, p) ELSE s
<1>1. /\ p \in Visible /\ FindLeaf(n, p).type = "none"
      /\ Become(IF type = "term" THEN AddFont(SetLayout(Current, m), active, p)
                ELSE SetLayout(Current, m))
  BY DEF PickType
<1>2. active \in DOMAIN spaces /\ active \in 1 .. Len(spaces) /\ p \in Panes(n) /\ p \in Pane /\ Sound(n)
  BY <1>1, Shown, Given
<1>3. /\ Sound(m) /\ Panes(m) = Panes(n) /\ Len(m) = Len(n)
      /\ \A x, t : x \notin {p} => (Has(m, x, t) <=> Has(n, x, t))
  BY <1>2, Retyping DEF Kind
<1>4. Has(n, p, "none")
  BY <1>1, <1>2, OneType
<1> HIDE DEF m
<1>5. SetLayout(Current, m) = Here(s, focused)
  BY <1>2, HereFacts
<1> HIDE DEF s
<1>6. Become(Here(s2, focused))
  BY <1>1, <1>2, <1>5, HereFacts
<1> DEFINE N == {}
<1>7. N \in SUBSET Pane /\ N \cap SpacePanes(spaces) = {} /\ Panes(m) \subseteq Visible \cup N
  BY <1>3, Shown
<1>8. \A x, t : Has(m, x, t) => x \in N \/ Has(n, x, t) \/ Has(n, x, "none")
  BY <1>3, <1>4
<1>9. /\ mode # NotFocusing => mode.pane \in Panes(m)
      /\ m = NoLayout => focused \in Pane \cup {NoPane}
      /\ Visible \ Panes(m) \subseteq {}
  BY <1>3, Given, Shown
<1>10. \/ s2 = WithLayout(spaces[active], m)
       \/ \E q \in Pane : s2 = WithFont(WithLayout(spaces[active], m), q)
  BY <1>2 DEF s
<1> HIDE DEF N, n, s2
<1>11. QED
  BY <1>2, <1>3, <1>6, <1>7, <1>8, <1>9, <1>10, UpdatesLayout DEF n

LEMMA SetsFont ==
  ASSUME WMInv, NEW p, SetTileFontSize(p)
  PROVE  \E w : Handles(w, {}) /\ Stays(w)
<1> DEFINE owns(i) == /\ p \in Panes(spaces[i].layout)
                      /\ \A k \in 1 .. i - 1 : p \notin Panes(spaces[k].layout)
           owner == CHOOSE i \in DOMAIN spaces : owns(i)
           n == LayoutOf(Current)
           s == spaces[active]
<1>1. p \in Visible /\ Become(AddFont(Current, owner, p))
  BY DEF SetTileFontSize
<1>2. /\ active \in DOMAIN spaces /\ active \in 1 .. Len(spaces) /\ p \in Panes(s.layout) /\ p \in Pane
      /\ n = s.layout /\ s \in SpaceRec /\ Len(spaces) \in Nat
  BY <1>1, Shown, Given, SpaceFacts
<1>3. UniqueIn(spaces)
  BY <1>1, StateUnique DEF Become
<1>4. \A i \in 1 .. Len(spaces) : p \in Panes(spaces[i].layout) => i = active
  BY <1>2, <1>3, OnePlace, Given
<1>5. owns(active)
  BY <1>2, <1>4
<1>6. owner \in DOMAIN spaces /\ owns(owner)
  BY <1>2, <1>5
<1>7. owner = active
  BY <1>4, <1>6, Given
<1> HIDE DEF owner
<1>8. AddFont(Current, active, p) = Here(WithFont(s, p), focused)
  BY <1>2, CurrentIs, AddingFont DEF Here
<1>9. Become(Here(WithFont(s, p), focused))
  BY <1>1, <1>7, <1>8
<1>10. /\ WithFont(s, p) \in SpaceRec /\ WithFont(s, p).name = s.name
       /\ WithFont(s, p).layout = s.layout /\ s.fonts \subseteq WithFont(s, p).fonts
  BY <1>2, SpaceUpdates, EmptyIsSound
<1> DEFINE s2 == WithFont(s, p)
           N == {}
<1>11. /\ N \cap SpacePanes(spaces) = {}
       /\ Panes(s2.layout) \subseteq Visible \cup N
       /\ \A x, t : Has(s2.layout, x, t) => x \in N \/ Has(n, x, t) \/ Has(n, x, "none")
       /\ mode # NotFocusing => mode.pane \in Panes(s2.layout)
       /\ s2.layout = NoLayout => focused \in Pane \cup {NoPane}
       /\ Visible \ Panes(s2.layout) \subseteq {}
  BY <1>2, <1>10, Given, Shown
<1> HIDE DEF s2, N, n
<1>12. QED
  BY <1>2, <1>9, <1>10, <1>11, UpdatesSpace DEF s2, n

\* A tile alone has no neighbour, and no tile remains to take the focus.
LEMMA FocusWhenEmpty ==
  ASSUME NEW n, Sound(n), NEW id, CloseAt(n, id) = NoLayout
  PROVE  FocusAfterClose(n, id) = NoPane
<1> DEFINE rects == ComputeTiling(n)
<1>1. /\ DOMAIN rects = DOMAIN n /\ \A i \in DOMAIN n : rects[i].id = n[i].id
      /\ Len(n) \in Nat /\ DOMAIN n = 1 .. Len(n)
  BY LayoutFacts DEF ComputeTiling, Sound
<1>2. \A i \in DOMAIN n : n[i].id = id
  <2>1. CASE id \in Panes(n)
    <3>1. Len(CloseAt(n, id)) = Len(n) - 1
      BY <2>1, Closing
    <3>2. Len(n) = 1
      BY <1>1, <3>1 DEF NoLayout
    <3>3. PICK i \in DOMAIN n : n[i].id = id
      BY <2>1 DEF Panes
    <3>4. QED
      BY <1>1, <3>2, <3>3
  <2>2. CASE id \notin Panes(n)
    BY <2>2 DEF CloseAt, NoLayout
  <2>3. QED
    BY <2>1, <2>2
<1> HIDE DEF rects
<1>3. \A d : FindNeighbor(rects, id, d) = NoPane
  BY <1>1, <1>2 DEF FindNeighbor
<1>4. QED
  BY <1>3 DEF FocusAfterClose, rects

\* Any close but that of the tile of focus mode.
LEMMA Closes ==
  ASSUME WMInv, NEW p, CloseTile(p), mode.pane # p
  PROVE  \E w : Handles(w, {p}) /\ Stays(w)
<1> DEFINE n == LayoutOf(Current)
           m == CloseAt(n, p)
           s == WithLayout(spaces[active], m)
           f == FocusAfterClose(n, p)
<1>1. /\ n # NoLayout /\ Become([SetLayout(Current, m) EXCEPT !.focused = f])
  BY DEF CloseTile
<1>2. /\ active \in DOMAIN spaces /\ active \in 1 .. Len(spaces) /\ Sound(n) /\ Visible = Panes(n)
      /\ n = spaces[active].layout
  BY <1>1, Shown, Given
<1>3. /\ Sound(m) /\ \A x, t : Has(m, x, t) => Has(n, x, t)
      /\ Panes(m) \subseteq Panes(n) /\ Panes(n) \ Panes(m) \subseteq {p}
  <2>1. CASE p \in Panes(n)
    <3>1. Loses(n, m, p)
      BY <1>2, <2>1, Closing
    <3> HIDE DEF m, n
    <3>2. Panes(m) = Panes(n) \ {p}
      BY <3>1, PanesLose
    <3>3. QED
      BY <3>1, <3>2 DEF Loses
  <2>2. CASE p \notin Panes(n)
    BY <1>2, <2>2 DEF CloseAt
  <2>3. QED
    BY <2>1, <2>2
<1>4. m = NoLayout => f \in Pane \cup {NoPane}
  BY <1>2, FocusWhenEmpty
<1> HIDE DEF m, f
<1>5. SetLayout(Current, m) = Here(s, focused)
  BY <1>2, HereFacts
<1> HIDE DEF s
<1>6. [SetLayout(Current, m) EXCEPT !.focused = f] = Here(s, f)
  BY <1>2, <1>5, HereFacts
<1>7. Become(Here(s, f))
  BY <1>1, <1>6
<1> DEFINE N == {}
           lost == {p}
<1>8. N \in SUBSET Pane /\ N \cap SpacePanes(spaces) = {} /\ Panes(m) \subseteq Visible \cup N
  BY <1>2, <1>3
<1>9. \A x, t : Has(m, x, t) => x \in N \/ Has(n, x, t) \/ Has(n, x, "none")
  BY <1>3
<1>10. /\ mode # NotFocusing => mode.pane \in Panes(m)
       /\ Visible \ Panes(m) \subseteq lost
  BY <1>2, <1>3, Given
<1>11. s = WithLayout(spaces[active], m) \/ \E q \in Pane : s = WithFont(WithLayout(spaces[active], m), q)
  BY DEF s
<1> HIDE DEF N, n, lost
<1>12. QED
  BY <1>2, <1>3, <1>4, <1>7, <1>8, <1>9, <1>10, <1>11, UpdatesLayout DEF n, lost

LEMMA Drops ==
  ASSUME WMInv, NEW source, NEW target, NEW zone \in DropZones, Drop(source, target, zone)
  PROVE  \E w : Handles(w, {}) /\ Stays(w)
<1> DEFINE n == LayoutOf(Current)
           m == IF zone = "swap" THEN SwapLeaves(n, source, target)
                ELSE MoveLeafAdjacent(n, source, target, zone)
           s == WithLayout(spaces[active], m)
<1>1. source \in Visible /\ Become([SetLayout(Current, m) EXCEPT !.focused = source])
  BY DEF Drop
<1>2. /\ active \in DOMAIN spaces /\ active \in 1 .. Len(spaces) /\ Sound(n) /\ Visible = Panes(n)
      /\ n = spaces[active].layout /\ source \in Pane
  BY <1>1, Shown, Given
<1>3. Same(n, m)
  BY <1>2, Swapping, Moving
<1>4. Panes(m) = Panes(n)
  BY <1>3, PanesStay
<1> HIDE DEF m
<1>5. SetLayout(Current, m) = Here(s, focused)
  BY <1>2, HereFacts
<1> HIDE DEF s
<1>6. [SetLayout(Current, m) EXCEPT !.focused = source] = Here(s, source)
  BY <1>2, <1>5, HereFacts
<1>7. Become(Here(s, source))
  BY <1>1, <1>6
<1> DEFINE N == {}
<1>8. N \in SUBSET Pane /\ N \cap SpacePanes(spaces) = {} /\ Panes(m) \subseteq Visible \cup N
  BY <1>2, <1>4
<1>9. Sound(m) /\ \A x, t : Has(m, x, t) => x \in N \/ Has(n, x, t) \/ Has(n, x, "none")
  BY <1>3 DEF Same
<1>10. /\ mode # NotFocusing => mode.pane \in Panes(m)
       /\ Visible \ Panes(m) \subseteq {}
       /\ m = NoLayout => source \in Pane \cup {NoPane}
  BY <1>2, <1>4, Given
<1>11. s = WithLayout(spaces[active], m) \/ \E q \in Pane : s = WithFont(WithLayout(spaces[active], m), q)
  BY DEF s
<1> HIDE DEF N, n
<1>12. QED
  BY <1>2, <1>7, <1>8, <1>9, <1>10, <1>11, UpdatesLayout DEF n

LEMMA Focuses ==
  ASSUME WMInv,
         \/ \E p \in Pane : FocusPane(p)
         \/ \E offset \in {-1, 1} : FocusOffset(offset)
         \/ \E dir \in MoveDirs : FocusDirection(dir)
  PROVE  \E w : Handles(w, {}) /\ Stays(w)
<1> DEFINE n == LayoutOf(Current)
<1>1. \A f : [Current EXCEPT !.focused = f] = State(spaces, active, f, mode)
  BY CurrentIs, Updates
<1>2. PICK f : Become(State(spaces, active, f, mode)) /\ (n = NoLayout => f \in Pane \cup {NoPane})
  <2>1. CASE \E p \in Pane : FocusPane(p)
    <3>1. PICK p \in Pane : Become([Current EXCEPT !.focused = p])
      BY <2>1 DEF FocusPane
    <3>2. QED
      BY <1>1, <3>1
  <2>2. CASE \E offset \in {-1, 1} : FocusOffset(offset)
    <3>1. PICK offset : Become([Current EXCEPT !.focused = FocusByOffset(n, focused, offset)])
      BY <2>2 DEF FocusOffset
    <3>2. n = NoLayout => FocusByOffset(n, focused, offset) = NoPane
      BY DEF FocusByOffset
    <3>3. QED
      BY <1>1, <3>1, <3>2
  <2>3. CASE \E dir \in MoveDirs : FocusDirection(dir)
    <3> DEFINE next(dir) == FindNeighbor(ComputeTiling(n), focused, dir)
    <3>1. PICK dir : next(dir) # NoPane /\ Become([Current EXCEPT !.focused = next(dir)])
      BY <2>3 DEF FocusDirection
    <3>2. focused \in Panes(ComputeTiling(n))
      BY <3>1, Zenon DEF FindNeighbor
    <3>3. n # NoLayout
      BY <3>2 DEF ComputeTiling, Panes, NoLayout
    <3>4. QED
      BY <1>1, <3>1, <3>3
  <2>4. QED
    BY <2>1, <2>2, <2>3
<1>3. QED
  BY <1>2, MovesFocus

-----------------------------------------------------------------------------
(* The handlers that change spaces.                                        *)

Twice(sp, k, s, l, t) == [sp EXCEPT ![k] = s, ![l] = t]

LEMMA TwoSpaces ==
  ASSUME NEW sp \in Seq(SpaceRec), OnlyFirst(sp),
         NEW k \in 1 .. Len(sp), NEW s \in SpaceRec, s.name = sp[k].name,
         NEW l \in 1 .. Len(sp), NEW t \in SpaceRec, t.name = sp[l].name, k # l
  PROVE  LET new == Twice(sp, k, s, l, t)
         IN  /\ new \in Seq(SpaceRec) /\ Len(new) = Len(sp) /\ OnlyFirst(new)
             /\ \A i \in 1 .. Len(sp) : new[i] = IF i = l THEN t ELSE IF i = k THEN s ELSE sp[i]
<1> DEFINE mid == [sp EXCEPT ![k] = s]
           new == [mid EXCEPT ![l] = t]
<1>1. /\ mid \in Seq(SpaceRec) /\ Len(mid) = Len(sp) /\ OnlyFirst(mid)
      /\ \A i \in 1 .. Len(sp) : mid[i] = IF i = k THEN s ELSE sp[i]
  BY OneSpace
<1> HIDE DEF mid
<1>2. t.name = mid[l].name /\ l \in 1 .. Len(mid)
  BY <1>1
<1>3. /\ new \in Seq(SpaceRec) /\ Len(new) = Len(mid) /\ OnlyFirst(new)
      /\ \A i \in 1 .. Len(mid) : new[i] = IF i = l THEN t ELSE mid[i]
  BY <1>1, <1>2, OneSpace
<1> HIDE DEF new
<1>4. \A i \in 1 .. Len(sp) : new[i] = IF i = l THEN t ELSE IF i = k THEN s ELSE sp[i]
  BY <1>1, <1>3
<1>5. new = Twice(sp, k, s, l, t)
  BY DEF new, mid, Twice
<1>6. QED
  BY <1>1, <1>3, <1>4, <1>5

\* A tile is in the space to instead of the space from, with its font.
Moved(sp, m, p, from, to) ==
  /\ from \in 1 .. Len(sp) /\ to \in 1 .. Len(sp) /\ from # to /\ p \in Panes(sp[from].layout)
  /\ Loses(sp[from].layout, m[from].layout, p) /\ m[from].fonts = sp[from].fonts \ {p}
  /\ Gains(sp[to].layout, m[to].layout, p, FindLeaf(sp[from].layout, p).type)
  /\ m[to].fonts = sp[to].fonts \cup (sp[from].fonts \cap {p})
  /\ \A i \in 1 .. Len(sp) : i # from /\ i # to => m[i] = sp[i]

LEMMA MovesLeaf ==
  ASSUME NEW sp \in Seq(SpaceRec), OnlyFirst(sp), UniqueIn(sp), NEW p, NEW from, NEW to
  PROVE  LET m == MoveLeafBetweenSpaces(sp, p, from, to)
         IN  /\ m \in Seq(SpaceRec) /\ Len(m) = Len(sp) /\ OnlyFirst(m)
             /\ \A i \in 1 .. Len(sp) : m[i].name = sp[i].name
             /\ m = sp \/ Moved(sp, m, p, from, to)
<1> DEFINE m == MoveLeafBetweenSpaces(sp, p, from, to)
<1>1. CASE from = to \/ {from, to} \ DOMAIN sp # {} \/ p \notin Panes(sp[from].layout)
  <2>1. m = sp
    BY <1>1 DEF MoveLeafBetweenSpaces
  <2>2. QED
    BY <2>1
<1>2. CASE from # to /\ {from, to} \subseteq DOMAIN sp /\ p \in Panes(sp[from].layout)
  <2> DEFINE a == sp[from]
             b == sp[to]
             leaf == FindLeaf(a.layout, p)
             s == [a EXCEPT !.layout = CloseAt(a.layout, p), !.fonts = a.fonts \ {p}]
             t == [b EXCEPT !.layout = Adopt(b.layout, leaf), !.fonts = b.fonts \cup (a.fonts \cap {p})]
  <2>1. /\ from \in 1 .. Len(sp) /\ to \in 1 .. Len(sp) /\ a \in SpaceRec /\ b \in SpaceRec
        /\ Sound(a.layout) /\ Sound(b.layout) /\ Panes(a.layout) \subseteq Pane
        /\ Panes(b.layout) \subseteq Pane /\ p \in Pane
    BY <1>2, SpaceFacts, Places
  <2>2. p \notin Panes(b.layout)
    BY <1>2, <2>1, OnePlace
  <2>3. leaf \in AnyTile /\ leaf.id = p
    BY <1>2, <2>1, Located
  <2>4. Loses(a.layout, CloseAt(a.layout, p), p)
    BY <1>2, <2>1, Closing
  <2>5. Gains(b.layout, Adopt(b.layout, leaf), p, leaf.type)
    BY <2>1, <2>2, <2>3, Adopting, BoundsAssumption
  <2>6. CloseAt(a.layout, p) \in Layouts
    <3>1. Panes(CloseAt(a.layout, p)) = Panes(a.layout) \ {p}
      BY <2>4, PanesLose
    <3>2. QED
      BY <2>1, <2>4, <3>1, LayoutsAreSound DEF Loses
  <2>7. Adopt(b.layout, leaf) \in Layouts
    <3> HIDE DEF leaf
    <3>1. Panes(Adopt(b.layout, leaf)) = Panes(b.layout) \cup {p}
      BY <2>5, PanesGain
    <3>2. QED
      BY <2>1, <2>5, <3>1, LayoutsAreSound DEF Gains
  <2>8. m = Twice(sp, from, s, to, t)
    <3>1. ~(from = to \/ {from, to} \ DOMAIN sp # {}) /\ ~(p \notin Panes(sp[from].layout))
      BY <1>2
    <3>2. QED
      BY <3>1, Zenon DEF MoveLeafBetweenSpaces, Twice
  <2> HIDE DEF leaf, m
  <2>9. /\ s \in SpaceRec /\ s.name = a.name /\ s.layout = CloseAt(a.layout, p)
        /\ s.fonts = a.fonts \ {p}
    BY <2>1, <2>6 DEF SpaceRec
  <2>10. /\ t \in SpaceRec /\ t.name = b.name /\ t.layout = Adopt(b.layout, leaf)
         /\ t.fonts = b.fonts \cup (a.fonts \cap {p})
    BY <2>1, <2>7 DEF SpaceRec
  <2> HIDE DEF s, t
  <2>11. /\ m \in Seq(SpaceRec) /\ Len(m) = Len(sp) /\ OnlyFirst(m)
         /\ \A i \in 1 .. Len(sp) : m[i] = IF i = to THEN t ELSE IF i = from THEN s ELSE sp[i]
    <3> DEFINE new == Twice(sp, from, s, to, t)
    <3>1. /\ new \in Seq(SpaceRec) /\ Len(new) = Len(sp) /\ OnlyFirst(new)
          /\ \A i \in 1 .. Len(sp) : new[i] = IF i = to THEN t ELSE IF i = from THEN s ELSE sp[i]
      BY <1>2, <2>1, <2>9, <2>10, TwoSpaces
    <3> HIDE DEF new
    <3>2. m = new
      BY <2>8 DEF new
    <3>3. QED
      BY <3>1, <3>2
  <2>12. m[from] = s /\ m[to] = t /\ \A i \in 1 .. Len(sp) : i # from /\ i # to => m[i] = sp[i]
    BY <1>2, <2>1, <2>11
  <2>13. Moved(sp, m, p, from, to)
    BY <1>2, <2>1, <2>4, <2>5, <2>9, <2>10, <2>12 DEF Moved, leaf
  <2>14. \A i \in 1 .. Len(sp) : m[i].name = sp[i].name
    BY <2>9, <2>10, <2>11
  <2>15. QED
    BY <2>11, <2>13, <2>14 DEF m
<1>3. QED
  BY <1>1, <1>2

LEMMA MovedFollows ==
  ASSUME NEW sp \in Seq(SpaceRec), UniqueIn(sp), NEW m \in Seq(SpaceRec), Len(m) = Len(sp),
         NEW p, NEW from, NEW to, Moved(sp, m, p, from, to)
  PROVE  Follows(sp, m) /\ SpacePanes(sp) \subseteq SpacePanes(m)
<1> DEFINE ty == FindLeaf(sp[from].layout, p).type
           Is == 1 .. Len(sp)
<1>1. /\ from \in Is /\ to \in Is /\ from # to /\ p \in Panes(sp[from].layout)
      /\ Loses(sp[from].layout, m[from].layout, p) /\ m[from].fonts = sp[from].fonts \ {p}
      /\ Gains(sp[to].layout, m[to].layout, p, ty)
      /\ m[to].fonts = sp[to].fonts \cup (sp[from].fonts \cap {p})
      /\ \A i \in Is : i # from /\ i # to => m[i] = sp[i]
  BY DEF Moved
<1>2. Has(sp[from].layout, p, ty)
  BY <1>1, Places, OneType
<1> HIDE DEF ty
<1>3. ASSUME NEW i \in Is, NEW x, NEW t
      PROVE  /\ x # p => (Has(m[i].layout, x, t) <=> Has(sp[i].layout, x, t))
             /\ Has(m[i].layout, p, t) => i = to /\ (Has(sp[i].layout, p, t) \/ t = ty)
  <2>1. CASE i = from
    BY <1>1, <2>1 DEF Loses
  <2>2. CASE i = to
    BY <1>1, <2>2 DEF Gains
  <2>3. CASE i # from /\ i # to
    <3>1. ~Has(sp[i].layout, p, t)
      BY <1>1, <2>3, OnePlace, HasFacts
    <3>2. QED
      BY <1>1, <2>3, <3>1
  <2>4. QED
    BY <2>1, <2>2, <2>3
<1>4. p \in Panes(m[to].layout)
  <2>1. Has(m[to].layout, p, ty)
    BY <1>1 DEF Gains
  <2>2. QED
    BY <2>1, PanesAre
<1>5. ASSUME NEW i \in Is, NEW x
      PROVE  /\ x # p => (x \in Panes(m[i].layout) <=> x \in Panes(sp[i].layout))
             /\ p \in Panes(m[i].layout) <=> i = to
  BY <1>3, <1>4, PanesAre
<1>6. UniqueIn(m)
  <2>1. ASSUME NEW i \in Is, NEW j \in Is, NEW x,
               x \in Panes(m[i].layout), x \in Panes(m[j].layout)
        PROVE  i = j
    <3>1. CASE x = p
      BY <1>5, <2>1, <3>1
    <3>2. CASE x # p
      BY <1>5, <2>1, <3>2, OnePlace
    <3>3. QED
      BY <3>1, <3>2
  <2>2. QED
    BY <2>1, OnePlace
<1>7. TypesFollow(sp, m)
  <2>1. ASSUME NEW x, NEW t, SomeHas(m, x, t) PROVE SomeHas(sp, x, t)
    <3>1. PICK i \in Is : Has(m[i].layout, x, t)
      BY <2>1, HasFacts
    <3>2. CASE x # p
      BY <1>3, <3>1, <3>2, HasFacts
    <3>3. CASE x = p
      <4>1. i = to /\ (Has(sp[i].layout, p, t) \/ t = ty)
        BY <1>3, <3>1, <3>3
      <4>2. QED
        BY <1>1, <1>2, <3>3, <4>1 DEF SomeHas
    <3>4. QED
      BY <3>2, <3>3
  <2>2. QED
    BY <2>1 DEF TypesFollow
<1>8. FontsFollow(sp, m)
  <2>1. ASSUME NEW x, HasFont(sp, x) PROVE HasFont(m, x)
    <3>1. PICK i \in Is : x \in sp[i].fonts /\ x \in Panes(sp[i].layout)
      BY <2>1, Places DEF HasFont
    <3>2. CASE x # p
      <4>1. x \in Panes(m[i].layout)
        BY <1>5, <3>1, <3>2
      <4>2. x \in m[i].fonts
        BY <1>1, <3>1, <3>2
      <4>3. QED
        BY <4>1, <4>2, Places DEF HasFont
    <3>3. CASE x = p
      <4>1. i = from
        BY <1>1, <3>1, <3>3, OnePlace
      <4>2. p \in m[to].fonts
        BY <1>1, <3>1, <3>3, <4>1
      <4>3. QED
        BY <1>1, <1>4, <3>3, <4>2, Places DEF HasFont
    <3>4. QED
      BY <3>2, <3>3
  <2>2. QED
    BY <2>1 DEF FontsFollow
<1>9. SpacePanes(sp) \subseteq SpacePanes(m)
  <2>1. ASSUME NEW x \in SpacePanes(sp) PROVE x \in SpacePanes(m)
    BY <1>1, <1>4, <1>5, <2>1, Places
  <2>2. QED
    BY <2>1
<1>10. QED
  BY <1>6, <1>7, <1>8, <1>9 DEF Follows

LEMMA Relocates ==
  ASSUME WMInv, NEW m \in Seq(SpaceRec), m # << >>, OnlyFirst(m), NEW lost,
         Follows(spaces, m), SpacePanes(spaces) \ SpacePanes(m) \subseteq lost,
         NEW a \in Nat \ {0}, a \in 1 .. Len(m) \/ (IsFocusSpace(m[1]) /\ Len(m) > 1),
         a \in 1 .. Len(m) \/ mode # NotFocusing \/ HeaderCountsTwice,
         NEW f \in Pane \cup {NoPane}, mode # NotFocusing => m[1].name = spaces[1].name,
         mode # NotFocusing /\ a = 1 => mode.pane \in Panes(m[1].layout),
         Become(State(m, a, f, mode))
  PROVE  \E w : Handles(w, lost) /\ w.mode = mode /\ w.spaces = m
<1> DEFINE w == State(m, a, f, mode)
<1>1. w.spaces = m /\ w.active = a /\ w.focused = f /\ w.mode = mode
  BY Updates
<1>2. Ready(w, active)
  BY LeavesReady
<1> HIDE DEF w
<1>3. Become(w)
  BY DEF w
<1>4. KeepsIndex(w)
  BY <1>1, SpaceFacts DEF KeepsIndex
<1>5. QED
  BY <1>1, <1>2, <1>3, <1>4 DEF Handles, Follows

\* A move of a tile that shows the space it goes to, or the one after it.
LEMMA MovesTo ==
  ASSUME WMInv, NEW p, NEW from, NEW to, NEW a \in Nat \ {0}, NEW f \in Pane \cup {NoPane},
         mode # NotFocusing => a # 1,
         a \in 1 .. Len(spaces) \/ (IsFocusSpace(spaces[1]) /\ Len(spaces) > 1),
         a \in 1 .. Len(spaces) \/ mode # NotFocusing \/ HeaderCountsTwice,
         Become(State(MoveLeafBetweenSpaces(spaces, p, from, to), a, f, mode))
  PROVE  \E w : Handles(w, {}) /\ Stays(w)
<1> DEFINE m == MoveLeafBetweenSpaces(spaces, p, from, to)
           N == {}
<1>1. UniqueIn(spaces) /\ spaces \in Seq(SpaceRec) /\ OnlyFirst(spaces)
  BY StateUnique, Given DEF Become
<1>2. /\ m \in Seq(SpaceRec) /\ Len(m) = Len(spaces) /\ OnlyFirst(m)
      /\ \A i \in 1 .. Len(spaces) : m[i].name = spaces[i].name
      /\ m = spaces \/ Moved(spaces, m, p, from, to)
  BY <1>1, MovesLeaf
<1>3. Become(State(m, a, f, mode))
  OBVIOUS
<1> HIDE DEF m
<1>4. Follows(spaces, m) /\ SpacePanes(spaces) \ SpacePanes(m) \subseteq N
  BY <1>1, <1>2, MovedFollows, UnchangedFollows
<1>5. m # << >> /\ (a \in 1 .. Len(m) \/ (IsFocusSpace(m[1]) /\ Len(m) > 1))
      /\ (a \in 1 .. Len(m) \/ mode # NotFocusing \/ HeaderCountsTwice)
      /\ m[1].name = spaces[1].name
  BY <1>2, Given, SpaceFacts DEF IsFocusSpace
<1>6. Len(m) >= Len(spaces)
  BY <1>2, Given
<1> HIDE DEF N
<1>7. \E w : Handles(w, N) /\ w.mode = mode /\ w.spaces = m
  BY <1>2, <1>3, <1>4, <1>5, Relocates
<1>8. QED
  BY <1>6, <1>7 DEF Stays, N

LEMMA MovesTile ==
  ASSUME WMInv, NEW p, NEW to, MoveTileToSpace(p, to)
  PROVE  \E w : Handles(w, {}) /\ Stays(w)
<1> DEFINE m == MoveLeafBetweenSpaces(spaces, p, active, to)
<1>1. /\ p \in Visible /\ to \in DOMAIN spaces /\ ~IsFocusSpace(spaces[to]) /\ to # active
      /\ Become([Current EXCEPT !.spaces = m, !.active = to, !.focused = p])
  BY DEF MoveTileToSpace, UserSpace
<1> HIDE DEF m
<1>2. [Current EXCEPT !.spaces = m, !.active = to, !.focused = p] = State(m, to, p, mode)
  BY CurrentSpacesActiveFocused, Zenon
<1>3. Become(State(m, to, p, mode))
  BY <1>1, <1>2
<1>4. p \in Pane
  BY <1>1, Shown
<1>5. to \in 1 .. Len(spaces) /\ Len(spaces) \in Nat
  BY <1>1, Given
<1>6. mode # NotFocusing => to # 1
  BY <1>1, Given
<1>7. QED
  BY <1>3, <1>4, <1>5, <1>6, MovesTo DEF m

LEMMA MovesFromHeader ==
  ASSUME WMInv, NEW to, HeaderMoveTile(to)
  PROVE  \E w : Handles(w, {}) /\ Stays(w)
<1> DEFINE shift == IF IsFocusSpace(spaces[1]) THEN 1 ELSE 0
           m == MoveLeafBetweenSpaces(spaces, focused, active + shift, to + shift)
           a == to + shift
<1>1. /\ focused # NoPane /\ to \in DOMAIN spaces /\ ~IsFocusSpace(spaces[to])
      /\ Become([Current EXCEPT !.spaces = m, !.active = a])
  BY DEF HeaderMoveTile, UserSpace
<1>2. to \in 1 .. Len(spaces) /\ Len(spaces) \in Nat /\ focused \in Pane
  BY <1>1, Given
<1>3. /\ a \in Nat \ {0}
      /\ mode # NotFocusing => a # 1
      /\ a \in 1 .. Len(spaces) \/ (IsFocusSpace(spaces[1]) /\ Len(spaces) > 1)
      /\ a \in 1 .. Len(spaces) \/ mode # NotFocusing \/ HeaderCountsTwice
  <2>1. CASE IsFocusSpace(spaces[1])
    <3>1. to # 1 /\ a = to + 1
      BY <1>1, <2>1
    <3>2. mode # NotFocusing \/ HeaderCountsTwice
      BY <1>1, <2>1, Zenon DEF HeaderCountsTwice
    <3>3. QED
      BY <1>2, <2>1, <3>1, <3>2
  <2>2. CASE ~IsFocusSpace(spaces[1])
    <3>1. a = to + 0 /\ mode = NotFocusing
      BY <2>2, Given
    <3>2. QED
      BY <1>2, <3>1
  <2>3. QED
    BY <2>1, <2>2
<1>4. PICK from, dest : m = MoveLeafBetweenSpaces(spaces, focused, from, dest)
  OBVIOUS
<1> HIDE DEF m, a
<1>5. [Current EXCEPT !.spaces = m, !.active = a] = State(m, a, focused, mode)
  BY CurrentSpacesActive, Zenon
<1>6. Become(State(m, a, focused, mode))
  BY <1>1, <1>5
<1>7. Become(State(MoveLeafBetweenSpaces(spaces, focused, from, dest), a, focused, mode))
  BY <1>4, <1>6
<1>8. focused \in Pane \cup {NoPane} /\ a \in Nat \ {0} /\ (mode # NotFocusing => a # 1)
  BY <1>2, <1>3
<1>9. QED
  BY <1>3, <1>7, <1>8, MovesTo, Zenon

LEMMA Selects ==
  ASSUME WMInv, NEW i, SelectSpace(i)
  PROVE  \E w : Handles(w, {}) /\ Stays(w)
<1>1. i \in DOMAIN spaces /\ Become([Current EXCEPT !.active = i, !.focused = NoPane])
  BY DEF SelectSpace
<1>2. [Current EXCEPT !.active = i, !.focused = NoPane] = State(spaces, i, NoPane, mode)
  BY CurrentActiveFocused, Zenon
<1>3. Become(State(spaces, i, NoPane, mode))
  BY <1>1, <1>2
<1>4. Follows(spaces, spaces)
  BY <1>3, UnchangedFollows, Given, StateUnique DEF Become
<1> DEFINE N == {}
<1>5. /\ i \in Nat \ {0} /\ i \in 1 .. Len(spaces) /\ Len(spaces) >= Len(spaces)
      /\ SpacePanes(spaces) \ SpacePanes(spaces) \subseteq N
  BY <1>1, Given
<1> HIDE DEF N
<1>6. \E w : Handles(w, N) /\ w.mode = mode /\ w.spaces = spaces
  BY <1>3, <1>4, <1>5, Given, Relocates
<1>7. QED
  BY <1>5, <1>6 DEF Stays, N

LEMMA Adds ==
  ASSUME WMInv, NEW new, AddSpace(new)
  PROVE  \E w : Handles(w, {}) /\ Stays(w)
<1> DEFINE s == Space("user", Alone(Leaf(new, "none")))
           m == Append(spaces, s)
           a == Len(spaces) + 1
           g == [i \in 1 .. Len(spaces) + 1 |-> i]
           N == {new}
           lost == {}
<1>1. new \in Unused /\ Become([Current EXCEPT !.spaces = m, !.active = a, !.focused = NoPane])
  <2> HIDE DEF s
  <2>1. Current.spaces = spaces
    BY DEF Current
  <2>2. /\ new \in Unused
        /\ Become([Current EXCEPT !.spaces = Append(Current.spaces, s),
                                  !.active = Len(spaces) + 1, !.focused = NoPane])
    BY Zenon DEF AddSpace, s
  <2>3. QED
    BY <2>1, <2>2, Zenon
<1>2. [Current EXCEPT !.spaces = m, !.active = a, !.focused = NoPane] = State(m, a, NoPane, mode)
  BY CurrentSpacesActiveFocused, Zenon
<1>3. Become(State(m, a, NoPane, mode)) /\ UniqueIn(spaces)
  <2>1. Become(State(m, a, NoPane, mode))
    BY <1>1, <1>2
  <2>2. QED
    BY <2>1, StateUnique DEF Become
<1>4. /\ new \in Pane /\ new \notin SpacePanes(spaces) /\ Leaf(new, "none") \in AnyTile
      /\ Leaf(new, "none").id = new
  BY <1>1, Fresh
<1>5. /\ s \in SpaceRec /\ s.layout = Alone(Leaf(new, "none")) /\ s.name = "user"
      /\ Panes(s.layout) = {new}
  <2>1. Sound(Alone(Leaf(new, "none"))) /\ Panes(Alone(Leaf(new, "none"))) = {new}
    BY <1>4, AloneIsSound
  <2>2. Alone(Leaf(new, "none")) \in Layouts
    BY <1>4, <2>1, LayoutsAreSound
  <2>3. QED
    BY <2>1, <2>2 DEF Space, SpaceRec
<1> HIDE DEF s
<1>6. /\ spaces \in Seq(SpaceRec) /\ Len(spaces) \in Nat /\ OnlyFirst(spaces) /\ spaces # << >>
      /\ DOMAIN spaces = 1 .. Len(spaces) /\ 1 \in 1 .. Len(spaces)
  BY Given
<1>7. /\ m \in Seq(SpaceRec) /\ Len(m) = Len(spaces) + 1
      /\ \A i \in 1 .. Len(spaces) : m[i] = spaces[i]
      /\ m[Len(spaces) + 1] = s
  BY <1>5, <1>6, AppendProperties
<1> HIDE DEF m
<1>8. DOMAIN m = 1 .. Len(spaces) + 1 /\ m # << >>
  BY <1>6, <1>7, SpaceFacts, EmptySeq
<1>9. OnlyFirst(m)
  BY <1>5, <1>6, <1>7, <1>8 DEF OnlyFirst, IsFocusSpace
<1>10. \A i \in 1 .. Len(spaces) + 1 : g[i] = i
  OBVIOUS
<1> HIDE DEF g
<1>11. From(spaces, m, g, a, N)
  BY <1>5, <1>6, <1>7, <1>10 DEF From
<1>12. Follows(spaces, m)
  BY <1>3, <1>4, <1>6, <1>7, <1>11, FromFollows
<1>13. SpacePanes(spaces) \ SpacePanes(m) \subseteq lost
  <2>1. \A p \in SpacePanes(spaces) : p \in SpacePanes(m)
    BY <1>6, <1>7, <1>8 DEF SpacePanes
  <2>2. QED
    BY <2>1
<1>14. /\ a \in Nat \ {0} /\ a \in 1 .. Len(m) /\ a # 1 /\ m[1].name = spaces[1].name
       /\ Len(m) >= Len(spaces)
  BY <1>6, <1>7
<1> HIDE DEF a, lost
<1>15. \E w : Handles(w, lost) /\ w.mode = mode /\ w.spaces = m
  BY <1>3, <1>7, <1>8, <1>9, <1>12, <1>13, <1>14, Relocates
<1>16. QED
  BY <1>14, <1>15 DEF Stays, lost

LEMMA Deletes ==
  ASSUME WMInv, NEW i, DeleteSpace(i)
  PROVE  \E w : Handles(w, Panes(spaces[i].layout)) /\ w.mode = mode
<1> DEFINE m == RemoveAt(spaces, i)
           a == IF i < Len(spaces) THEN i ELSE Len(spaces) - 1
           g == [j \in 1 .. Len(spaces) - 1 |-> IF j < i THEN j ELSE j + 1]
           N == {}
           lost == Panes(spaces[i].layout)
<1>1. /\ Len(spaces) > 1 /\ i \in DOMAIN spaces /\ ~IsFocusSpace(spaces[i])
      /\ Become([Current EXCEPT !.spaces = m, !.active = a, !.focused = NoPane])
  <2>1. Current.spaces = spaces
    BY DEF Current
  <2>2. /\ Len(spaces) > 1 /\ UserSpace(i)
        /\ Become([Current EXCEPT !.spaces = RemoveAt(Current.spaces, i),
                                  !.active = IF i < Len(spaces) THEN i ELSE Len(spaces) - 1,
                                  !.focused = NoPane])
    BY Zenon DEF DeleteSpace
  <2>3. Become([Current EXCEPT !.spaces = m, !.active = a, !.focused = NoPane])
    BY <2>1, <2>2, Zenon
  <2>4. QED
    BY <2>2, <2>3, Zenon DEF UserSpace
<1>2. [Current EXCEPT !.spaces = m, !.active = a, !.focused = NoPane] = State(m, a, NoPane, mode)
  BY CurrentSpacesActiveFocused, Zenon
<1>3. Become(State(m, a, NoPane, mode)) /\ UniqueIn(spaces)
  <2>1. Become(State(m, a, NoPane, mode))
    BY <1>1, <1>2, Zenon
  <2>2. QED
    BY <2>1, StateUnique, Zenon DEF Become
<1>4. /\ spaces \in Seq(SpaceRec) /\ Len(spaces) \in Nat /\ OnlyFirst(spaces)
      /\ i \in 1 .. Len(spaces) /\ DOMAIN spaces = 1 .. Len(spaces)
      /\ mode # NotFocusing => i # 1 /\ active = 1 /\ mode.pane \in Panes(spaces[1].layout)
  BY <1>1, Given
<1>5. /\ m \in Seq(SpaceRec) /\ Len(m) = Len(spaces) - 1
      /\ \A j \in 1 .. Len(spaces) - 1 : m[j] = IF j < i THEN spaces[j] ELSE spaces[j + 1]
  BY <1>4, Removing
<1>6. \A j \in 1 .. Len(spaces) - 1 : g[j] = IF j < i THEN j ELSE j + 1
  OBVIOUS
<1> HIDE DEF m, g
<1>7. /\ DOMAIN m = 1 .. Len(spaces) - 1 /\ m # << >> /\ Len(m) \in Nat
      /\ \A j \in 1 .. Len(m) : /\ g[j] \in 1 .. Len(spaces) /\ m[j] = spaces[g[j]]
                                /\ j # 1 => g[j] # 1
      /\ \A j, k \in 1 .. Len(m) : g[j] = g[k] => j = k
  BY <1>1, <1>4, <1>5, <1>6, SpaceFacts
<1>8. OnlyFirst(m)
  BY <1>4, <1>5, <1>7 DEF OnlyFirst
<1>9. From(spaces, m, g, 1, N)
  BY <1>7 DEF From
<1>10. N \cap SpacePanes(spaces) = {}
  OBVIOUS
<1> HIDE DEF N
<1>11. Follows(spaces, m)
  BY <1>3, <1>4, <1>5, <1>9, <1>10, FromFollows
<1>12. SpacePanes(spaces) \ SpacePanes(m) \subseteq lost
  <2>1. ASSUME NEW p \in SpacePanes(spaces), p \notin Panes(spaces[i].layout)
        PROVE  p \in SpacePanes(m)
    <3>1. PICK j \in 1 .. Len(spaces) : p \in Panes(spaces[j].layout) /\ j # i
      BY <1>4, <2>1, Places
    <3>2. \E k \in 1 .. Len(m) : m[k] = spaces[j]
      <4>1. CASE j < i
        BY <1>4, <1>5, <3>1, <4>1
      <4>2. CASE j > i
        <5>1. j - 1 \in 1 .. Len(m) /\ m[j - 1] = spaces[j]
          BY <1>4, <1>5, <3>1, <4>2
        <5>2. QED
          BY <5>1
      <4>3. QED
        BY <1>4, <3>1, <4>1, <4>2
    <3>3. QED
      BY <1>5, <3>1, <3>2, Places
  <2>2. QED
    BY <2>1
<1>13. mode # NotFocusing => m[1] = spaces[1]
  BY <1>1, <1>4, <1>5
<1>14. /\ a \in Nat \ {0} /\ a \in 1 .. Len(m)
  BY <1>1, <1>4, <1>5
<1>15. /\ mode # NotFocusing => m[1].name = spaces[1].name
       /\ mode # NotFocusing /\ a = 1 => mode.pane \in Panes(m[1].layout)
       /\ NoPane \in Pane \cup {NoPane}
  BY <1>4, <1>13
<1> HIDE DEF a, lost
<1>16. \E w : Handles(w, lost) /\ w.mode = mode /\ w.spaces = m
  BY <1>3, <1>5, <1>7, <1>8, <1>11, <1>12, <1>14, <1>15, Relocates
<1>17. QED
  BY <1>16 DEF lost

-----------------------------------------------------------------------------
(* Focus mode and reload.                                                  *)

LEMMA Reloads ==
  ASSUME WMInv, NEW ids, ids \subseteq Untyped, Reload(ids)
  PROVE  \E w : Handles(w, {}) /\ w.mode = NotFocusing
<1> DEFINE loaded(s) == [s EXCEPT !.layout = MigrateLayout(s.layout, ids)]
           m == [i \in DOMAIN spaces |-> loaded(spaces[i])]
           w == State(m, active, NoPane, NotFocusing)
           g == [j \in 1 .. Len(spaces) |-> j]
           N == {}
<1>1. Become([Current EXCEPT !.spaces = m, !.focused = NoPane, !.mode = NotFocusing])
  <2>1. Current.spaces = spaces
    BY DEF Current
  <2>2. Become([Current EXCEPT !.spaces = [i \in DOMAIN Current.spaces |-> loaded(Current.spaces[i])],
                               !.focused = NoPane, !.mode = NotFocusing])
    BY Zenon DEF Reload
  <2>3. QED
    BY <2>1, <2>2, Zenon
<1>2. [Current EXCEPT !.spaces = m, !.focused = NoPane, !.mode = NotFocusing] = w
  BY CurrentSpacesFocusedMode, Zenon
<1>3. Become(w) /\ UniqueIn(spaces)
  <2>1. Become(w)
    BY <1>1, <1>2, Zenon
  <2>2. QED
    BY <2>1, StateUnique, Zenon DEF Become
<1>4. /\ spaces \in Seq(SpaceRec) /\ Len(spaces) \in Nat /\ OnlyFirst(spaces)
      /\ DOMAIN spaces = 1 .. Len(spaces) /\ spaces # << >> /\ 1 \in 1 .. Len(spaces)
      /\ ~IsFocusSpace(spaces[1]) => active \in 1 .. Len(spaces)
      /\ active \in Nat \ {0}
  BY Given
<1>5. ASSUME NEW i \in 1 .. Len(spaces)
      PROVE  /\ loaded(spaces[i]) \in SpaceRec /\ loaded(spaces[i]).name = spaces[i].name
             /\ loaded(spaces[i]).fonts = spaces[i].fonts
             /\ Panes(loaded(spaces[i]).layout) = Panes(spaces[i].layout)
             /\ \A x, t : Has(loaded(spaces[i]).layout, x, t) =>
                  Has(spaces[i].layout, x, t) \/ Has(spaces[i].layout, x, "none")
  <2> DEFINE n == spaces[i].layout
             new == SetLeafType(n, ids, "term")
  <2>1. Sound(n) /\ Panes(n) \subseteq Pane /\ spaces[i] \in SpaceRec
    BY <1>4, SpaceFacts, Places
  <2>2. "term" \in Kind
    BY TypesAssumption DEF Kind
  <2>3. /\ Sound(new) /\ Panes(new) = Panes(n)
        /\ \A x, t : x \notin ids => (Has(new, x, t) <=> Has(n, x, t))
    BY <2>1, <2>2, Retyping
  <2>4. ASSUME NEW x \in ids, x \in Panes(n) PROVE Has(n, x, "none")
    <3>1. PICK t \in AllTiles(spaces) : t.id = x /\ t.type = "none"
      BY <2>4 DEF Untyped
    <3>2. PICK k \in DOMAIN spaces : \E j \in DOMAIN spaces[k].layout : spaces[k].layout[j] = t
      BY <3>1 DEF AllTiles, ToSet
    <3>3. Has(spaces[k].layout, x, "none")
      BY <3>1, <3>2 DEF Has
    <3>4. x \in Panes(spaces[k].layout)
      BY <3>3, PanesAre
    <3>5. k = i
      BY <1>3, <1>4, <2>4, <3>1, <3>4, OnePlace
    <3>6. QED
      BY <3>3, <3>5
  <2> HIDE DEF new
  <2>5. new \in Layouts
    BY <2>1, <2>3, LayoutsAreSound
  <2>6. /\ loaded(spaces[i]) \in SpaceRec /\ loaded(spaces[i]).name = spaces[i].name
        /\ loaded(spaces[i]).fonts = spaces[i].fonts /\ loaded(spaces[i]).layout = new
    BY <2>1, <2>5 DEF SpaceRec, MigrateLayout, new
  <2>7. ASSUME NEW x, NEW t, Has(new, x, t) PROVE Has(n, x, t) \/ Has(n, x, "none")
    <3>1. CASE x \in ids
      BY <2>3, <2>4, <2>7, <3>1, PanesAre
    <3>2. CASE x \notin ids
      BY <2>3, <2>7, <3>2
    <3>3. QED
      BY <3>1, <3>2
  <2>8. QED
    BY <2>3, <2>6, <2>7
<1>6. \A i \in 1 .. Len(spaces) : m[i] = loaded(spaces[i])
  BY <1>4
<1> HIDE DEF loaded
<1>7. m \in [1 .. Len(spaces) -> SpaceRec]
  BY <1>4, <1>5
<1> HIDE DEF m
<1>8. m \in Seq(SpaceRec) /\ Len(m) = Len(spaces) /\ DOMAIN m = 1 .. Len(spaces) /\ m # << >>
  BY <1>4, <1>7, SeqDef, LenProperties, EmptySeq
<1>9. OnlyFirst(m) /\ (IsFocusSpace(m[1]) <=> IsFocusSpace(spaces[1]))
  BY <1>4, <1>5, <1>6, <1>8 DEF OnlyFirst, IsFocusSpace
<1>10. \A i \in 1 .. Len(spaces) : g[i] = i
  OBVIOUS
<1> HIDE DEF g
<1>11. From(spaces, m, g, 1, N)
  BY <1>5, <1>6, <1>8, <1>10 DEF From
<1>12. N \cap SpacePanes(spaces) = {}
  OBVIOUS
<1> HIDE DEF N
<1>13. Follows(spaces, m)
  BY <1>3, <1>4, <1>8, <1>11, <1>12, FromFollows
<1>14. SpacePanes(spaces) \ SpacePanes(m) \subseteq {}
  <2>1. \A i \in 1 .. Len(spaces) : Panes(m[i].layout) = Panes(spaces[i].layout)
    BY <1>5, <1>6
  <2>2. QED
    BY <1>4, <1>8, <2>1 DEF SpacePanes
<1>15. Ready(w, active)
  BY <1>4, <1>8, <1>9, EndsReady
<1>16. w.spaces = m /\ w.mode = NotFocusing /\ w.active = active
  BY Updates
<1>17. KeepsIndex(w)
  BY <1>4, <1>8, <1>16 DEF KeepsIndex
<1> HIDE DEF w
<1>18. QED
  BY <1>3, <1>13, <1>14, <1>15, <1>16, <1>17 DEF Handles, Follows

\* What stays in the space that a tile leaves for focus mode.
Placeheld(n, p, new) ==
  IF CloseAt(n, p) = NoLayout THEN Alone(Leaf(new, "none")) ELSE CloseAt(n, p)

LEMMA Placeholding ==
  ASSUME WMInv, NEW n, Sound(n), Panes(n) \subseteq Visible, NEW p \in Panes(n), NEW new,
         CloseAt(n, p) = NoLayout => new \in Unused
  PROVE  LET kept == Placeheld(n, p, new)
             N == IF CloseAt(n, p) = NoLayout THEN {new} ELSE {}
         IN  /\ kept \in Layouts /\ Panes(kept) = (Panes(n) \ {p}) \cup N
             /\ N \cap SpacePanes(spaces) = {}
             /\ \A x, t : Has(kept, x, t) => x \in N \/ (Has(n, x, t) /\ x # p)
<1> DEFINE rest == CloseAt(n, p)
           kept == Placeheld(n, p, new)
           N == IF rest = NoLayout THEN {new} ELSE {}
<1>1. Loses(n, rest, p)
  BY Closing
<1>2. Panes(rest) = Panes(n) \ {p}
  BY <1>1, PanesLose
<1> HIDE DEF rest
<1>3. CASE rest = NoLayout
  <2>1. /\ kept = Alone(Leaf(new, "none")) /\ N = {new}
        /\ new \in Pane /\ new \notin SpacePanes(spaces) /\ Leaf(new, "none") \in AnyTile
        /\ Leaf(new, "none").id = new
    BY <1>3, Fresh DEF Placeheld, rest
  <2>2. /\ Sound(kept) /\ Panes(kept) = {new}
        /\ \A x, t : Has(kept, x, t) => x = new
    BY <2>1, AloneIsSound
  <2>3. Panes(n) \ {p} = {}
    BY <1>2, <1>3, EmptyIsSound
  <2>4. kept \in Layouts
    BY <2>1, <2>2, LayoutsAreSound
  <2>5. QED
    BY <2>1, <2>2, <2>3, <2>4 DEF rest
<1>4. CASE rest # NoLayout
  <2>1. kept = rest /\ N = {}
    BY <1>4 DEF Placeheld, rest
  <2>2. kept \in Layouts
    BY <1>1, <1>2, <2>1, Shown, LayoutsAreSound DEF Loses
  <2>3. \A x, t : Has(kept, x, t) => Has(n, x, t) /\ x # p
    BY <1>1, <2>1 DEF Loses
  <2>4. QED
    BY <1>2, <2>1, <2>2, <2>3 DEF rest
<1>5. QED
  BY <1>3, <1>4

\* The focus space is there, behind it the spaces as they were.
LEMMA FocusSpaceFirst ==
  ASSUME WMInv
  PROVE  LET sp == IF IsFocusSpace(spaces[1]) THEN spaces
                   ELSE <<Space("focus", NoLayout)>> \o spaces
         IN  /\ sp \in Seq(SpaceRec) /\ Len(sp) \in Nat /\ 1 \in 1 .. Len(sp)
             /\ OnlyFirst(sp) /\ IsFocusSpace(sp[1])
             /\ ~IsFocusSpace(spaces[1]) =>
                  /\ Len(sp) = Len(spaces) + 1
                  /\ \A i \in 1 .. Len(spaces) : sp[i + 1] = spaces[i]
<1>1. CASE IsFocusSpace(spaces[1])
  BY <1>1, Given
<1>2. CASE ~IsFocusSpace(spaces[1])
  <2> DEFINE f == Space("focus", NoLayout)
             sp == <<f>> \o spaces
  <2>1. f \in SpaceRec /\ f.name = "focus"
    BY EmptyIsSound DEF Space, SpaceRec
  <2>2. /\ spaces \in Seq(SpaceRec) /\ Len(spaces) \in Nat /\ OnlyFirst(spaces)
        /\ DOMAIN spaces = 1 .. Len(spaces)
        /\ \A i \in 1 .. Len(spaces) : ~IsFocusSpace(spaces[i])
    BY <1>2, Given DEF OnlyFirst
  <2> HIDE DEF f
  <2>3. <<f>> \in Seq(SpaceRec) /\ Len(<<f>>) = 1 /\ <<f>>[1] = f
    BY <2>1
  <2>4. /\ sp \in Seq(SpaceRec) /\ Len(sp) = 1 + Len(spaces)
        /\ \A i \in 1 .. 1 + Len(spaces) : sp[i] = IF i <= 1 THEN <<f>>[i] ELSE spaces[i - 1]
    BY <2>2, <2>3, ConcatProperties
  <2> HIDE DEF sp
  <2>5. sp[1] = f /\ \A i \in 1 .. Len(spaces) : sp[i + 1] = spaces[i]
    BY <2>2, <2>3, <2>4
  <2>6. OnlyFirst(sp) /\ IsFocusSpace(sp[1])
    <3>1. DOMAIN sp = 1 .. Len(sp)
      BY <2>4, SpaceFacts
    <3>2. ASSUME NEW i \in 1 .. Len(sp), i # 1 PROVE ~IsFocusSpace(sp[i])
      <4>1. i - 1 \in 1 .. Len(spaces) /\ sp[i] = spaces[i - 1]
        BY <2>2, <2>4, <3>2
      <4>2. QED
        BY <2>2, <4>1
    <3>3. QED
      BY <2>1, <2>5, <3>1, <3>2 DEF OnlyFirst, IsFocusSpace
  <2>7. QED
    BY <1>2, <2>2, <2>4, <2>5, <2>6 DEF sp, f
<1>3. QED
  BY <1>1, <1>2

LEMMA Enters ==
  ASSUME WMInv, NEW p, NEW new, EnterFocus(p, new)
  PROVE  \E w : Handles(w, {})
<1> DEFINE n == LayoutOf(Current)
           rest == CloseAt(n, p)
           kept == Placeheld(n, p, new)
           N == IF rest = NoLayout THEN {new} ELSE {}
           leaf == FindLeaf(n, p)
           sp == IF IsFocusSpace(spaces[1]) THEN spaces ELSE <<Space("focus", NoLayout)>> \o spaces
           shown == [sp EXCEPT ![1].layout = Alone(leaf)]
           src == active + 1
           all == IF src \in DOMAIN shown THEN [shown EXCEPT ![src].layout = kept]
                  ELSE Append(shown, Space("user", kept))
           m == [pane |-> p, source |-> src, snapshot |-> n]
           w == State(all, 1, p, m)
<1>0. Become(w)
  BY Zenon DEF EnterFocus, State, Placeheld
<1>1. /\ mode = NotFocusing /\ p \in Panes(n)
      /\ rest = NoLayout => new \in Unused
  BY Zenon DEF EnterFocus
<1>2. /\ UniqueIn(spaces) /\ Sound(n) /\ n \in Layouts /\ Panes(n) = Visible /\ p \in Pane
      /\ active \in 1 .. Len(spaces) /\ n = spaces[active].layout
      /\ spaces \in Seq(SpaceRec) /\ Len(spaces) \in Nat
  <2>1. UniqueIn(spaces)
    BY <1>0, StateUnique, Zenon DEF Become
  <2>2. QED
    BY <1>1, <2>1, Shown, Given
<1>3. /\ kept \in Layouts /\ Panes(kept) = (Panes(n) \ {p}) \cup N
      /\ N \cap SpacePanes(spaces) = {}
      /\ \A x, t : Has(kept, x, t) => x \in N \/ (Has(n, x, t) /\ x # p)
  BY <1>1, <1>2, Placeholding
<1>4. /\ Alone(leaf) \in Layouts /\ Panes(Alone(leaf)) = {p}
      /\ \A x, t : Has(Alone(leaf), x, t) => x = p /\ Has(n, x, t)
  <2>1. leaf \in AnyTile /\ leaf.id = p
    BY <1>1, <1>2, Located
  <2>2. /\ Sound(Alone(leaf)) /\ Panes(Alone(leaf)) = {p}
        /\ \A x, t : Has(Alone(leaf), x, t) => x = p /\ t = leaf.type
    BY <2>1, AloneIsSound
  <2>3. Has(n, p, leaf.type)
    BY <1>1, <1>2, OneType
  <2>4. Alone(leaf) \in Layouts
    BY <1>2, <2>2, LayoutsAreSound
  <2>5. QED
    BY <2>2, <2>3, <2>4
<1>5. /\ sp \in Seq(SpaceRec) /\ Len(sp) \in Nat /\ 1 \in 1 .. Len(sp)
      /\ OnlyFirst(sp) /\ IsFocusSpace(sp[1])
      /\ ~IsFocusSpace(spaces[1]) =>
           /\ Len(sp) = Len(spaces) + 1
           /\ \A i \in 1 .. Len(spaces) : sp[i + 1] = spaces[i]
  BY FocusSpaceFirst
<1> DEFINE s == WithLayout(sp[1], Alone(leaf))
<1>6. shown = [sp EXCEPT ![1] = s]
  BY DEF WithLayout
<1> HIDE DEF sp, leaf, kept, N, rest
<1>7. s \in SpaceRec /\ s.name = sp[1].name /\ s.layout = Alone(leaf)
  BY <1>4, <1>5, SpaceFacts, SpaceUpdates, BoundsAssumption
<1> HIDE DEF s, shown
<1>8. /\ shown \in Seq(SpaceRec) /\ Len(shown) = Len(sp) /\ OnlyFirst(shown)
      /\ \A i \in 1 .. Len(sp) : shown[i] = IF i = 1 THEN s ELSE sp[i]
  <2>1. /\ [sp EXCEPT ![1] = s] \in Seq(SpaceRec) /\ Len([sp EXCEPT ![1] = s]) = Len(sp)
        /\ OnlyFirst([sp EXCEPT ![1] = s])
        /\ \A i \in 1 .. Len(sp) : [sp EXCEPT ![1] = s][i] = IF i = 1 THEN s ELSE sp[i]
    BY <1>5, <1>7, OneSpace
  <2>2. QED
    BY <1>6, <2>1
<1>9. src \in Nat /\ src > 1 /\ DOMAIN shown = 1 .. Len(sp)
  BY <1>2, <1>8, SpaceFacts
<1>10. /\ all \in Seq(SpaceRec) /\ all # << >> /\ OnlyFirst(all) /\ all[1] = s
       /\ src \in 1 .. Len(sp) =>
            /\ Len(all) = Len(sp) /\ all[src].layout = kept
            /\ \A i \in 1 .. Len(sp) : i # 1 /\ i # src => all[i] = sp[i]
  <2>1. CASE src \in 1 .. Len(sp)
    <3> DEFINE t == WithLayout(shown[src], kept)
               nw == [shown EXCEPT ![src] = t]
    <3>1. t \in SpaceRec /\ t.name = shown[src].name /\ t.layout = kept
      BY <1>3, <1>8, <2>1, SpaceFacts, SpaceUpdates, BoundsAssumption
    <3>2. all = nw
      BY <1>9, <2>1 DEF WithLayout
    <3> HIDE DEF t, all
    <3>3. /\ nw \in Seq(SpaceRec) /\ Len(nw) = Len(shown) /\ OnlyFirst(nw)
          /\ \A i \in 1 .. Len(shown) : nw[i] = IF i = src THEN t ELSE shown[i]
      BY <1>8, <2>1, <3>1, OneSpace
    <3> HIDE DEF nw
    <3>4. nw # << >>
      BY <1>5, <1>8, <3>3, EmptySeq
    <3>5. /\ nw[1] = s /\ nw[src].layout = kept
          /\ \A i \in 1 .. Len(sp) : i # 1 /\ i # src => nw[i] = sp[i]
      <4>1. \A i \in 1 .. Len(sp) : nw[i] = IF i = src THEN t ELSE shown[i]
        BY <1>8, <3>3
      <4>2. 1 # src /\ 1 \in 1 .. Len(sp)
        BY <1>5, <1>9
      <4>3. \A i \in 1 .. Len(sp) : shown[i] = IF i = 1 THEN s ELSE sp[i]
        BY <1>8
      <4> HIDE DEF src
      <4>4. nw[1] = s
        BY <4>1, <4>2, <4>3
      <4>5. nw[src].layout = kept
        BY <2>1, <3>1, <4>1
      <4>6. \A i \in 1 .. Len(sp) : i # 1 /\ i # src => nw[i] = sp[i]
        BY <4>1, <4>3
      <4>7. QED
        BY <4>4, <4>5, <4>6
    <3>6. QED
      BY <1>8, <3>2, <3>3, <3>4, <3>5
  <2>2. CASE src \notin 1 .. Len(sp)
    <3> DEFINE t == Space("user", kept)
               nw == Append(shown, t)
    <3>1. t \in SpaceRec /\ t.name = "user"
      BY <1>3 DEF Space, SpaceRec
    <3>2. all = nw
      BY <1>9, <2>2
    <3> HIDE DEF t, all
    <3>3. /\ nw \in Seq(SpaceRec) /\ Len(nw) = Len(shown) + 1
          /\ \A i \in 1 .. Len(shown) : nw[i] = shown[i]
          /\ nw[Len(shown) + 1] = t
      BY <1>8, <3>1, AppendProperties
    <3> HIDE DEF nw
    <3>4. nw # << >> /\ DOMAIN nw = 1 .. Len(shown) + 1
      BY <1>5, <1>8, <3>3, SpaceFacts, EmptySeq
    <3>5. OnlyFirst(nw)
      <4>1. ASSUME NEW i \in 1 .. Len(shown) + 1, IsFocusSpace(nw[i]) PROVE i = 1
        <5>1. i \in 1 .. Len(shown)
          BY <1>5, <1>8, <3>1, <3>3, <4>1 DEF IsFocusSpace
        <5>2. QED
          BY <1>8, <1>9, <3>3, <4>1, <5>1 DEF OnlyFirst
      <4>2. QED
        BY <3>4, <4>1 DEF OnlyFirst
    <3>6. nw[1] = s
      BY <1>5, <1>8, <3>3
    <3>7. QED
      BY <2>2, <3>2, <3>3, <3>4, <3>5, <3>6
  <2>3. QED
    BY <2>1, <2>2
<1> HIDE DEF all
<1>11. /\ m \in ModeRec /\ m.pane = p /\ m.source = src /\ m # NotFocusing
  <2>1. m.pane = p /\ m.source = src /\ m \in ModeRec
    BY <1>2, <1>9 DEF ModeRec
  <2>2. QED
    BY <1>2, <2>1, NotFocusingFacts
<1>12. /\ w.spaces = all /\ w.active = 1 /\ w.focused = p /\ w.mode = m
       /\ w = [spaces |-> w.spaces, active |-> w.active, focused |-> w.focused, mode |-> w.mode]
  BY DEF State
<1> HIDE DEF w, m, src
<1>13. Ready(w, active)
  <2>1. IsFocusSpace(all[1]) /\ p \in Panes(all[1].layout)
    BY <1>4, <1>5, <1>7, <1>10 DEF IsFocusSpace
  <2>2. QED
    BY <1>2, <1>9, <1>10, <1>11, <1>12, <2>1 DEF Ready
<1>14. ASSUME Ordinary
       PROVE  /\ UniqueIn(all) /\ TypesFollow(spaces, all)
              /\ SpacePanes(spaces) \subseteq SpacePanes(all)
  \* Space j of before is space j + 1 now; the tile is in the first one.
  <2>1. /\ Len(sp) = Len(spaces) + 1 /\ src \in 1 .. Len(sp) /\ src = active + 1
        /\ \A i \in 1 .. Len(spaces) : sp[i + 1] = spaces[i]
    BY <1>2, <1>5, <1>14 DEF Ordinary, src
  <2>2. /\ Len(all) = Len(spaces) + 1 /\ all[1].layout = Alone(leaf) /\ all[src].layout = kept
        /\ \A j \in 1 .. Len(spaces) : j # active => all[j + 1] = spaces[j]
    <3>1. ASSUME NEW j \in 1 .. Len(spaces), j # active PROVE all[j + 1] = spaces[j]
      <4>1. j + 1 \in 1 .. Len(sp) /\ j + 1 # 1 /\ j + 1 # src /\ sp[j + 1] = spaces[j]
        BY <1>2, <2>1, <3>1
      <4>2. QED
        BY <1>10, <2>1, <4>1
    <3>2. QED
      BY <1>7, <1>10, <2>1, <3>1
  <2>3. ASSUME NEW i \in 1 .. Len(all)
        PROVE  \/ i = 1
               \/ i = src
               \/ i - 1 \in 1 .. Len(spaces) /\ i - 1 # active /\ all[i] = spaces[i - 1]
    <3>1. ASSUME i # 1, i # src
          PROVE  i - 1 \in 1 .. Len(spaces) /\ i - 1 # active /\ all[i] = spaces[i - 1]
      <4>1. i - 1 \in 1 .. Len(spaces) /\ i - 1 # active /\ (i - 1) + 1 = i
        BY <1>2, <2>1, <2>2, <3>1
      <4>2. QED
        BY <2>2, <4>1
    <3>2. QED
      BY <3>1
  <2>4. ASSUME NEW i \in 1 .. Len(all), NEW x \in Panes(all[i].layout)
        PROVE  \/ x = p /\ i = 1
               \/ x \in N /\ i = src /\ x \notin SpacePanes(spaces)
               \/ /\ x # p /\ x \notin N /\ i # 1 /\ i - 1 \in 1 .. Len(spaces)
                  /\ x \in Panes(spaces[i - 1].layout)
    <3>1. CASE i = 1
      BY <1>4, <2>2, <2>4, <3>1
    <3>2. CASE i = src
      <4>1. x \in (Panes(n) \ {p}) \cup N /\ src - 1 = active /\ i # 1
        BY <1>2, <1>3, <2>1, <2>2, <2>4, <3>2
      <4>2. QED
        BY <1>2, <1>3, <3>2, <4>1
    <3>3. CASE i - 1 \in 1 .. Len(spaces) /\ i - 1 # active /\ all[i] = spaces[i - 1]
      <4>1. x # p
        BY <1>1, <1>2, <2>4, <3>3, OnePlace
      <4>2. x \in SpacePanes(spaces) /\ i # 1
        BY <1>2, <2>4, <3>3, Places
      <4>3. QED
        BY <1>3, <2>4, <3>3, <4>1, <4>2
    <3>4. QED
      BY <2>3, <3>1, <3>2, <3>3
  <2>5. UniqueIn(all)
    <3>1. ASSUME NEW i \in 1 .. Len(all), NEW j \in 1 .. Len(all), NEW x,
                 x \in Panes(all[i].layout), x \in Panes(all[j].layout)
          PROVE  i = j
      <4>1. CASE x = p \/ x \in N
        BY <1>1, <1>2, <1>3, <2>4, <3>1, <4>1, Shown
      <4>2. CASE x # p /\ x \notin N
        <5>1. i - 1 = j - 1
          BY <1>2, <2>4, <3>1, <4>2, OnePlace
        <5>2. QED
          BY <1>10, <5>1, Places
      <4>3. QED
        BY <4>1, <4>2
    <3>2. QED
      BY <1>10, <3>1, OnePlace
  <2>6. TypesFollow(spaces, all)
    <3>1. ASSUME NEW x, NEW t, SomeHas(all, x, t), x \in SpacePanes(spaces)
          PROVE  SomeHas(spaces, x, t)
      <4>1. PICK i \in 1 .. Len(all) : Has(all[i].layout, x, t)
        BY <1>10, <3>1, HasFacts
      <4>2. CASE i = 1
        BY <1>2, <1>4, <2>2, <4>1, <4>2, HasFacts
      <4>3. CASE i = src
        BY <1>2, <1>3, <2>2, <3>1, <4>1, <4>3, HasFacts
      <4>4. CASE i - 1 \in 1 .. Len(spaces) /\ all[i] = spaces[i - 1]
        BY <1>2, <4>1, <4>4, HasFacts
      <4>5. QED
        BY <2>3, <4>2, <4>3, <4>4
    <3>2. QED
      BY <3>1 DEF TypesFollow
  <2>7. ASSUME NEW x \in SpacePanes(spaces) PROVE x \in SpacePanes(all)
    <3>1. PICK j \in 1 .. Len(spaces) : x \in Panes(spaces[j].layout)
      BY <1>2, Places
    <3>2. CASE x = p
      <4>1. 1 \in 1 .. Len(all) /\ x \in Panes(all[1].layout)
        BY <1>2, <1>4, <2>2, <3>2
      <4>2. QED
        BY <1>10, <4>1, Places
    <3>3. CASE x # p /\ j = active
      <4>1. src \in 1 .. Len(all) /\ x \in Panes(all[src].layout)
        BY <1>2, <1>3, <2>1, <2>2, <3>1, <3>3
      <4>2. QED
        BY <1>10, <4>1, Places
    <3>4. CASE j # active
      <4>1. j + 1 \in 1 .. Len(all) /\ x \in Panes(all[j + 1].layout)
        BY <1>2, <2>2, <3>1, <3>4
      <4>2. QED
        BY <1>10, <4>1, Places
    <3>5. QED
      BY <3>2, <3>3, <3>4
  <2>8. QED
    BY <2>5, <2>6, <2>7
<1>15. KeepsIndex(w)
  BY <1>11, <1>12 DEF KeepsIndex
<1>16. QED
  BY <1>0, <1>1, <1>11, <1>12, <1>13, <1>14, <1>15 DEF Handles

\* The spaces behind the focus space.
LEMMA Behind ==
  ASSUME WMInv
  PROVE  LET rest == Tail(spaces)
         IN  /\ rest \in Seq(SpaceRec) /\ Len(rest) = Len(spaces) - 1
             /\ DOMAIN rest = 1 .. Len(spaces) - 1
             /\ \A i \in 1 .. Len(spaces) - 1 : ~IsFocusSpace(rest[i])
<1> DEFINE rest == Tail(spaces)
<1>1. /\ spaces \in Seq(SpaceRec) /\ spaces # << >> /\ OnlyFirst(spaces)
      /\ Len(spaces) \in Nat /\ DOMAIN spaces = 1 .. Len(spaces)
  BY Given
<1>2. /\ rest \in Seq(SpaceRec) /\ Len(rest) = Len(spaces) - 1
      /\ \A i \in 1 .. Len(rest) : rest[i] = spaces[i + 1]
  BY <1>1, HeadTailProperties
<1> HIDE DEF rest
<1>3. DOMAIN rest = 1 .. Len(spaces) - 1
  BY <1>2, SpaceFacts
<1>4. ASSUME NEW i \in 1 .. Len(spaces) - 1 PROVE ~IsFocusSpace(rest[i])
  <2>1. rest[i] = spaces[i + 1] /\ i + 1 \in 1 .. Len(spaces) /\ i + 1 # 1
    BY <1>1, <1>2
  <2>2. QED
    BY <1>1, <2>1 DEF OnlyFirst
<1>5. QED
  BY <1>2, <1>3, <1>4 DEF rest

\* The focus space goes, and a layout is put back in one of the others.
LEMMA PutBack ==
  ASSUME WMInv, NEW k \in 1 .. Len(spaces) - 1, NEW n \in Layouts, NEW f,
         n = NoLayout => f \in Pane \cup {NoPane}
  PROVE  LET back == [Tail(spaces) EXCEPT ![k].layout = n]
         IN  /\ Ready(State(back, k, f, NotFocusing), active)
             /\ k \in DOMAIN back /\ back[k].layout = n /\ ~IsFocusSpace(back[1])
<1> DEFINE rest == Tail(spaces)
           s == WithLayout(rest[k], n)
           back == [rest EXCEPT ![k] = s]
<1>1. /\ rest \in Seq(SpaceRec) /\ Len(rest) = Len(spaces) - 1 /\ Len(spaces) \in Nat
      /\ DOMAIN rest = 1 .. Len(spaces) - 1
      /\ \A i \in 1 .. Len(spaces) - 1 : ~IsFocusSpace(rest[i])
  BY Behind, Given
<1>2. [Tail(spaces) EXCEPT ![k].layout = n] = back
  BY DEF WithLayout
<1> HIDE DEF rest
<1>3. s \in SpaceRec /\ s.name = rest[k].name /\ s.layout = n
  BY <1>1, SpaceFacts, SpaceUpdates, BoundsAssumption
<1> HIDE DEF s
<1>4. OnlyFirst(rest)
  BY <1>1 DEF OnlyFirst
<1>5. /\ back \in Seq(SpaceRec) /\ Len(back) = Len(rest)
      /\ \A i \in 1 .. Len(rest) : back[i] = IF i = k THEN s ELSE rest[i]
      /\ OnlyFirst(back)
  BY <1>1, <1>3, <1>4, OneSpace
<1> HIDE DEF back
<1>6. DOMAIN back = 1 .. Len(spaces) - 1 /\ back # << >> /\ 1 \in 1 .. Len(rest)
  BY <1>1, <1>5, SpaceFacts, EmptySeq
<1>7. ~IsFocusSpace(back[1])
  BY <1>1, <1>3, <1>5, <1>6 DEF IsFocusSpace
<1>8. back[k].layout = n
  BY <1>1, <1>3, <1>5
<1>9. LayoutOf(State(back, k, f, NotFocusing)) = n
  BY <1>6, <1>8 DEF LayoutOf, State
<1>10. k \in Nat \ {0} /\ k \in DOMAIN back
  BY <1>6
<1>11. Ready(State(back, k, f, NotFocusing), active)
  BY <1>5, <1>6, <1>9, <1>10, EndsReady
<1>12. QED
  BY <1>2, <1>7, <1>8, <1>10, <1>11, Zenon

\* The snapshot is back where it was taken.
Restored(w) ==
  mode.source \in DOMAIN spaces =>
    /\ mode.source - 1 \in DOMAIN w.spaces /\ w.spaces[mode.source - 1].layout = mode.snapshot
    /\ ~IsFocusSpace(w.spaces[1])

LEMMA Exits ==
  ASSUME WMInv, ExitFocus
  PROVE  \E w : Handles(w, {}) /\ w.mode = NotFocusing /\ Restored(w)
<1> DEFINE at == mode.source - 1
           back == [Tail(spaces) EXCEPT ![at].layout = mode.snapshot]
<1>1. /\ mode # NotFocusing
      /\ Become(IF mode.source \notin DOMAIN spaces THEN [Current EXCEPT !.mode = NotFocusing]
                ELSE State(back, at, mode.pane, NotFocusing))
  BY Zenon DEF ExitFocus, State
<1>2. /\ mode \in ModeRec /\ mode.source > 1 /\ mode.source \in Nat /\ mode.snapshot \in Layouts
      /\ Len(spaces) \in Nat /\ DOMAIN spaces = 1 .. Len(spaces)
      /\ mode.pane \in Pane \cup {NoPane}
  BY <1>1, Given DEF ModeRec
<1>3. ~Ordinary
  BY <1>1 DEF Ordinary
<1>4. CASE mode.source \notin DOMAIN spaces
  <2> DEFINE w == State(spaces, active, focused, NotFocusing)
  <2>1. [Current EXCEPT !.mode = NotFocusing] = w
    BY CurrentIs, Updates
  <2>2. Become(w)
    BY <1>1, <1>4, <2>1, Zenon
  <2>3. Ready(w, active)
    BY Given, EndsReady
  <2>4. w.mode = NotFocusing /\ KeepsIndex(w)
    BY Updates DEF KeepsIndex
  <2> HIDE DEF w
  <2>5. Handles(w, {}) /\ Restored(w)
    BY <1>3, <1>4, <2>2, <2>3, <2>4, Zenon DEF Handles, Restored
  <2>6. QED
    BY <2>4, <2>5
<1>5. CASE mode.source \in DOMAIN spaces
  <2> DEFINE w == State(back, at, mode.pane, NotFocusing)
  <2>1. Become(w)
    BY <1>1, <1>5, Zenon
  <2>2. at \in 1 .. Len(spaces) - 1
    BY <1>2, <1>5
  <2> HIDE DEF at
  <2>3. /\ Ready(w, active)
        /\ at \in DOMAIN back /\ back[at].layout = mode.snapshot /\ ~IsFocusSpace(back[1])
    BY <1>2, <2>2, PutBack
  <2>4. w.mode = NotFocusing /\ w.spaces = back /\ KeepsIndex(w)
    BY <2>3, Updates DEF KeepsIndex
  <2> HIDE DEF w, back
  <2>5. Handles(w, {})
    BY <1>3, <2>1, <2>3, <2>4, Zenon DEF Handles
  <2>6. Restored(w)
    BY <2>3, <2>4 DEF Restored, at
  <2>7. QED
    BY <2>4, <2>5, <2>6
<1>6. QED
  BY <1>4, <1>5

\* Closing the tile of focus mode ends it, whatever the spaces are by then.
LEMMA ClosesFocusTile ==
  ASSUME WMInv, NEW p \in Pane, CloseTile(p), mode.pane = p
  PROVE  \E w : Handles(w, {p}) /\ w.mode = NotFocusing
<1> DEFINE rest == Tail(spaces)
           src == IF mode.source - 1 <= Len(rest) THEN mode.source - 1 ELSE Len(rest)
           n == mode.snapshot
           layout == CloseAt(n, p)
           f == FocusAfterClose(n, p)
           sp == IF rest = << >> THEN << Space("user", layout) >>
                 ELSE [rest EXCEPT ![src].layout = layout]
           w == State(sp, IF src < 1 THEN 1 ELSE src, f, NotFocusing)
<1>1. mode # NotFocusing
  BY BoundsAssumption DEF NotFocusing
<1>2. Become(w)
  <2>1. Become(CloseFocusTile(Current))
    BY Zenon DEF CloseTile
  <2>2. Current.spaces = spaces /\ Current.mode = mode
    BY DEF Current
  <2>3. CloseFocusTile(Current) = w
    BY <2>2, Zenon DEF CloseFocusTile, State
  <2>4. QED
    BY <2>1, <2>3, Zenon
<1>3. /\ mode \in ModeRec /\ mode.source > 1 /\ mode.source \in Nat /\ n \in Layouts /\ Sound(n)
      /\ Panes(n) \subseteq Pane
  BY <1>1, Given, LayoutsAreSound DEF ModeRec
<1>4. /\ rest \in Seq(SpaceRec) /\ Len(rest) = Len(spaces) - 1 /\ Len(spaces) \in Nat
  BY Behind, Given
<1> HIDE DEF rest, n
<1>5. layout \in Layouts
  <2>1. CASE p \in Panes(n)
    <3>1. Loses(n, layout, p)
      BY <1>3, <2>1, Closing
    <3>2. Panes(layout) \subseteq Pane
      BY <1>3, <3>1, PanesLose
    <3>3. QED
      BY <3>1, <3>2, LayoutsAreSound DEF Loses
  <2>2. CASE p \notin Panes(n)
    BY <1>3, <2>2 DEF CloseAt
  <2>3. QED
    BY <2>1, <2>2
<1>6. layout = NoLayout => f \in Pane \cup {NoPane}
  BY <1>3, FocusWhenEmpty
<1> HIDE DEF layout, f
<1>7. Ready(w, active) /\ w.active \in DOMAIN w.spaces
  <2>1. CASE rest = << >>
    <3> DEFINE s == Space("user", layout)
               one == << s >>
    <3>1. src = 0 /\ sp = one
      BY <1>3, <2>1
    <3>2. s \in SpaceRec /\ s.name = "user" /\ s.layout = layout
      BY <1>5 DEF Space, SpaceRec
    <3>3. w = State(one, 1, f, NotFocusing)
      BY <3>1
    <3> HIDE DEF s, w
    <3>4. /\ one \in Seq(SpaceRec) /\ one # << >> /\ one[1] = s
          /\ DOMAIN one = {1}
      BY <3>2
    <3> HIDE DEF one
    <3>5. OnlyFirst(one) /\ 1 \in Nat \ {0} /\ 1 \in DOMAIN one
      BY <3>4 DEF OnlyFirst
    <3>6. LayoutOf(State(one, 1, f, NotFocusing)) = layout
      BY <3>2, <3>4 DEF LayoutOf, State
    <3>7. LayoutOf(State(one, 1, f, NotFocusing)) = NoLayout => f \in Pane \cup {NoPane}
      BY <1>6, <3>6
    <3>8. Ready(State(one, 1, f, NotFocusing), active)
      BY <3>4, <3>5, <3>7, EndsReady
    <3>9. State(one, 1, f, NotFocusing).active \in DOMAIN State(one, 1, f, NotFocusing).spaces
      BY <3>5, Updates
    <3>10. QED
      BY <3>3, <3>8, <3>9
  <2>2. CASE rest # << >>
    <3>1. src \in 1 .. Len(spaces) - 1
      BY <1>3, <1>4, <2>2, EmptySeq
    <3>2. (IF src < 1 THEN 1 ELSE src) = src
      BY <1>4, <3>1
    <3> HIDE DEF src
    <3>3. w = State([rest EXCEPT ![src].layout = layout], src, f, NotFocusing)
      BY <2>2, <3>2, Zenon
    <3>4. Ready(State([Tail(spaces) EXCEPT ![src].layout = layout], src, f, NotFocusing), active)
      BY <1>5, <1>6, <3>1, PutBack
    <3> DEFINE back == [rest EXCEPT ![src].layout = layout]
    <3>5. src \in DOMAIN back
      BY <1>5, <1>6, <3>1, PutBack DEF rest
    <3> HIDE DEF back
    <3>6. State(back, src, f, NotFocusing).active \in DOMAIN State(back, src, f, NotFocusing).spaces
      BY <3>5, Updates
    <3>7. QED
      BY <3>3, <3>4, <3>6, Zenon DEF rest, back
  <2>3. QED
    BY <2>1, <2>2
<1>8. w.mode = NotFocusing /\ KeepsIndex(w)
  BY <1>7, Updates DEF KeepsIndex
<1>9. ~Ordinary
  BY <1>1 DEF Ordinary
<1> HIDE DEF w
<1>10. QED
  BY <1>2, <1>7, <1>8, <1>9, Zenon DEF Handles
-----------------------------------------------------------------------------
(* Every step, and the invariants.                                         *)

\* Only a close and the deletion of a space lose tiles.
Excused(lost) ==
  \A p \in lost :
    CloseTile(p) \/ \E i \in DOMAIN spaces : p \in Panes(spaces[i].layout) /\ DeleteSpace(i)

\* What becomes of focus mode: the handler leaves it on, restores what it took,
\* or does away with its tile or with a space.
Ends(w) ==
  \/ Stays(w)
  \/ w.mode = NotFocusing /\ Restored(w)
  \/ CloseTile(mode.pane)
  \/ \E ids \in SUBSET Untyped : Reload(ids)
  \/ \E i \in DOMAIN spaces : DeleteSpace(i)

Served(w, lost) == Handles(w, lost) /\ Excused(lost) /\ (mode # NotFocusing => Ends(w))

LEMMA Serving ==
  ASSUME \E w : Handles(w, {}) /\ Stays(w)
  PROVE  \E w, lost : Served(w, lost)
<1>1. PICK w : Handles(w, {}) /\ Stays(w)
  OBVIOUS
<1>2. Served(w, {})
  BY <1>1 DEF Served, Excused, Ends
<1>3. QED
  BY <1>2

LEMMA TileSteps ==
  ASSUME WMInv, TileStep
  PROVE  \E w, lost : Served(w, lost)
<1>1. ASSUME NEW new \in Unused, NEW dir \in {"horizontal", "vertical"},
             NEW side \in {"before", "after"}, SplitTile(new, dir, side)
      PROVE  \E w, lost : Served(w, lost)
  BY <1>1, Splits, Serving
<1>2. ASSUME NEW new \in Unused, NEW p \in SpacePanes(spaces) \cup {focused}, NEW type \in Types,
             OpenTile(new, p, type)
      PROVE  \E w, lost : Served(w, lost)
  <2>1. p \in Pane \cup {NoPane}
    BY Given, Shown
  <2>2. QED
    BY <1>2, <2>1, Opens, Serving
<1>3. ASSUME NEW p \in Visible, NEW type \in Types, PickType(p, type)
      PROVE  \E w, lost : Served(w, lost)
  BY <1>3, Picks, Serving
<1>4. ASSUME NEW p \in Visible, SetTileFontSize(p)
      PROVE  \E w, lost : Served(w, lost)
  BY <1>4, SetsFont, Serving
<1>5. ASSUME NEW p \in SpacePanes(spaces), CloseTile(p)
      PROVE  \E w, lost : Served(w, lost)
  <2>1. Excused({p})
    BY <1>5 DEF Excused
  <2>2. CASE mode.pane # p
    <3>1. PICK w : Handles(w, {p}) /\ Stays(w)
      BY <1>5, <2>2, Closes
    <3>2. Served(w, {p})
      BY <2>1, <3>1 DEF Served, Ends
    <3>3. QED
      BY <3>2
  <2>3. CASE mode.pane = p
    <3>1. p \in Pane
      BY Shown
    <3>2. PICK w : Handles(w, {p})
      BY <1>5, <2>3, <3>1, ClosesFocusTile
    <3>3. Served(w, {p})
      BY <1>5, <2>1, <2>3, <3>2, Zenon DEF Served, Ends
    <3>4. QED
      BY <3>3
  <2>4. QED
    BY <2>2, <2>3
<1>6. ASSUME NEW p \in Visible, NEW q \in Visible, NEW zone \in DropZones, Drop(p, q, zone)
      PROVE  \E w, lost : Served(w, lost)
  BY <1>6, Drops, Serving
<1>7. QED
  BY <1>1, <1>2, <1>3, <1>4, <1>5, <1>6, Zenon DEF TileStep

LEMMA SpaceSteps ==
  ASSUME WMInv, SpaceStep
  PROVE  \E w, lost : Served(w, lost)
<1>1. ASSUME NEW p, NEW to, MoveTileToSpace(p, to) PROVE \E w, lost : Served(w, lost)
  BY <1>1, MovesTile, Serving
<1>2. ASSUME NEW to, HeaderMoveTile(to) PROVE \E w, lost : Served(w, lost)
  BY <1>2, MovesFromHeader, Serving
<1>3. ASSUME NEW i, SelectSpace(i) PROVE \E w, lost : Served(w, lost)
  BY <1>3, Selects, Serving
<1>4. ASSUME NEW new, AddSpace(new) PROVE \E w, lost : Served(w, lost)
  BY <1>4, Adds, Serving
<1>5. ASSUME NEW i \in DOMAIN spaces, DeleteSpace(i) PROVE \E w, lost : Served(w, lost)
  <2>1. PICK w : Handles(w, Panes(spaces[i].layout))
    BY <1>5, Deletes
  <2>2. Excused(Panes(spaces[i].layout))
    BY <1>5, Zenon DEF Excused
  <2>3. Ends(w)
    BY <1>5, Zenon DEF Ends
  <2>4. QED
    BY <2>1, <2>2, <2>3, Zenon DEF Served
<1>6. QED
  BY <1>1, <1>2, <1>3, <1>4, <1>5, Zenon DEF SpaceStep

LEMMA ModeSteps ==
  ASSUME WMInv, ModeStep
  PROVE  \E w, lost : Served(w, lost)
<1>1. Excused({})
  BY DEF Excused
<1>2. ASSUME NEW p, NEW new, EnterFocus(p, new) PROVE \E w, lost : Served(w, lost)
  <2>1. PICK w : Handles(w, {})
    BY <1>2, Enters
  <2>2. mode = NotFocusing
    BY <1>2, Zenon DEF EnterFocus
  <2>3. QED
    BY <1>1, <2>1, <2>2, Zenon DEF Served
<1>3. ASSUME ExitFocus PROVE \E w, lost : Served(w, lost)
  <2>1. PICK w : Handles(w, {}) /\ w.mode = NotFocusing /\ Restored(w)
    BY <1>3, Exits
  <2>2. QED
    BY <1>1, <2>1, Zenon DEF Served, Ends
<1>4. ASSUME NEW ids \in SUBSET Untyped, Reload(ids) PROVE \E w, lost : Served(w, lost)
  <2>1. PICK w : Handles(w, {})
    BY <1>4, Reloads
  <2>2. Ends(w)
    BY <1>4, Zenon DEF Ends
  <2>3. QED
    BY <1>1, <2>1, <2>2, Zenon DEF Served
<1>5. QED
  BY <1>2, <1>3, <1>4, Zenon DEF ModeStep

LEMMA EveryStep ==
  ASSUME WMInv, Next
  PROVE  \E w, lost : Served(w, lost)
<1>1. ASSUME FocusStep PROVE \E w, lost : Served(w, lost)
  BY <1>1, Focuses, Serving DEF FocusStep
<1>2. QED
  BY <1>1, TileSteps, SpaceSteps, ModeSteps DEF Next

LEMMA StartsGood == Init => WMInv
<1> SUFFICES ASSUME Init PROVE WMInv
  OBVIOUS
<1> DEFINE n == Alone(Leaf(focused, "none"))
           s == Space("user", n)
<1>1. focused \in Pane /\ spaces = << s >> /\ active = 1 /\ mode = NotFocusing
  BY DEF Init
<1>2. Leaf(focused, "none") \in AnyTile /\ Leaf(focused, "none").id = focused
  BY <1>1 DEF Leaf, AnyTile, AnyId, Kind, Paths
<1>3. Sound(n) /\ Panes(n) = {focused}
  BY <1>2, AloneIsSound
<1>4. n \in Layouts
  BY <1>1, <1>3, LayoutsAreSound
<1> HIDE DEF n
<1>5. s \in SpaceRec /\ s.name = "user" /\ s.layout = n
  BY <1>4 DEF Space, SpaceRec
<1> HIDE DEF s
<1>6. spaces \in Seq(SpaceRec) /\ spaces # << >> /\ DOMAIN spaces = {1} /\ spaces[1] = s
  BY <1>1, <1>5
<1>7. OnlyFirst(spaces)
  BY <1>6 DEF OnlyFirst
<1>8. /\ Current.spaces = spaces /\ Current.active = active
      /\ Current.focused = focused /\ Current.mode = mode
  BY DEF Current
<1>9. LayoutOf(Current) = n
  BY <1>1, <1>5, <1>6, <1>8 DEF LayoutOf
<1>10. QED
  BY <1>1, <1>3, <1>6, <1>7, <1>8, <1>9, NotFocusingFacts DEF WMInv, Good

LEMMA StaysGood == WMInv /\ [Next]_vars => WMInv'
<1>1. ASSUME WMInv, Next PROVE WMInv'
  BY <1>1, EveryStep, Becoming DEF Served, Handles
<1>2. ASSUME WMInv, UNCHANGED vars PROVE WMInv'
  BY <1>2 DEF vars, WMInv, Good, Current, LayoutOf
<1>3. QED
  BY <1>1, <1>2

LEMMA WMCorrect == Spec => []WMInv
  BY StartsGood, StaysGood, PTL DEF Spec

\* Whatever events come in whatever order, every layout, hidden spaces and the
\* snapshot of focus mode included, is that of a binary tree of distinct tiles
\* without an empty split, and the other atoms have their types.
THEOREM WMTypeCorrect == Spec => []TypeOK
  BY WMCorrect, InvParts, PTL

\* There is always a space, only the first one is a focus space, and focus mode
\* is on only in that one, although it comes and goes at the front of the list:
\* SpaceListSound.
THEOREM SpacesStaySound == Spec => []SpaceListSound
  BY WMCorrect, InvParts, PTL

\* After every handler and its effects the focused tile is a visible one, when
\* there is one at all: FocusedIsVisible.
THEOREM FocusStaysVisible == Spec => []FocusedIsVisible
  BY WMCorrect, InvParts, PTL
-----------------------------------------------------------------------------
(* What no step may do.                                                    *)

\* The effects leave the index in the list: they keep it, or take it there when
\* they end focus mode.
LEMMA IndexSettles ==
  ASSUME NEW w, Ready(w, active), Become(w), w.active \in DOMAIN w.spaces \/ w.mode # NotFocusing
  PROVE  active' \in DOMAIN spaces'
<1>1. PICK s : s = Settle(w, active)
  OBVIOUS
<1>2. active' = s.active /\ spaces' = s.spaces
  BY <1>1 DEF Become
<1>3. ASSUME NEW v, v.spaces \in Seq(SpaceRec), v.active \in DOMAIN v.spaces, s = Kept(v)
      PROVE  active' \in DOMAIN spaces'
  BY <1>2, <1>3, Cleaning, SpaceFacts DEF Kept
<1>4. w.spaces \in Seq(SpaceRec) /\ w.spaces # << >>
  BY Zenon DEF Ready
<1>5. CASE w.mode = NotFocusing \/ w.active = 1
  <2>1. w.active \in DOMAIN w.spaces
    BY <1>4, <1>5, SpaceFacts
  <2>2. s = Kept(w)
    BY <1>1, <1>5, Settling
  <2>3. QED
    BY <1>3, <1>4, <2>1, <2>2
<1>6. CASE w.mode # NotFocusing /\ w.active # 1
  <2> DEFINE v == LeaveFocusMode(Kept(w))
  <2>1. Ready(v, w.active) /\ \A i \in DOMAIN v.spaces : ~IsFocusSpace(v.spaces[i])
    BY <1>6, Leaving
  <2>2. s = Kept(v)
    BY <1>1, <1>6, Settling
  <2> HIDE DEF v
  <2>3. /\ v.spaces \in Seq(SpaceRec) /\ v.spaces # << >>
        /\ ~IsFocusSpace(v.spaces[1]) => v.active \in DOMAIN v.spaces
    BY <2>1, Zenon DEF Ready
  <2>4. v.active \in DOMAIN v.spaces
    BY <2>1, <2>3, SpaceFacts
  <2>5. QED
    BY <1>3, <2>2, <2>3, <2>4
<1>7. QED
  BY <1>5, <1>6

\* The visible space is one of the list, through every way that spaces come and
\* go, until the header counts a focus space twice: IndexStaysInList.
THEOREM IndexStays == Spec => IndexStaysInList
<1>1. ASSUME WMInv, Next, active \in DOMAIN spaces, ~HeaderCountsTwice
      PROVE  active' \in DOMAIN spaces'
  <2>1. PICK w, lost : Handles(w, lost)
    BY <1>1, EveryStep DEF Served
  <2>2. Ready(w, active) /\ Become(w) /\ (w.active \in DOMAIN w.spaces \/ w.mode # NotFocusing)
    BY <1>1, <2>1, Zenon DEF Handles, KeepsIndex
  <2>3. QED
    BY <2>2, IndexSettles
<1>2. QED
  BY <1>1, WMCorrect, PTL DEF Spec, IndexStaysInList

\* The next state, when focus mode is not ended by the effects.
LEMMA Settled ==
  ASSUME NEW w, Ready(w, active), Become(w), w.mode = NotFocusing \/ w.active = 1
  PROVE  /\ spaces' = Cleaned(w.spaces) /\ mode' = w.mode /\ w.spaces \in Seq(SpaceRec)
         /\ DOMAIN spaces' = 1 .. Len(w.spaces)
         /\ \A i \in 1 .. Len(w.spaces) : /\ spaces'[i].layout = w.spaces[i].layout
                                          /\ spaces'[i].name = w.spaces[i].name
         /\ spaces' \in Seq(SpaceRec) /\ 1 \in 1 .. Len(w.spaces)
<1>1. Settle(w, active) = Kept(w)
  BY Settling
<1>2. spaces' = Cleaned(w.spaces) /\ mode' = w.mode
  <2>1. spaces' = Settle(w, active).spaces /\ mode' = Settle(w, active).mode
    BY Zenon DEF Become
  <2>2. QED
    BY <1>1, <2>1 DEF Kept
<1>3. w.spaces \in Seq(SpaceRec) /\ w.spaces # << >>
  BY Zenon DEF Ready
<1>4. QED
  BY <1>2, <1>3, Cleaning, SpaceFacts

LEMMA OneKind ==
  ASSUME NEW sp \in Seq(SpaceRec), UniqueIn(sp), NEW x, NEW s, NEW t,
         SomeHas(sp, x, s), SomeHas(sp, x, t)
  PROVE  s = t
<1>1. PICK i \in 1 .. Len(sp) : Has(sp[i].layout, x, s) /\ x \in Panes(sp[i].layout)
  BY HasFacts
<1>2. PICK j \in 1 .. Len(sp) : Has(sp[j].layout, x, t) /\ x \in Panes(sp[j].layout)
  BY HasFacts
<1>3. i = j
  BY <1>1, <1>2, OnePlace
<1>4. Sound(sp[i].layout)
  BY Places
<1>5. QED
  BY <1>1, <1>2, <1>3, <1>4, OneType

LEMMA TilesHave ==
  ASSUME NEW sp, NEW t \in AllTiles(sp)
  PROVE  SomeHas(sp, t.id, t.type)
<1>1. PICK i \in DOMAIN sp : t \in ToSet(sp[i].layout)
  BY DEF AllTiles
<1>2. PICK k \in DOMAIN sp[i].layout : t = sp[i].layout[k]
  BY <1>1 DEF ToSet
<1>3. Has(sp[i].layout, t.id, t.type)
  BY <1>2 DEF Has
<1>4. QED
  BY <1>3 DEF SomeHas

\* A step outside focus mode, as the effects leave it.
LEMMA OrdinaryStep ==
  ASSUME WMInv, Next, Ordinary
  PROVE  /\ UniqueIn(spaces) => UniqueIn(spaces')
         /\ TypesFollow(spaces, spaces')
         /\ mode' = NotFocusing => FontsFollow(spaces, spaces')
         /\ Excused(SpacePanes(spaces) \ SpacePanes(spaces'))
<1>1. PICK w, lost : Handles(w, lost) /\ Excused(lost)
  BY EveryStep DEF Served
<1>2. /\ Ready(w, active) /\ Become(w) /\ (w.mode = NotFocusing \/ w.active = 1)
      /\ UniqueIn(w.spaces) /\ TypesFollow(spaces, w.spaces)
      /\ w.mode = NotFocusing => FontsFollow(spaces, w.spaces)
      /\ SpacePanes(spaces) \ SpacePanes(w.spaces) \subseteq lost
  BY <1>1, Zenon DEF Handles, Ordinary
<1>3. spaces' = Cleaned(w.spaces) /\ mode' = w.mode /\ w.spaces \in Seq(SpaceRec)
  BY <1>2, Settled
<1>4. UniqueIn(spaces')
  BY <1>2, <1>3, CleaningFollows
<1>5. TypesFollow(spaces, spaces')
  BY <1>2, <1>3, CleaningFollows
<1>6. mode' = NotFocusing => FontsFollow(spaces, spaces')
  BY <1>2, <1>3, CleaningFollows
<1>7. SpacePanes(spaces) \ SpacePanes(spaces') \subseteq lost
  BY <1>2, <1>3, CleaningFollows
<1>8. Excused(SpacePanes(spaces) \ SpacePanes(spaces'))
  BY <1>1, <1>7, Zenon DEF Excused
<1>9. QED
  BY <1>4, <1>5, <1>6, <1>8

\* Outside focus mode no event loses a tile but the close of that tile and the
\* deletion of its space, none shows a tile twice, and none changes the type
\* of a tile that has one: OrdinaryStepsKeepTiles.
THEOREM TilesAreKept == Spec => OrdinaryStepsKeepTiles
<1>1. ASSUME WMInv, Next, Ordinary, Unique
      PROVE  /\ \A p \in SpacePanes(spaces) \ SpacePanes(spaces') :
                  CloseTile(p)
                    \/ \E i \in DOMAIN spaces : p \in Panes(spaces[i].layout) /\ DeleteSpace(i)
             /\ Unique'
             /\ \A s \in AllTiles(spaces), t \in AllTiles(spaces') :
                  s.id = t.id /\ s.type \in Types => t.type = s.type
  <2>1. UniqueIn(spaces) /\ spaces \in Seq(SpaceRec)
    BY <1>1, StateUnique, Given
  <2>2. /\ UniqueIn(spaces') /\ TypesFollow(spaces, spaces')
        /\ Excused(SpacePanes(spaces) \ SpacePanes(spaces'))
    BY <1>1, <2>1, OrdinaryStep
  <2>3. Unique'
    BY <2>2 DEF Unique, UniqueIn
  <2>4. ASSUME NEW s \in AllTiles(spaces), NEW t \in AllTiles(spaces'),
               s.id = t.id, s.type \in Types
        PROVE  t.type = s.type
    <3>1. SomeHas(spaces, t.id, s.type) /\ SomeHas(spaces', t.id, t.type)
      BY <2>4, TilesHave
    <3>2. t.id \in SpacePanes(spaces)
      BY <2>1, <3>1, HasFacts
    <3>3. SomeHas(spaces, t.id, t.type) \/ SomeHas(spaces, t.id, "none")
      BY <2>2, <3>1, <3>2, Zenon DEF TypesFollow
    <3>4. s.type = t.type \/ s.type = "none"
      BY <2>1, <3>1, <3>3, OneKind, Zenon
    <3>5. QED
      BY <2>4, <3>4, TypesAssumption
  <2>5. QED
    BY <2>2, <2>3, <2>4, Zenon DEF Excused
<1>2. QED
  BY <1>1, WMCorrect, PTL DEF Spec, OrdinaryStepsKeepTiles

\* Outside focus mode a tile keeps its stored font wherever it is moved:
\* FontFollowsTile.
THEOREM FontsAreKept == Spec => FontFollowsTile
<1>1. ASSUME WMInv, Next, Ordinary, Ordinary'
      PROVE  \A p \in SpacePanes(spaces') : HasFont(spaces, p) => HasFont(spaces', p)
  BY <1>1, OrdinaryStep DEF FontsFollow, Ordinary
<1>2. QED
  BY <1>1, WMCorrect, PTL DEF Spec, FontFollowsTile

\* However focus mode ends, short of a close, a deletion or a reload, the space
\* it was entered from shows again what it showed then: FocusExitRestores.
THEOREM FocusModeRestores == Spec => FocusExitRestores
<1>1. ASSUME WMInv, Next, mode # NotFocusing, mode' = NotFocusing, mode.source \in DOMAIN spaces,
             ~CloseTile(mode.pane), ~\E ids \in SUBSET Untyped : Reload(ids),
             ~\E i \in DOMAIN spaces : DeleteSpace(i)
      PROVE  spaces'[mode.source - 1].layout = mode.snapshot /\ ~IsFocusSpace(spaces'[1])
  <2>1. PICK w, lost : Handles(w, lost) /\ Ends(w)
    BY <1>1, EveryStep DEF Served
  <2>2. Ready(w, active) /\ Become(w)
    BY <2>1, Zenon DEF Handles
  <2>3. CASE Stays(w)
    <3> DEFINE v == LeaveFocusMode(Kept(w))
               at == mode.source - 1
    <3>1. w.mode = mode /\ Len(w.spaces) >= Len(spaces)
      BY <2>3 DEF Stays
    <3>2. w.active # 1
      BY <1>1, <2>2, <3>1, Settled
    <3>3. /\ Ready(v, w.active) /\ Len(v.spaces) = Len(w.spaces) - 1
          /\ \A i \in DOMAIN v.spaces : ~IsFocusSpace(v.spaces[i])
          /\ at \in DOMAIN v.spaces => v.spaces[at].layout = mode.snapshot
      BY <1>1, <2>2, <3>1, <3>2, Leaving
    <3>4. Settle(w, active) = Kept(v)
      BY <1>1, <2>2, <3>1, <3>2, Settling
    <3> HIDE DEF v
    <3>5. spaces' = Cleaned(v.spaces)
      <4>1. spaces' = Settle(w, active).spaces
        BY <2>2, Zenon DEF Become
      <4>2. QED
        BY <3>4, <4>1 DEF Kept
    <3>6. v.spaces \in Seq(SpaceRec) /\ v.spaces # << >> /\ w.spaces \in Seq(SpaceRec)
      BY <2>2, <3>3, Zenon DEF Ready
    <3>7. /\ DOMAIN v.spaces = 1 .. Len(w.spaces) - 1 /\ 1 \in 1 .. Len(v.spaces)
          /\ Len(w.spaces) \in Nat
      BY <3>3, <3>6, SpaceFacts
    <3>8. at \in DOMAIN v.spaces
      <4>1. /\ mode.source > 1 /\ mode.source \in Nat /\ mode.source <= Len(spaces)
            /\ Len(spaces) \in Nat
        BY <1>1, Given DEF ModeRec
      <4>2. QED
        BY <3>1, <3>7, <4>1
    <3>9. /\ spaces'[at].layout = v.spaces[at].layout
          /\ spaces'[1].name = v.spaces[1].name
      BY <3>3, <3>5, <3>6, <3>7, <3>8, Cleaning
    <3>10. ~IsFocusSpace(v.spaces[1])
      BY <3>3, <3>7
    <3>11. QED
      BY <3>3, <3>8, <3>9, <3>10 DEF IsFocusSpace
  <2>4. CASE w.mode = NotFocusing /\ Restored(w)
    <3>1. /\ mode.source - 1 \in DOMAIN w.spaces
          /\ w.spaces[mode.source - 1].layout = mode.snapshot /\ ~IsFocusSpace(w.spaces[1])
      BY <1>1, <2>4 DEF Restored
    <3>2. /\ w.spaces \in Seq(SpaceRec) /\ 1 \in 1 .. Len(w.spaces)
          /\ \A i \in 1 .. Len(w.spaces) : /\ spaces'[i].layout = w.spaces[i].layout
                                           /\ spaces'[i].name = w.spaces[i].name
      BY <2>2, <2>4, Settled
    <3>3. mode.source - 1 \in 1 .. Len(w.spaces)
      BY <3>1, <3>2, SpaceFacts
    <3>4. QED
      BY <3>1, <3>2, <3>3 DEF IsFocusSpace
  <2>5. QED
    BY <1>1, <2>1, <2>3, <2>4, Zenon DEF Ends
<1>2. QED
  BY <1>1, WMCorrect, PTL DEF Spec, FocusExitRestores
-----------------------------------------------------------------------------
(* The rectangles of a split.                                              *)

Rect == [x : Int, y : Int, w : Int, h : Int]
Step(dir, half) == [dir |-> dir, half |-> half]
Inside(r, s) ==
  /\ s.x <= r.x /\ r.x + r.w <= s.x + s.w /\ 0 <= r.w
  /\ s.y <= r.y /\ r.y + r.h <= s.y + s.h /\ 0 <= r.h

\* What computeTiling does at one split: a rectangle that has room for the
\* gutter is shared by two that stay inside it, the second beginning just where
\* the gutter behind the first ends; nothing is lost to rounding.
THEOREM HalvesStayApart ==
  ASSUME NEW r \in Rect, Inside(r, r)
  PROVE  /\ r.w >= Gutter =>
              LET one == Half(r, Step("horizontal", 1))
                  two == Half(r, Step("horizontal", 2))
              IN  /\ one \in Rect /\ two \in Rect /\ Inside(one, r) /\ Inside(two, r)
                  /\ one.x = r.x /\ one.x + one.w + Gutter = two.x /\ two.x + two.w = r.x + r.w
         /\ r.h >= Gutter =>
              LET one == Half(r, Step("vertical", 1))
                  two == Half(r, Step("vertical", 2))
              IN  /\ one \in Rect /\ two \in Rect /\ Inside(one, r) /\ Inside(two, r)
                  /\ one.y = r.y /\ one.y + one.h + Gutter = two.y /\ two.y + two.h = r.y + r.h
<1>1. r.x \in Int /\ r.y \in Int /\ r.w \in Int /\ r.h \in Int /\ 0 <= r.w /\ 0 <= r.h
  BY DEF Rect, Inside
<1>2. ASSUME NEW span \in Int, span >= Gutter
      PROVE  LET share == (span - Gutter) \div 2
             IN  share \in Int /\ 0 <= share /\ 0 <= span - share - Gutter
  BY <1>2 DEF Gutter
<1>3. ASSUME r.w >= Gutter
      PROVE  LET one == Half(r, Step("horizontal", 1))
                 two == Half(r, Step("horizontal", 2))
             IN  /\ one \in Rect /\ two \in Rect /\ Inside(one, r) /\ Inside(two, r)
                 /\ one.x = r.x /\ one.x + one.w + Gutter = two.x /\ two.x + two.w = r.x + r.w
  <2> DEFINE share == (r.w - Gutter) \div 2
  <2>1. share \in Int /\ 0 <= share /\ 0 <= r.w - share - Gutter
    BY <1>1, <1>2, <1>3
  <2>2. Half(r, Step("horizontal", 1)) = [r EXCEPT !.w = share]
    BY DEF Half, Step
  <2>3. Half(r, Step("horizontal", 2)) =
          [r EXCEPT !.x = r.x + share + Gutter, !.w = r.w - share - Gutter]
    BY DEF Half, Step
  <2> DEFINE one == Half(r, Step("horizontal", 1))
             two == Half(r, Step("horizontal", 2))
  <2> HIDE DEF share, one, two
  <2>4. /\ one \in Rect /\ one.x = r.x /\ one.y = r.y /\ one.w = share /\ one.h = r.h
    BY <1>1, <2>1, <2>2 DEF Rect, one
  <2>5. /\ two \in Rect /\ two.x = r.x + share + Gutter /\ two.y = r.y
        /\ two.w = r.w - share - Gutter /\ two.h = r.h
    <3>1. PICK a \in Int, b \in Int : a = r.x + share + Gutter /\ b = r.w - share - Gutter
      BY <1>1, <2>1 DEF Gutter
    <3>2. PICK u : u = [r EXCEPT !.x = a]
      OBVIOUS
    <3>3. u \in Rect /\ u.x = a /\ u.y = r.y /\ u.h = r.h
      BY <3>2 DEF Rect
    <3>4. two = [u EXCEPT !.w = b]
      BY <2>3, <3>1, <3>2 DEF two
    <3>5. two \in Rect /\ two.x = a /\ two.y = r.y /\ two.w = b /\ two.h = r.h
      BY <3>3, <3>4 DEF Rect
    <3>6. QED
      BY <3>1, <3>5
  <2>6. Inside(one, r) /\ Inside(two, r)
    BY <1>1, <2>1, <2>4, <2>5 DEF Inside, Gutter
  <2>7. one.x + one.w + Gutter = two.x /\ two.x + two.w = r.x + r.w
    BY <1>1, <2>1, <2>4, <2>5 DEF Gutter
  <2>8. QED
    BY <2>4, <2>5, <2>6, <2>7 DEF one, two
<1>4. ASSUME r.h >= Gutter
      PROVE  LET one == Half(r, Step("vertical", 1))
                 two == Half(r, Step("vertical", 2))
             IN  /\ one \in Rect /\ two \in Rect /\ Inside(one, r) /\ Inside(two, r)
                 /\ one.y = r.y /\ one.y + one.h + Gutter = two.y /\ two.y + two.h = r.y + r.h
  <2> DEFINE share == (r.h - Gutter) \div 2
  <2>1. share \in Int /\ 0 <= share /\ 0 <= r.h - share - Gutter
    BY <1>1, <1>2, <1>4
  <2>2. Half(r, Step("vertical", 1)) = [r EXCEPT !.h = share]
    BY DEF Half, Step
  <2>3. Half(r, Step("vertical", 2)) =
          [r EXCEPT !.y = r.y + share + Gutter, !.h = r.h - share - Gutter]
    BY DEF Half, Step
  <2> DEFINE one == Half(r, Step("vertical", 1))
             two == Half(r, Step("vertical", 2))
  <2> HIDE DEF share, one, two
  <2>4. /\ one \in Rect /\ one.y = r.y /\ one.x = r.x /\ one.h = share /\ one.w = r.w
    BY <1>1, <2>1, <2>2 DEF Rect, one
  <2>5. /\ two \in Rect /\ two.y = r.y + share + Gutter /\ two.x = r.x
        /\ two.h = r.h - share - Gutter /\ two.w = r.w
    <3>1. PICK a \in Int, b \in Int : a = r.y + share + Gutter /\ b = r.h - share - Gutter
      BY <1>1, <2>1 DEF Gutter
    <3>2. PICK u : u = [r EXCEPT !.y = a]
      OBVIOUS
    <3>3. u \in Rect /\ u.y = a /\ u.x = r.x /\ u.w = r.w
      BY <3>2 DEF Rect
    <3>4. two = [u EXCEPT !.h = b]
      BY <2>3, <3>1, <3>2 DEF two
    <3>5. two \in Rect /\ two.y = a /\ two.x = r.x /\ two.h = b /\ two.w = r.w
      BY <3>3, <3>4 DEF Rect
    <3>6. QED
      BY <3>1, <3>5
  <2>6. Inside(one, r) /\ Inside(two, r)
    BY <1>1, <2>1, <2>4, <2>5 DEF Inside, Gutter
  <2>7. one.y + one.h + Gutter = two.y /\ two.y + two.h = r.y + r.h
    BY <1>1, <2>1, <2>4, <2>5 DEF Gutter
  <2>8. QED
    BY <2>4, <2>5, <2>6, <2>7 DEF one, two
<1>5. QED
  BY <1>3, <1>4

=============================================================================
