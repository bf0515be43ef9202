------------------------ MODULE ViewerEncoderProofs ------------------------
(***************************************************************************)
(* A viewer's updates, for every size of screen and tile, all pictures,    *)
(* lists of rectangles, formats and hashes, however rows collide.          *)
(*                                                                         *)
(* What a message makes of a picture is computed rectangle by rectangle    *)
(* (After), so a fact about it is one about the picture after each of them *)
(* (Upto, UptoIs), by induction on their number.  If copies take what is   *)
(* wanted from where nothing was drawn before (Fresh), every rectangle ends*)
(* up with what is wanted in it (AllDrawn).  The copies of a strip are of  *)
(* that kind, because those of two groups of strips have no column in      *)
(* common (CopyRects); the writes cover what still differs (SpansCover).   *)
(*                                                                         *)
(* With that an update keeps what the encoder knows (Follows): the shadow  *)
(* is what the copies made of it, and each pixel that was asked for is     *)
(* right in it or about to be written.  The invariant (EncoderInv) says    *)
(* that the viewer shows what the shadow has, or nothing yet, and that the *)
(* shadow has every pixel that was asked for since it changed.  A valid    *)
(* shadow is what the viewer shows, unless rectangles whose areas add up to*)
(* the picture without being the picture made it valid (skipped).          *)
(***************************************************************************)
EXTENDS ViewerEncoder, FiniteSetTheorems, SequenceTheorems, WellFoundedInduction, TLAPS

-----------------------------------------------------------------------------
(* Counting and recursion.                                                 *)

\* A set of naturals has a least element.
LEMMA LeastOf ==
  ASSUME NEW S \in SUBSET Nat, S # {}
  PROVE  \E m \in S : \A n \in S : m <= n
<1>1. \E m \in S : \A n \in S : ~(<<n, m>> \in OpToRel(<, Nat))
  BY NatLessThanWellFounded, WFMin
<1>2. PICK m \in S : \A n \in S : ~(<<n, m>> \in OpToRel(<, Nat))
  BY <1>1
<1>3. \A n \in S : ~(n < m)
  BY <1>2 DEF OpToRel
<1> QED
  BY <1>3

\* Induction, for a property given as the set of numbers that have it.
LEMMA Inductive ==
  ASSUME NEW S, 0 \in S, \A n \in Nat : n \in S => n + 1 \in S
  PROVE  Nat \subseteq S
<1> DEFINE rest == Nat \ S
<1> SUFFICES ASSUME rest # {}
             PROVE  FALSE
  OBVIOUS
<1>1. PICK m \in rest : \A n \in rest : m <= n
  BY LeastOf
<1>2. m - 1 \in Nat /\ m - 1 \notin rest
  BY <1>1
<1> QED
  BY <1>1, <1>2

\* f is computed in n steps, from a, step k by G.
Computed(f, X, a, G, n) ==
  /\ f \in [0 .. n -> X]
  /\ f[0] = a /\ \A k \in 1 .. n : f[k] = G[<<k, f[k - 1]>>]

\* There is such a computation.
LEMMA StepByStep ==
  ASSUME NEW X, NEW a \in X, NEW G \in [Nat \X X -> X], NEW N \in Nat
  PROVE  \E f : Computed(f, X, a, G, N)
<1> DEFINE Steps(f, n) == f[0] = a /\ \A k \in 1 .. n : f[k] = G[<<k, f[k - 1]>>]
           S == {n \in Nat : \E f \in [0 .. n -> X] : Steps(f, n)}
<1>1. 0 \in S
  <2>1. Steps([k \in 0 .. 0 |-> a], 0)
    OBVIOUS
  <2> QED
    BY <2>1
<1>2. ASSUME NEW n \in Nat, n \in S
      PROVE  n + 1 \in S
  <2>1. PICK f \in [0 .. n -> X] : Steps(f, n)
    BY <1>2
  <2> DEFINE b == G[<<n + 1, f[n]>>]
             g == [k \in 0 .. n + 1 |-> IF k = n + 1 THEN b ELSE f[k]]
  <2>2. b \in X
    OBVIOUS
  <2>3. g \in [0 .. n + 1 -> X]
    BY <2>2
  <2>4. g[0] = a
    BY <2>1
  <2>5. ASSUME NEW k \in 1 .. n + 1
        PROVE  g[k] = G[<<k, g[k - 1]>>]
    <3>1. k - 1 \in 0 .. n /\ g[k - 1] = f[k - 1]
      OBVIOUS
    <3>2. CASE k = n + 1
      <4>1. g[k] = b /\ k - 1 = n
        BY <3>2
      <4> QED
        BY <3>1, <3>2, <4>1
    <3>3. CASE k \in 1 .. n
      BY <2>1, <3>1, <3>3
    <3> QED
      BY <3>2, <3>3
  <2>6. Steps(g, n + 1)
    BY <2>4, <2>5
  <2> HIDE DEF g
  <2> QED
    BY <2>3, <2>6
<1>3. N \in S
  BY <1>1, <1>2, Inductive
<1> QED
  BY <1>3 DEF Computed

\* The list of a finite set.
LEMMA Listed ==
  ASSUME NEW S, IsFiniteSet(S)
  PROVE  /\ SetToSeq(S) \in Seq(S)
         /\ \A x \in S : \E i \in DOMAIN SetToSeq(S) : SetToSeq(S)[i] = x
         /\ \A i, j \in DOMAIN SetToSeq(S) : i # j => SetToSeq(S)[i] # SetToSeq(S)[j]
         /\ S = {} => SetToSeq(S) = <<>>
<1> DEFINE n == Cardinality(S)
           q == SetToSeq(S)
<1>1. n \in Nat
  BY FS_CardinalityType
<1>2. PICK b \in [1 .. n -> S] : b \in Bijection(1 .. n, S)
  BY FS_CardinalityType DEF ExistsBijection, Bijection, Injection
<1>3. q \in [1 .. n -> S] /\ IsInjective(q)
  <2>1. b \in [1 .. n -> S] /\ IsInjective(b)
    BY <1>2 DEF Bijection, Injection, IsInjective
  <2> QED
    BY <2>1 DEF SetToSeq
<1>4. q \in Injection(1 .. n, S)
  BY <1>3 DEF Injection, IsInjective
<1> HIDE DEF q
<1>5. q \in Seq(S) /\ DOMAIN q = 1 .. n /\ Len(q) = n
  BY <1>1, <1>3
<1>6. \A i, j \in 1 .. n : i # j => q[i] # q[j]
  BY <1>3 DEF IsInjective
<1>7. \A x \in S : \E i \in 1 .. n : q[i] = x
  <2>1. IsFiniteSet(1 .. n) /\ Cardinality(1 .. n) = n
    BY <1>1, FS_Interval
  <2>2. q \in Surjection(1 .. n, S)
    BY <1>4, <2>1, FS_Injection
  <2> QED
    BY <2>2 DEF Surjection
<1>8. S = {} => q = <<>>
  <2> SUFFICES ASSUME S = {}
               PROVE  q = <<>>
    OBVIOUS
  <2>1. n = 0
    BY FS_EmptySet
  <2> QED
    BY <1>5, <2>1, EmptySeq
<1> QED
  BY <1>5, <1>6, <1>7, <1>8 DEF q

\* Numbers side by side.
LEMMA Neighbours ==
  ASSUME NEW n \in Nat, NEW S \in SUBSET (0 .. n - 1), NEW t \in S
  PROVE  \E a \in 0 .. n - 1, b \in 1 .. n :
           /\ a <= t /\ t < b /\ a .. b - 1 \subseteq S /\ a - 1 \notin S /\ b \notin S
<1> DEFINE A == {a \in Nat : a <= t /\ a .. t \subseteq S}
           B == {b \in Nat : t < b /\ b \notin S}
<1>1. t \in Nat /\ t <= n - 1 /\ A \in SUBSET Nat /\ B \in SUBSET Nat
  OBVIOUS
<1>2. t \in A
  BY <1>1
<1>3. n \in B
  BY <1>1
<1>4. PICK a \in A : \A x \in A : a <= x
  <2> HIDE DEF A
  <2> QED
    BY <1>1, <1>2, LeastOf
<1>5. PICK b \in B : \A x \in B : b <= x
  <2> HIDE DEF B
  <2> QED
    BY <1>1, <1>3, LeastOf
<1>6. a - 1 \notin S
  <2> SUFFICES ASSUME a - 1 \in S
               PROVE  FALSE
    OBVIOUS
  <2>1. a - 1 \in Nat
    OBVIOUS
  <2>2. a - 1 <= t /\ a - 1 .. t \subseteq S
    BY <1>4, <2>1
  <2>3. a - 1 \in A
    BY <2>1, <2>2
  <2> QED
    BY <1>4, <2>3
<1>7. \A x \in a .. b - 1 : x \in S
  <2> SUFFICES ASSUME NEW x \in a .. b - 1, x \notin S
               PROVE  FALSE
    OBVIOUS
  <2>1. x \in Nat /\ t < x
    BY <1>4
  <2>2. x \in B
    BY <2>1
  <2> QED
    BY <1>5, <2>2
<1>8. a \in 0 .. n - 1 /\ b \in 1 .. n
  BY <1>1, <1>3, <1>4, <1>5
<1> QED
  BY <1>4, <1>5, <1>6, <1>7, <1>8

-----------------------------------------------------------------------------
(* Tiles.                                                                  *)

\* The side of a tile and the limits are positive.
LEMMA SideType == TileSide \in Nat \ {0} /\ MinRows \in Nat \ {0} /\ MinVotes \in Nat \ {0}
BY EncoderAssumption

\* The tile a distance is in.
LEMMA InTile ==
  ASSUME NEW d \in Nat
  PROVE  /\ d \div TileSide \in Nat
         /\ (d \div TileSide) * TileSide \in Nat
         /\ (d \div TileSide) * TileSide <= d
         /\ d < (d \div TileSide) * TileSide + TileSide
<1> DEFINE q == d \div TileSide
<1>1. TileSide \in Nat /\ TileSide > 0
  BY SideType
<1>2. q \in Int /\ TileSide * q <= d /\ d < TileSide * (q + 1)
  BY <1>1
<1> HIDE DEF q
<1>3. q >= 0
  <2> SUFFICES ASSUME q + 1 <= 0
               PROVE  FALSE
    BY <1>2
  <2>1. TileSide * (q + 1) <= TileSide * 0
    BY <1>1, <1>2
  <2> QED
    BY <1>1, <1>2, <2>1
<1>4. TileSide * q = q * TileSide /\ TileSide * (q + 1) = q * TileSide + TileSide
  BY <1>1, <1>2
<1>5. q * TileSide \in Int
  BY <1>1, <1>2
<1>6. q * TileSide >= 0
  BY <1>1, <1>2, <1>3
<1> QED
  BY <1>2, <1>3, <1>4, <1>5, <1>6 DEF q

\* Multiples of the side are ordered as their factors.
LEMMA TimesUp ==
  ASSUME NEW a \in Int, NEW b \in Int, a <= b
  PROVE  /\ a * TileSide \in Int /\ b * TileSide \in Int
         /\ a * TileSide <= b * TileSide
         /\ (a + 1) * TileSide = a * TileSide + TileSide
         /\ (a - 1) * TileSide = a * TileSide - TileSide
<1>1. TileSide \in Nat
  BY SideType
<1> QED
  BY <1>1

\* As many tiles as it takes: the last one begins within the length.
LEMMA TilesOf ==
  ASSUME NEW w \in Nat \ {0}
  PROVE  LET n == (w + TileSide - 1) \div TileSide
         IN  /\ n \in Nat \ {0} /\ w <= n * TileSide
             /\ \A k \in Nat : k < n => k * TileSide < w
             /\ \A d \in 0 .. w - 1 : d \div TileSide \in 0 .. n - 1
<1> DEFINE n == (w + TileSide - 1) \div TileSide
           N == n * TileSide
<1>1. TileSide \in Nat /\ TileSide > 0 /\ w + TileSide - 1 \in Nat
  BY SideType
<1>2. n \in Nat /\ N \in Nat /\ N <= w + TileSide - 1 /\ w + TileSide - 1 < N + TileSide
  BY <1>1, InTile
<1> HIDE DEF n
<1>3. n # 0
  BY <1>1, <1>2
<1>4. ASSUME NEW k \in Nat, k < n
      PROVE  k * TileSide < w
  <2>1. k + 1 \in Int /\ n \in Int /\ k + 1 <= n
    BY <1>2, <1>4
  <2>2. (k + 1) * TileSide <= N
    BY <2>1, TimesUp
  <2>3. (k + 1) * TileSide = k * TileSide + TileSide /\ k * TileSide \in Int
    BY <2>1, TimesUp
  <2> QED
    BY <1>1, <1>2, <2>2, <2>3
<1>5. ASSUME NEW d \in 0 .. w - 1
      PROVE  d \div TileSide \in 0 .. n - 1
  <2> DEFINE q == d \div TileSide
  <2>1. q \in Nat /\ q * TileSide <= d /\ q * TileSide \in Nat
    BY InTile
  <2> HIDE DEF q
  <2> SUFFICES ASSUME n <= q
               PROVE  FALSE
    BY <1>2, <2>1 DEF q
  <2>2. N <= q * TileSide
    BY <1>2, <2>1, TimesUp
  <2> QED
    BY <1>1, <1>2, <2>1, <2>2
<1> QED
  BY <1>1, <1>2, <1>3, <1>4, <1>5 DEF n

-----------------------------------------------------------------------------
(* What a message makes of a picture.                                      *)

Rectangle ==
  [kind : {"copy", "write"}, x : Int, y : Int, w : Int, h : Int, src : Int]

\* Where a copy takes a pixel from.
Source(m, c) == <<c[1], c[2] - m.y + m.src>>

\* Nothing is drawn or read outside the picture.
Inside(m, D) ==
  /\ CellsOf(m) \subseteq D
  /\ m.kind = "copy" => \A c \in CellsOf(m) : Source(m, c) \in D
AllInside(list, D) == \A i \in DOMAIN list : Inside(list[i], D)
Message(list, D) == list \in Seq(Rectangle) /\ AllInside(list, D)

\* A picture to draw on, and what to draw.
Canvas(D, V, p, pixels) == p \in [D -> V] /\ \A c \in D : pixels[c] \in V

Draw(p, m, pixels) ==
  IF m.kind = "copy" THEN apply_copy(p, m) ELSE Drawn(p, m, pixels)

\* What is in the picture after one rectangle.
LEMMA DrawIs ==
  ASSUME NEW D, NEW V, NEW p, NEW pixels, Canvas(D, V, p, pixels),
         NEW m \in Rectangle, Inside(m, D)
  PROVE  /\ Draw(p, m, pixels) \in [D -> V]
         /\ \A c \in D : Draw(p, m, pixels)[c] =
              IF c \in CellsOf(m)
              THEN IF m.kind = "copy" THEN p[Source(m, c)] ELSE pixels[c]
              ELSE p[c]
<1> DEFINE cells == CellsOf(m)
<1> USE DEF Canvas
<1>1. CASE m.kind = "copy"
  <2>1. Draw(p, m, pixels) = [c \in D |-> IF c \in cells THEN p[Source(m, c)] ELSE p[c]]
    BY <1>1 DEF Draw, apply_copy, Source
  <2>2. \A c \in D : (IF c \in cells THEN p[Source(m, c)] ELSE p[c]) \in V
    BY <1>1 DEF Inside
  <2> HIDE DEF cells
  <2>3. \A c \in D : Draw(p, m, pixels)[c] = IF c \in cells THEN p[Source(m, c)] ELSE p[c]
    BY <2>1
  <2>4. Draw(p, m, pixels) \in [D -> V]
    BY <2>1, <2>2
  <2> QED
    BY <1>1, <2>3, <2>4 DEF cells
<1>2. CASE m.kind # "copy"
  <2>1. Draw(p, m, pixels) = [c \in D |-> IF c \in cells THEN pixels[c] ELSE p[c]]
    BY <1>2 DEF Draw, Drawn
  <2> HIDE DEF cells
  <2>2. \A c \in D : Draw(p, m, pixels)[c] = IF c \in cells THEN pixels[c] ELSE p[c]
    BY <2>1
  <2>3. Draw(p, m, pixels) \in [D -> V]
    BY <2>1
  <2> QED
    BY <1>2, <2>2, <2>3 DEF cells
<1> QED
  BY <1>1, <1>2

\* ps[i] is the picture after i rectangles.
Pictures(ps, D, V, p, list, pixels) ==
  /\ ps \in [0 .. Len(list) -> [D -> V]]
  /\ ps[0] = p /\ \A i \in 1 .. Len(list) : ps[i] = Draw(ps[i - 1], list[i], pixels)

\* After is the last of the pictures.
LEMMA AfterIs ==
  ASSUME NEW D, NEW V, NEW p, NEW pixels, Canvas(D, V, p, pixels),
         NEW list, Message(list, D)
  PROVE  \E ps : /\ Pictures(ps, D, V, p, list, pixels)
                 /\ After(p, list, pixels) = ps[Len(list)]
<1> DEFINE n == Len(list)
           X == [D -> V]
           G == [a \in Nat \X X |->
                   IF a[1] \in 1 .. n THEN Draw(a[2], list[a[1]], pixels) ELSE a[2]]
           Next1(q, i) == IF i = 0 THEN p
                          ELSE IF list[i].kind = "copy" THEN apply_copy(q[i - 1], list[i])
                          ELSE Drawn(q[i - 1], list[i], pixels)
           after == CHOOSE q : q = [i \in 0 .. n |-> Next1(q, i)]
<1>1. n \in Nat /\ DOMAIN list = 1 .. n /\ \A i \in 1 .. n : list[i] \in Rectangle
  BY DEF Message
<1>2. G \in [Nat \X X -> X]
  <2>1. ASSUME NEW a \in Nat \X X
        PROVE  (IF a[1] \in 1 .. n THEN Draw(a[2], list[a[1]], pixels) ELSE a[2]) \in X
    <3>1. CASE a[1] \in 1 .. n
      <4>1. /\ list[a[1]] \in Rectangle /\ Inside(list[a[1]], D)
            /\ Canvas(D, V, a[2], pixels)
        BY <1>1, <3>1 DEF AllInside, Message, Canvas
      <4> QED
        BY <3>1, <4>1, DrawIs
    <3> QED
      BY <3>1
  <2> HIDE DEF X, n
  <2> QED
    BY <2>1
<1>3. PICK g : Computed(g, X, p, G, n)
  <2> HIDE DEF G, n, X
  <2>1. p \in X
    BY DEF X, Canvas
  <2> QED
    BY <1>1, <1>2, <2>1, StepByStep
<1>4. /\ g \in [0 .. n -> X] /\ g[0] = p
      /\ \A i \in 1 .. n : g[i] = G[<<i, g[i - 1]>>]
  BY <1>3 DEF Computed
<1>5. ASSUME NEW i \in 1 .. n
      PROVE  g[i] = Draw(g[i - 1], list[i], pixels)
  <2>1. i \in Nat /\ i - 1 \in 0 .. n /\ g[i - 1] \in X
    BY <1>1, <1>4
  <2>2. G[<<i, g[i - 1]>>] = Draw(g[i - 1], list[i], pixels)
    <3> HIDE DEF X, n
    <3> QED
      BY <2>1
  <2> QED
    BY <1>4, <2>2
<1>6. \A q, i : i # 0 => Next1(q, i) = Draw(q[i - 1], list[i], pixels)
  BY DEF Draw
<1>7. \A q, i : i = 0 => Next1(q, i) = p
  OBVIOUS
<1> HIDE DEF Next1
<1>8. g = [i \in 0 .. n |-> Next1(g, i)]
  <2>1. ASSUME NEW i \in 0 .. n
        PROVE  g[i] = Next1(g, i)
    <3>1. i = 0 \/ i \in 1 .. n
      BY <1>1
    <3> QED
      BY <1>4, <1>5, <1>6, <1>7, <3>1
  <2>2. g = [i \in 0 .. n |-> g[i]]
    BY <1>4
  <2> HIDE DEF n
  <2> QED
    BY <2>1, <2>2
<1>9. after = [i \in 0 .. n |-> Next1(after, i)]
  <2> HIDE DEF n
  <2> QED
    BY <1>8
<1>10. After(p, list, pixels) = after[n]
  BY DEF After, Next1
<1> HIDE DEF after
<1>11. after[0] = p /\ \A i \in 1 .. n : after[i] = Draw(after[i - 1], list[i], pixels)
  <2>1. 0 \in 0 .. n /\ \A i \in 1 .. n : i \in 0 .. n /\ i # 0
    BY <1>1
  <2> HIDE DEF n
  <2> QED
    BY <1>6, <1>7, <1>9, <2>1
<1> DEFINE S == {k \in Nat : k \in 0 .. n => after[k] = g[k]}
<1>12. 0 \in S
  BY <1>4, <1>11
<1>13. ASSUME NEW k \in Nat, k \in S
       PROVE  k + 1 \in S
  <2>1. CASE k + 1 \in 0 .. n
    <3>1. k + 1 \in 1 .. n /\ k \in 0 .. n /\ (k + 1) - 1 = k
      BY <1>1, <2>1
    <3>2. after[k] = g[k]
      BY <1>13, <3>1
    <3>3. after[k + 1] = Draw(after[k], list[k + 1], pixels)
          /\ g[k + 1] = Draw(g[k], list[k + 1], pixels)
      BY <1>5, <1>11, <3>1
    <3> QED
      BY <3>2, <3>3
  <2>2. CASE k + 1 \notin 0 .. n
    BY <2>2
  <2> QED
    BY <2>1, <2>2
<1>14. n \in S
  <2> HIDE DEF S
  <2> QED
    BY <1>1, <1>12, <1>13, Inductive
<1>15. after[n] = g[n]
  BY <1>1, <1>14
<1>16. Pictures(g, D, V, p, list, pixels)
  BY <1>4, <1>5 DEF Pictures
<1> QED
  BY <1>10, <1>15, <1>16

\* The picture after the first i rectangles.
Upto(p, list, pixels, i) == After(p, SubSeq(list, 1, i), pixels)

\* The first rectangles of a list.
LEMMA FirstOnes ==
  ASSUME NEW T, NEW list \in Seq(T), NEW i \in 0 .. Len(list)
  PROVE  /\ SubSeq(list, 1, i) \in Seq(T) /\ Len(SubSeq(list, 1, i)) = i
         /\ DOMAIN SubSeq(list, 1, i) = 1 .. i
         /\ \A k \in 1 .. i : SubSeq(list, 1, i)[k] = list[k]
         /\ i = Len(list) => SubSeq(list, 1, i) = list
<1>1. Len(list) \in Nat /\ i \in Nat /\ DOMAIN list = 1 .. Len(list) /\ i <= Len(list)
      /\ list = [k \in 1 .. Len(list) |-> list[k]]
  OBVIOUS
<1> DEFINE sub == SubSeq(list, 1, i)
<1>2. /\ sub \in Seq(T) /\ Len(sub) = i /\ DOMAIN sub = 1 .. i
      /\ \A k \in 1 .. i : sub[k] = list[k]
  <2>1. \A k \in 1 .. i : list[k] \in T
    BY <1>1
  <2>2. sub = [k \in 1 .. i |-> list[k]]
    BY <1>1
  <2> HIDE DEF sub
  <2> QED
    BY <1>1, <2>1, <2>2
<1>3. i = Len(list) => sub = list
  <2> SUFFICES ASSUME i = Len(list)
               PROVE  sub = list
    OBVIOUS
  <2>1. sub = [k \in 1 .. i |-> sub[k]]
    BY <1>2
  <2> HIDE DEF sub
  <2> QED
    BY <1>1, <1>2, <2>1
<1> QED
  BY <1>2, <1>3

\* Each picture comes of the one before.
LEMMA UptoIs ==
  ASSUME NEW D, NEW V, NEW p, NEW pixels, Canvas(D, V, p, pixels),
         NEW list, Message(list, D)
  PROVE  /\ \A i \in 0 .. Len(list) : Upto(p, list, pixels, i) \in [D -> V]
         /\ Upto(p, list, pixels, 0) = p
         /\ \A i \in 1 .. Len(list) :
              Upto(p, list, pixels, i) = Draw(Upto(p, list, pixels, i - 1), list[i], pixels)
         /\ Upto(p, list, pixels, Len(list)) = After(p, list, pixels)
<1> DEFINE n == Len(list)
<1>1. n \in Nat /\ DOMAIN list = 1 .. n /\ list \in Seq(Rectangle)
  BY DEF Message
<1>2. PICK ps : /\ Pictures(ps, D, V, p, list, pixels)
                /\ After(p, list, pixels) = ps[n]
  BY AfterIs
<1>3. /\ ps \in [0 .. n -> [D -> V]] /\ ps[0] = p
      /\ \A i \in 1 .. n : ps[i] = Draw(ps[i - 1], list[i], pixels)
  BY <1>2 DEF Pictures
<1>4. ASSUME NEW j \in 0 .. n
      PROVE  Upto(p, list, pixels, j) = ps[j]
  <2> DEFINE sub == SubSeq(list, 1, j)
  <2>1. /\ sub \in Seq(Rectangle) /\ Len(sub) = j /\ DOMAIN sub = 1 .. j
        /\ \A k \in 1 .. j : sub[k] = list[k] /\ k \in DOMAIN list
    BY <1>1, FirstOnes
  <2> HIDE DEF sub
  <2>2. Message(sub, D)
    BY <2>1 DEF AllInside, Message
  <2>3. PICK qs : Pictures(qs, D, V, p, sub, pixels) /\ After(p, sub, pixels) = qs[j]
    BY <2>1, <2>2, AfterIs
  <2>4. /\ qs[0] = p
        /\ \A i \in 1 .. j : qs[i] = Draw(qs[i - 1], list[i], pixels)
    BY <2>1, <2>3 DEF Pictures
  <2> DEFINE S == {k \in Nat : k \in 0 .. j => qs[k] = ps[k]}
  <2>5. 0 \in S
    BY <1>3, <2>4
  <2>6. ASSUME NEW k \in Nat, k \in S
        PROVE  k + 1 \in S
    <3>1. CASE k + 1 \in 0 .. j
      <4>1. k + 1 \in 1 .. j /\ k + 1 \in 1 .. n /\ k \in 0 .. j /\ (k + 1) - 1 = k
        BY <1>1, <3>1
      <4>2. qs[k] = ps[k]
        BY <2>6, <4>1
      <4>3. /\ qs[k + 1] = Draw(qs[k], list[k + 1], pixels)
            /\ ps[k + 1] = Draw(ps[k], list[k + 1], pixels)
        BY <1>3, <2>4, <4>1
      <4> QED
        BY <4>2, <4>3
    <3>2. CASE k + 1 \notin 0 .. j
      BY <3>2
    <3> QED
      BY <3>1, <3>2
  <2>7. j \in S
    <3> HIDE DEF S
    <3>1. j \in Nat
      BY <1>1
    <3> QED
      BY <2>5, <2>6, <3>1, Inductive
  <2>8. qs[j] = ps[j]
    BY <2>7
  <2> QED
    BY <2>3, <2>8 DEF Upto, sub
<1>5. Upto(p, list, pixels, n) = After(p, list, pixels)
  BY <1>1, <1>2, <1>4
<1>6. ASSUME NEW i \in 1 .. n
      PROVE  Upto(p, list, pixels, i) = Draw(Upto(p, list, pixels, i - 1), list[i], pixels)
  <2>1. i \in 0 .. n /\ i - 1 \in 0 .. n
    BY <1>1
  <2> QED
    BY <1>3, <1>4, <2>1
<1>7. Upto(p, list, pixels, 0) = p
  <2>1. 0 \in 0 .. n
    BY <1>1
  <2> QED
    BY <1>3, <1>4, <2>1
<1> QED
  BY <1>3, <1>4, <1>5, <1>6, <1>7

\* A message keeps the size of the picture.
LEMMA AfterType ==
  ASSUME NEW D, NEW V, NEW p, NEW pixels, Canvas(D, V, p, pixels),
         NEW list, Message(list, D)
  PROVE  After(p, list, pixels) \in [D -> V]
<1>1. Len(list) \in 0 .. Len(list)
  BY DEF Message
<1> QED
  BY <1>1, UptoIs

\* An empty message changes nothing.
LEMMA AfterNothing ==
  ASSUME NEW D, NEW V, NEW p, NEW pixels, Canvas(D, V, p, pixels)
  PROVE  After(p, <<>>, pixels) = p
<1>1. Message(<<>>, D) /\ Len(<<>>) = 0
  BY DEF AllInside, Message
<1> QED
  BY <1>1, UptoIs

\* One message, then another.
LEMMA AfterBoth ==
  ASSUME NEW D, NEW V, NEW p, NEW pixels, Canvas(D, V, p, pixels),
         NEW a, Message(a, D), NEW b, Message(b, D)
  PROVE  /\ Message(a \o b, D)
         /\ \A i \in 0 .. Len(a) : Upto(p, a \o b, pixels, i) = Upto(p, a, pixels, i)
         /\ \A i \in 0 .. Len(b) :
              Upto(p, a \o b, pixels, Len(a) + i) = Upto(After(p, a, pixels), b, pixels, i)
         /\ After(p, a \o b, pixels) = After(After(p, a, pixels), b, pixels)
<1> DEFINE ab == a \o b
           q == After(p, a, pixels)
           m == Len(a)
           n == Len(b)
<1>1. /\ m \in Nat /\ n \in Nat /\ DOMAIN a = 1 .. m /\ DOMAIN b = 1 .. n
      /\ a \in Seq(Rectangle) /\ b \in Seq(Rectangle)
  BY DEF Message
<1>2. /\ ab \in Seq(Rectangle) /\ Len(ab) = m + n /\ DOMAIN ab = 1 .. m + n
      /\ \A i \in 1 .. m : ab[i] = a[i]
      /\ \A i \in 1 .. n : ab[m + i] = b[i]
  <2>1. /\ ab \in Seq(Rectangle) /\ Len(ab) = m + n
        /\ \A i \in 1 .. m + n : ab[i] = IF i <= m THEN a[i] ELSE b[i - m]
    BY <1>1, ConcatProperties
  <2> HIDE DEF ab
  <2>2. DOMAIN ab = 1 .. m + n
    BY <2>1
  <2>3. \A i \in 1 .. m : i \in 1 .. m + n /\ i <= m
    BY <1>1
  <2>4. \A i \in 1 .. n : m + i \in 1 .. m + n /\ ~(m + i <= m) /\ (m + i) - m = i
    BY <1>1
  <2> QED
    BY <2>1, <2>2, <2>3, <2>4
<1> HIDE DEF ab
<1>3. Message(ab, D)
  <2>1. \A i \in DOMAIN ab : i \in 1 .. m \/ (i - m \in 1 .. n /\ i = m + (i - m))
    BY <1>1, <1>2
  <2> QED
    BY <1>1, <1>2, <2>1 DEF AllInside, Message
<1>4. /\ \A i \in 1 .. m + n :
           Upto(p, ab, pixels, i) = Draw(Upto(p, ab, pixels, i - 1), ab[i], pixels)
      /\ Upto(p, ab, pixels, 0) = p /\ Upto(p, ab, pixels, m + n) = After(p, ab, pixels)
  <2>1. /\ \A i \in 1 .. Len(ab) :
             Upto(p, ab, pixels, i) = Draw(Upto(p, ab, pixels, i - 1), ab[i], pixels)
        /\ Upto(p, ab, pixels, 0) = p /\ Upto(p, ab, pixels, Len(ab)) = After(p, ab, pixels)
    BY <1>3, UptoIs
  <2> QED
    BY <1>2, <2>1
<1>5. /\ \A i \in 1 .. m : Upto(p, a, pixels, i) = Draw(Upto(p, a, pixels, i - 1), a[i], pixels)
      /\ Upto(p, a, pixels, 0) = p /\ Upto(p, a, pixels, m) = q /\ Canvas(D, V, q, pixels)
  <2>1. q \in [D -> V]
    BY AfterType
  <2>2. Canvas(D, V, q, pixels)
    BY <2>1 DEF Canvas
  <2> QED
    BY <2>2, UptoIs
<1> HIDE DEF q
<1>6. /\ \A i \in 1 .. n : Upto(q, b, pixels, i) = Draw(Upto(q, b, pixels, i - 1), b[i], pixels)
      /\ Upto(q, b, pixels, 0) = q /\ Upto(q, b, pixels, n) = After(q, b, pixels)
  BY <1>5, UptoIs
<1> DEFINE S == {k \in Nat : k \in 0 .. m => Upto(p, ab, pixels, k) = Upto(p, a, pixels, k)}
           R == {k \in Nat : k \in 0 .. n =>
                               Upto(p, ab, pixels, m + k) = Upto(q, b, pixels, k)}
<1>7. Nat \subseteq S
  <2>1. 0 \in S
    BY <1>4, <1>5
  <2>2. ASSUME NEW k \in Nat, k \in S
        PROVE  k + 1 \in S
    <3>1. CASE k + 1 \in 0 .. m
      <4>1. /\ k + 1 \in 1 .. m /\ k + 1 \in 1 .. m + n /\ k \in 0 .. m /\ (k + 1) - 1 = k
        BY <1>1, <3>1
      <4>2. Upto(p, ab, pixels, k) = Upto(p, a, pixels, k)
        BY <2>2, <4>1
      <4>3. Upto(p, ab, pixels, k + 1) = Draw(Upto(p, ab, pixels, k), ab[k + 1], pixels)
        BY <1>4, <4>1
      <4>4. Upto(p, a, pixels, k + 1) = Draw(Upto(p, a, pixels, k), a[k + 1], pixels)
        BY <1>5, <4>1
      <4>5. ab[k + 1] = a[k + 1]
        BY <1>2, <4>1
      <4> QED
        BY <4>2, <4>3, <4>4, <4>5
    <3>2. CASE k + 1 \notin 0 .. m
      BY <3>2
    <3> QED
      BY <3>1, <3>2
  <2> HIDE DEF S
  <2> QED
    BY <2>1, <2>2, Inductive
<1>8. \A i \in 0 .. m : Upto(p, ab, pixels, i) = Upto(p, a, pixels, i)
  BY <1>1, <1>7
<1>9. Upto(p, ab, pixels, m) = q
  <2>1. m \in 0 .. m
    BY <1>1
  <2> QED
    BY <1>5, <1>8, <2>1
<1>10. Nat \subseteq R
  <2>1. 0 \in R
    <3>1. m + 0 = m
      BY <1>1
    <3> QED
      BY <1>6, <1>9, <3>1
  <2>2. ASSUME NEW k \in Nat, k \in R
        PROVE  k + 1 \in R
    <3>1. CASE k + 1 \in 0 .. n
      <4>1. /\ k + 1 \in 1 .. n /\ m + (k + 1) \in 1 .. m + n /\ k \in 0 .. n
            /\ (k + 1) - 1 = k /\ (m + (k + 1)) - 1 = m + k
        BY <1>1, <3>1
      <4>2. Upto(p, ab, pixels, m + k) = Upto(q, b, pixels, k)
        BY <2>2, <4>1
      <4>3. Upto(p, ab, pixels, m + (k + 1)) =
              Draw(Upto(p, ab, pixels, m + k), ab[m + (k + 1)], pixels)
        BY <1>4, <4>1
      <4>4. Upto(q, b, pixels, k + 1) = Draw(Upto(q, b, pixels, k), b[k + 1], pixels)
        BY <1>6, <4>1
      <4>5. ab[m + (k + 1)] = b[k + 1]
        BY <1>2, <4>1
      <4> QED
        BY <4>2, <4>3, <4>4, <4>5
    <3>2. CASE k + 1 \notin 0 .. n
      BY <3>2
    <3> QED
      BY <3>1, <3>2
  <2> HIDE DEF R
  <2> QED
    BY <2>1, <2>2, Inductive
<1>11. \A i \in 0 .. n : Upto(p, ab, pixels, m + i) = Upto(q, b, pixels, i)
  BY <1>1, <1>10
<1>12. After(p, ab, pixels) = After(q, b, pixels)
  <2>1. n \in 0 .. n
    BY <1>1
  <2> QED
    BY <1>4, <1>6, <1>11, <2>1
<1> QED
  BY <1>2, <1>3, <1>8, <1>11, <1>12 DEF ab, q

\* x is y, or not known where something may be.
Meets(x, y, lost) == x = y \/ (lost /\ x = Unknown)

\* A viewer that shows the picture in its format, as far as it knows it, shows what
\* comes of it.
LEMMA InFormat ==
  ASSUME NEW D, NEW list, Message(list, D), NEW fmt,
         NEW V, NEW p, NEW pixels, Canvas(D, V, p, pixels),
         NEW W, NEW v, NEW drawn, Canvas(D, W, v, drawn),
         NEW lost, \A c \in D : Meets(v[c], fmt[p[c]], lost) /\ drawn[c] = fmt[pixels[c]]
  PROVE  \A i \in 0 .. Len(list) : \A c \in D :
           Meets(Upto(v, list, drawn, i)[c], fmt[Upto(p, list, pixels, i)[c]], lost)
<1> DEFINE n == Len(list)
           S == {i \in Nat : i \in 0 .. n => \A c \in D :
                   Meets(Upto(v, list, drawn, i)[c], fmt[Upto(p, list, pixels, i)[c]], lost)}
<1>1. n \in Nat /\ DOMAIN list = 1 .. n /\ \A i \in 1 .. n : list[i] \in Rectangle
  BY DEF Message
<1>2. /\ \A i \in 0 .. n : Upto(p, list, pixels, i) \in [D -> V]
      /\ Upto(p, list, pixels, 0) = p
      /\ \A i \in 1 .. n :
           Upto(p, list, pixels, i) = Draw(Upto(p, list, pixels, i - 1), list[i], pixels)
  BY UptoIs
<1>3. /\ \A i \in 0 .. n : Upto(v, list, drawn, i) \in [D -> W]
      /\ Upto(v, list, drawn, 0) = v
      /\ \A i \in 1 .. n :
           Upto(v, list, drawn, i) = Draw(Upto(v, list, drawn, i - 1), list[i], drawn)
  BY UptoIs
<1>4. 0 \in S
  BY <1>2, <1>3
<1>5. ASSUME NEW k \in Nat, k \in S
      PROVE  k + 1 \in S
  <2>1. CASE k + 1 \in 0 .. n
    <3> DEFINE pk == Upto(p, list, pixels, k)
               vk == Upto(v, list, drawn, k)
               m == list[k + 1]
    <3>1. k + 1 \in 1 .. n /\ k \in 0 .. n /\ (k + 1) - 1 = k
      BY <1>1, <2>1
    <3>2. \A c \in D : Meets(vk[c], fmt[pk[c]], lost)
      BY <1>5, <3>1
    <3>3. m \in Rectangle /\ Inside(m, D)
      BY <1>1, <3>1 DEF AllInside, Message
    <3>4. Canvas(D, V, pk, pixels) /\ Canvas(D, W, vk, drawn)
      BY <1>2, <1>3, <3>1 DEF Canvas
    <3>5. /\ Upto(p, list, pixels, k + 1) = Draw(pk, m, pixels)
          /\ Upto(v, list, drawn, k + 1) = Draw(vk, m, drawn)
      BY <1>2, <1>3, <3>1
    <3> HIDE DEF pk, vk, m
    <3>6. \A c \in D : Draw(pk, m, pixels)[c] =
              IF c \in CellsOf(m)
              THEN IF m.kind = "copy" THEN pk[Source(m, c)] ELSE pixels[c]
              ELSE pk[c]
      BY <3>3, <3>4, DrawIs
    <3>7. \A c \in D : Draw(vk, m, drawn)[c] =
              IF c \in CellsOf(m)
              THEN IF m.kind = "copy" THEN vk[Source(m, c)] ELSE drawn[c]
              ELSE vk[c]
      BY <3>3, <3>4, DrawIs
    <3>8. \A c \in D : m.kind = "copy" /\ c \in CellsOf(m) => Source(m, c) \in D
      BY <3>3 DEF Inside
    <3>9. \A c \in D : Meets(Draw(vk, m, drawn)[c], fmt[Draw(pk, m, pixels)[c]], lost)
      BY <3>2, <3>6, <3>7, <3>8 DEF Meets
    <3> QED
      BY <3>5, <3>9
  <2>2. CASE k + 1 \notin 0 .. n
    BY <2>2
  <2> QED
    BY <2>1, <2>2
<1>6. Nat \subseteq S
  <2> HIDE DEF S
  <2> QED
    BY <1>4, <1>5, Inductive
<1> QED
  BY <1>1, <1>6

\* Copies take what is to be drawn anyway, from where nothing was drawn before.
Fresh(list, p, pixels) ==
  \A j \in DOMAIN list : list[j].kind = "copy" =>
    \A c \in CellsOf(list[j]) :
      /\ p[Source(list[j], c)] = pixels[c]
      /\ \A i \in 1 .. j - 1 : Source(list[j], c) \notin CellsOf(list[i])

\* Then each rectangle is drawn, and nothing else.
LEMMA AllDrawn ==
  ASSUME NEW D, NEW V, NEW p, NEW pixels, Canvas(D, V, p, pixels),
         NEW list, Message(list, D), Fresh(list, p, pixels)
  PROVE  \A i \in 0 .. Len(list) : \A c \in D :
           Upto(p, list, pixels, i)[c] =
             IF \E k \in 1 .. i : c \in CellsOf(list[k]) THEN pixels[c] ELSE p[c]
<1> DEFINE n == Len(list)
           P(i) == Upto(p, list, pixels, i)
           On(i, c) == \E k \in 1 .. i : c \in CellsOf(list[k])
           S == {i \in Nat : i \in 0 .. n => \A c \in D :
                   P(i)[c] = IF On(i, c) THEN pixels[c] ELSE p[c]}
<1>1. n \in Nat /\ DOMAIN list = 1 .. n /\ \A i \in 1 .. n : list[i] \in Rectangle
  BY DEF Message
<1>2. /\ \A i \in 0 .. n : P(i) \in [D -> V]
      /\ P(0) = p
      /\ \A i \in 1 .. n : P(i) = Draw(P(i - 1), list[i], pixels)
  BY UptoIs
<1> HIDE DEF P
<1>3. 0 \in S
  <2>1. \A c \in D : ~On(0, c)
    OBVIOUS
  <2> HIDE DEF On
  <2> QED
    BY <1>2, <2>1
<1>4. ASSUME NEW k \in Nat, k \in S
      PROVE  k + 1 \in S
  <2>1. CASE k + 1 \in 0 .. n
    <3> DEFINE m == list[k + 1]
    <3>1. k + 1 \in 1 .. n /\ k \in 0 .. n /\ (k + 1) - 1 = k /\ 1 .. k + 1 = (1 .. k) \cup {k + 1}
      BY <1>1, <2>1
    <3>2. \A c \in D : P(k)[c] = IF On(k, c) THEN pixels[c] ELSE p[c]
      BY <1>4, <3>1
    <3>3. m \in Rectangle /\ Inside(m, D)
      BY <1>1, <3>1 DEF AllInside, Message
    <3>4. P(k + 1) = Draw(P(k), m, pixels) /\ Canvas(D, V, P(k), pixels)
      BY <1>2, <3>1 DEF Canvas
    <3>5. \A c \in D : On(k + 1, c) <=> On(k, c) \/ c \in CellsOf(m)
      BY <3>1
    <3>6. ASSUME NEW c \in CellsOf(m), m.kind = "copy"
          PROVE  Source(m, c) \in D /\ p[Source(m, c)] = pixels[c] /\ ~On(k, Source(m, c))
      BY <1>1, <3>1, <3>3, <3>6 DEF Fresh, Inside
    <3> HIDE DEF m, On
    <3>7. \A c \in D : Draw(P(k), m, pixels)[c] =
              IF c \in CellsOf(m)
              THEN IF m.kind = "copy" THEN P(k)[Source(m, c)] ELSE pixels[c]
              ELSE P(k)[c]
      BY <3>3, <3>4, DrawIs
    <3>8. \A c \in D : P(k + 1)[c] = IF On(k + 1, c) THEN pixels[c] ELSE p[c]
      BY <3>2, <3>4, <3>5, <3>6, <3>7
    <3> QED
      BY <3>8
  <2>2. CASE k + 1 \notin 0 .. n
    BY <2>2
  <2> QED
    BY <2>1, <2>2
<1>5. Nat \subseteq S
  <2> HIDE DEF S
  <2> QED
    BY <1>3, <1>4, Inductive
<1> QED
  BY <1>1, <1>5 DEF P

-----------------------------------------------------------------------------
(* What has scrolled.                                                      *)

Box == [x : Int, y : Int, w : Int, h : Int]

\* A strip has one scroll or none; it says where rows are in the shadow.
LEMMA Scrolled ==
  ASSUME NEW q, NEW f, NEW t \in Box, NEW s \in scroll_strip(q, f, t)
  PROVE  /\ s.dy \in Int /\ s.start \in Nat /\ s.length \in Nat \ {0}
         /\ \A i \in s.start .. s.start + s.length - 1 :
              /\ i \in 0 .. t.h - 1 /\ i + s.dy \in 0 .. t.h - 1
              /\ SameRow(q, f, t, i, i + s.dy)
         /\ \E i \in 0 .. t.h - 1 : Row(f, t, t.y + i) # Row(q, t, t.y + i)
         /\ \A u \in scroll_strip(q, f, t) : u = s
<1> DEFINE rows == 0 .. t.h - 1
           fresh == [i \in rows |-> Hash(Row(f, t, t.y + i))]
           old == [i \in rows |-> Hash(Row(q, t, t.y + i))]
           shifts == ((1 - t.h) .. t.h - 1) \ {0}
           votes(d) == {i \in rows :
                     /\ i + d \in rows /\ fresh[i] = old[i + d]
                     /\ \A k \in rows \ {i + d} : old[k] # old[i + d]
                     /\ i > 0 => fresh[i] # fresh[i - 1]}
           best == {d \in shifts :
                 LET count == Cardinality(votes(d)) IN
                 /\ t.h >= 2 * MinRows /\ count >= MinVotes
                 /\ \A o \in shifts : \/ Cardinality(votes(o)) < count
                                      \/ Cardinality(votes(o)) = count /\ d <= o}
           match == {i \in rows : \E d \in best :
                  i + d \in rows /\ SameRow(q, f, t, i, i + d)}
           bands == {u \in [dy : best, start : match, length : 1 .. t.h] :
                  u.start .. u.start + u.length - 1 \subseteq match}
           Chosen(u) ==
              /\ \A v \in bands : \/ v.length < u.length
                                  \/ v.length = u.length /\ u.start <= v.start
              /\ u.length >= MinRows
              /\ \E k \in u.start .. u.start + u.length - 1 : fresh[k] # old[k]
<1>1. scroll_strip(q, f, t) = {u \in bands : Chosen(u)}
  BY DEF scroll_strip
<1>2. t.h \in Int
  BY DEF Box
<1>3. \A d : Cardinality(votes(d)) \in Nat
  <2>1. ASSUME NEW d
        PROVE  Cardinality(votes(d)) \in Nat
    <3> DEFINE vs == votes(d)
    <3>1. IsFiniteSet(rows)
      BY <1>2, FS_Interval
    <3>2. vs \in SUBSET rows
      OBVIOUS
    <3> HIDE DEF vs, rows
    <3>3. IsFiniteSet(vs)
      BY <3>1, <3>2, FS_Subset
    <3>4. Cardinality(vs) \in Nat
      BY <3>3, FS_CardinalityType
    <3> QED
      BY <3>4 DEF vs
  <2> HIDE DEF votes
  <2> QED
    BY <2>1
<1> HIDE DEF votes
<1>4. \A d, e \in best : d = e
  <2> SUFFICES ASSUME NEW d \in best, NEW e \in best
               PROVE  d = e
    OBVIOUS
  <2>1. d \in Int /\ e \in Int /\ d \in shifts /\ e \in shifts
    BY <1>2
  <2>2. /\ \/ Cardinality(votes(e)) < Cardinality(votes(d))
           \/ Cardinality(votes(e)) = Cardinality(votes(d)) /\ d <= e
        /\ \/ Cardinality(votes(d)) < Cardinality(votes(e))
           \/ Cardinality(votes(d)) = Cardinality(votes(e)) /\ e <= d
    BY <2>1
  <2> QED
    BY <1>3, <2>1, <2>2
<1>5. \A d \in best : d \in Int
  BY <1>2
<1> HIDE DEF best
<1>6. \A i \in match : i \in rows /\ \A d \in best : i + d \in rows /\ SameRow(q, f, t, i, i + d)
  BY <1>4
<1> HIDE DEF match
<1>7. \A u \in bands : /\ u.dy \in best /\ u.start \in match /\ u.length \in 1 .. t.h
                       /\ u.start .. u.start + u.length - 1 \subseteq match
                       /\ u = [dy |-> u.dy, start |-> u.start, length |-> u.length]
  OBVIOUS
<1> HIDE DEF bands
<1>8. s \in bands /\ Chosen(s)
  BY <1>1
<1>9. s.dy \in Int /\ s.start \in Nat /\ s.length \in Nat \ {0}
  BY <1>2, <1>5, <1>6, <1>7, <1>8
<1>10. ASSUME NEW i \in s.start .. s.start + s.length - 1
       PROVE  /\ i \in rows /\ i + s.dy \in rows /\ SameRow(q, f, t, i, i + s.dy)
  BY <1>6, <1>7, <1>8
<1>11. \E i \in rows : Row(f, t, t.y + i) # Row(q, t, t.y + i)
  <2>1. PICK k \in s.start .. s.start + s.length - 1 : fresh[k] # old[k]
    BY <1>8
  <2>2. k \in rows
    BY <1>10
  <2>3. fresh[k] = Hash(Row(f, t, t.y + k)) /\ old[k] = Hash(Row(q, t, t.y + k))
    BY <2>2
  <2> QED
    BY <2>1, <2>2, <2>3
<1>12. ASSUME NEW u \in scroll_strip(q, f, t)
       PROVE  u = s
  <2>1. u \in bands /\ Chosen(u)
    BY <1>1
  <2>2. u.start \in Nat /\ u.length \in Nat /\ u.dy = s.dy
    BY <1>2, <1>4, <1>6, <1>7, <1>8, <2>1
  <2>3. /\ s.length < u.length \/ (s.length = u.length /\ u.start <= s.start)
        /\ u.length < s.length \/ (u.length = s.length /\ s.start <= u.start)
    BY <1>8, <2>1
  <2>4. u.length = s.length /\ u.start = s.start
    BY <1>9, <2>2, <2>3
  <2> QED
    BY <1>7, <1>8, <2>1, <2>2, <2>4
<1> QED
  BY <1>9, <1>10, <1>11, <1>12

\* The lower and the upper of two numbers.
LEMMA LowerIs ==
  ASSUME NEW a \in Int, NEW b \in Int
  PROVE  /\ Lower(a, b) \in Int /\ Lower(a, b) <= a /\ Lower(a, b) <= b
         /\ Lower(a, b) = a \/ Lower(a, b) = b
         /\ Upper(a, b) \in Int /\ a <= Upper(a, b) /\ b <= Upper(a, b)
         /\ Upper(a, b) = a \/ Upper(a, b) = b
BY DEF Lower, Upper

\* The strip a column is in.
StripAt(r, x) == (x - r.x) \div TileSide + 1

\* Strips are as wide as a tile, side by side.
LEMMA StripIs ==
  ASSUME NEW r \in Box, r.w > 0, NEW k \in StripsOf(r)
  PROVE  /\ k \in Nat \ {0} /\ Strip(r, k) \in Box
         /\ Strip(r, k).y = r.y /\ Strip(r, k).h = r.h
         /\ (k - 1) * TileSide \in Nat /\ Strip(r, k).x = r.x + (k - 1) * TileSide
         /\ Strip(r, k).w > 0
         /\ Strip(r, k).x + Strip(r, k).w <= r.x + r.w
         /\ Strip(r, k).x + Strip(r, k).w <= r.x + (k - 1) * TileSide + TileSide
<1> DEFINE n == (r.w + TileSide - 1) \div TileSide
           a == (k - 1) * TileSide
<1>1. r.x \in Int /\ r.y \in Int /\ r.h \in Int /\ r.w \in Nat \ {0} /\ TileSide \in Nat \ {0}
  BY SideType DEF Box
<1>2. n \in Nat \ {0} /\ \A j \in Nat : j < n => j * TileSide < r.w
  BY <1>1, TilesOf
<1>3. k \in 1 .. n
  BY DEF StripsOf
<1> HIDE DEF n
<1>4. k \in Nat \ {0} /\ k - 1 \in Nat /\ k - 1 < n
  BY <1>2, <1>3
<1>5. a < r.w
  BY <1>2, <1>4
<1>6. a \in Nat
  BY <1>1, <1>4
<1> HIDE DEF a
<1>7. Strip(r, k) = [x |-> r.x + a, y |-> r.y, h |-> r.h, w |-> Lower(TileSide, r.w - a)]
  BY DEF Strip, a
<1>8. Lower(TileSide, r.w - a) \in Int /\ Lower(TileSide, r.w - a) > 0
      /\ Lower(TileSide, r.w - a) <= TileSide /\ Lower(TileSide, r.w - a) <= r.w - a
  BY <1>1, <1>5, <1>6 DEF Lower
<1>9. Strip(r, k) \in Box
  BY <1>1, <1>6, <1>7, <1>8 DEF Box
<1> QED
  BY <1>1, <1>4, <1>6, <1>7, <1>8, <1>9 DEF a

\* A column is in its strip.
LEMMA StripAtIs ==
  ASSUME NEW r \in Box, r.w > 0, NEW x \in r.x .. r.x + r.w - 1
  PROVE  /\ StripAt(r, x) \in StripsOf(r)
         /\ x \in Strip(r, StripAt(r, x)).x ..
                    Strip(r, StripAt(r, x)).x + Strip(r, StripAt(r, x)).w - 1
<1> DEFINE n == (r.w + TileSide - 1) \div TileSide
           d == x - r.x
           q == d \div TileSide
           a == q * TileSide
<1>1. r.x \in Int /\ r.y \in Int /\ r.h \in Int /\ r.w \in Nat \ {0} /\ TileSide \in Nat \ {0}
      /\ x \in Int
  BY SideType DEF Box
<1>2. d \in 0 .. r.w - 1 /\ d \in Nat
  BY <1>1
<1>3. n \in Nat \ {0} /\ q \in 0 .. n - 1
  BY <1>1, <1>2, TilesOf
<1>4. q \in Nat /\ a \in Nat /\ a <= d /\ d < a + TileSide
  BY <1>2, InTile
<1>5. StripAt(r, x) = q + 1
  BY DEF StripAt
<1>6. StripsOf(r) = 1 .. n
  BY DEF StripsOf
<1> HIDE DEF n, q
<1>7. StripAt(r, x) \in StripsOf(r)
  BY <1>3, <1>5, <1>6
<1>8. (q + 1) - 1 = q
  BY <1>4
<1>9. Strip(r, q + 1).x = r.x + a /\ Strip(r, q + 1).w = Lower(TileSide, r.w - a)
  BY <1>8 DEF Strip
<1> HIDE DEF a
<1>10. x < r.x + a + Lower(TileSide, r.w - a) /\ Lower(TileSide, r.w - a) \in Int
  BY <1>1, <1>2, <1>4 DEF Lower
<1> QED
  BY <1>1, <1>2, <1>4, <1>5, <1>7, <1>9, <1>10

\* A column between the first and the last strip of a group is in one of them.
LEMMA StripBetween ==
  ASSUME NEW r \in Box, r.w > 0, NEW j \in StripsOf(r), NEW k \in StripsOf(r), j <= k,
         NEW x \in Int, Strip(r, j).x <= x, x < Strip(r, k).x + Strip(r, k).w
  PROVE  x \in r.x .. r.x + r.w - 1 /\ StripAt(r, x) \in j .. k
<1> DEFINE d == x - r.x
           q == d \div TileSide
           a == q * TileSide
           b == (j - 1) * TileSide
           e == (k - 1) * TileSide
<1>1. r.x \in Int /\ r.w \in Nat \ {0} /\ TileSide \in Nat \ {0}
  BY SideType DEF Box
<1>2. /\ j \in Nat \ {0} /\ b \in Nat /\ Strip(r, j).x = r.x + b
      /\ k \in Nat \ {0} /\ e \in Nat
      /\ Strip(r, k).x + Strip(r, k).w <= r.x + r.w
      /\ Strip(r, k).x + Strip(r, k).w <= r.x + e + TileSide
      /\ Strip(r, k).x + Strip(r, k).w \in Int
  BY StripIs DEF Box
<1>3. b <= d /\ d < r.w /\ d < e + TileSide /\ d \in Nat
  BY <1>1, <1>2
<1>4. q \in Nat /\ a \in Nat /\ a <= d /\ d < a + TileSide
  BY <1>3, InTile
<1>5. x \in r.x .. r.x + r.w - 1
  BY <1>1, <1>3
<1>6. StripAt(r, x) = q + 1
  BY DEF StripAt
<1> HIDE DEF q
<1>7. j <= q + 1
  <2> SUFFICES ASSUME q + 1 <= j - 1
               PROVE  FALSE
    BY <1>2, <1>4
  <2>1. (q + 1) * TileSide <= b /\ (q + 1) * TileSide = a + TileSide
    BY <1>2, <1>4, TimesUp
  <2> HIDE DEF a, b
  <2> QED
    BY <1>1, <1>2, <1>3, <1>4, <2>1
<1>8. q + 1 <= k
  <2> SUFFICES ASSUME k <= q
               PROVE  FALSE
    BY <1>2, <1>4
  <2>1. k * TileSide <= a /\ k * TileSide = e + TileSide
    <3>1. (k - 1) + 1 = k /\ k - 1 \in Int /\ k - 1 <= k
      BY <1>2
    <3>2. ((k - 1) + 1) * TileSide = (k - 1) * TileSide + TileSide
      BY <3>1, TimesUp
    <3>3. k * TileSide <= a
      BY <1>2, <1>4, TimesUp
    <3> QED
      BY <3>1, <3>2, <3>3
  <2> HIDE DEF a, e
  <2> QED
    BY <1>1, <1>2, <1>3, <1>4, <2>1
<1> QED
  BY <1>2, <1>4, <1>5, <1>6, <1>7, <1>8

\* The pixels of a rectangle.
LEMMA CellOf ==
  ASSUME NEW r, NEW c
  PROVE  c \in CellsOf(r) <=> /\ c = <<c[1], c[2]>>
                              /\ c[1] \in r.x .. r.x + r.w - 1 /\ c[2] \in r.y .. r.y + r.h - 1
BY DEF CellsOf

\* Two groups of strips have no strip in common.
LEMMA GroupsApart ==
  ASSUME NEW n \in Nat, NEW scroll, DOMAIN scroll = 1 .. n,
         NEW g \in Groups(scroll), NEW h \in Groups(scroll),
         NEW k \in g[1] .. g[2], k \in h[1] .. h[2]
  PROVE  g = h
<1>1. \A e \in Groups(scroll) :
        /\ e = <<e[1], e[2]>> /\ e[1] \in 1 .. n /\ e[2] \in 1 .. n /\ e[1] <= e[2]
        /\ \A i \in e[1] .. e[2] : scroll[i] = scroll[e[1]]
        /\ \A i \in 1 .. n : i = e[1] - 1 \/ i = e[2] + 1 => scroll[i] # scroll[e[1]]
  <2>1. ASSUME NEW e \in Groups(scroll)
        PROVE  /\ e = <<e[1], e[2]>> /\ e[1] \in 1 .. n /\ e[2] \in 1 .. n /\ e[1] <= e[2]
               /\ \A i \in e[1] .. e[2] : scroll[i] = scroll[e[1]]
               /\ \A i \in (1 .. n) \cap {e[1] - 1, e[2] + 1} : scroll[i] # scroll[e[1]]
    <3>1. /\ e \in (1 .. n) \X (1 .. n) /\ e[1] <= e[2]
          /\ \A i \in e[1] .. e[2] : scroll[i] = scroll[e[1]]
      BY DEF Groups
    <3>2. \A i \in (DOMAIN scroll) \cap {e[1] - 1, e[2] + 1} : scroll[i] # scroll[e[1]]
      BY DEF Groups
    <3> QED
      BY <3>1, <3>2
  <2> QED
    BY <2>1
<1>2. ASSUME NEW a \in Groups(scroll), NEW b \in Groups(scroll),
             k \in a[1] .. a[2], k \in b[1] .. b[2]
      PROVE  b[1] <= a[1] /\ a[2] <= b[2]
  <2>1. /\ a[1] \in 1 .. n /\ a[2] \in 1 .. n /\ b[1] \in 1 .. n /\ b[2] \in 1 .. n
        /\ k \in Int /\ a[1] <= k /\ k <= a[2] /\ b[1] <= k /\ k <= b[2]
    BY <1>1, <1>2
  <2>2. scroll[k] = scroll[a[1]] /\ scroll[k] = scroll[b[1]]
    BY <1>1, <1>2
  <2>3. b[1] <= a[1]
    <3> SUFFICES ASSUME a[1] < b[1]
                 PROVE  FALSE
      BY <2>1
    <3>1. b[1] - 1 \in a[1] .. a[2] /\ b[1] - 1 \in 1 .. n
      BY <2>1
    <3>2. scroll[b[1] - 1] = scroll[a[1]]
      BY <1>1, <3>1
    <3>3. scroll[b[1] - 1] # scroll[b[1]]
      BY <1>1, <3>1
    <3> QED
      BY <2>2, <3>2, <3>3
  <2>4. a[2] <= b[2]
    <3> SUFFICES ASSUME b[2] < a[2]
                 PROVE  FALSE
      BY <2>1
    <3>1. b[2] + 1 \in a[1] .. a[2] /\ b[2] + 1 \in 1 .. n
      BY <2>1
    <3>2. scroll[b[2] + 1] = scroll[a[1]]
      BY <1>1, <3>1
    <3>3. scroll[b[2] + 1] # scroll[b[1]]
      BY <1>1, <3>1
    <3> QED
      BY <2>2, <3>2, <3>3
  <2> QED
    BY <2>3, <2>4
<1>3. g[1] = h[1] /\ g[2] = h[2]
  <2>1. h[1] <= g[1] /\ g[2] <= h[2] /\ g[1] <= h[1] /\ h[2] <= g[2]
    BY <1>2
  <2>2. g[1] \in Int /\ g[2] \in Int /\ h[1] \in Int /\ h[2] \in Int
    BY <1>1
  <2> QED
    BY <2>1, <2>2
<1> QED
  BY <1>1, <1>3

ScrollOf(q, f, r) == [k \in StripsOf(r) |-> scroll_strip(q, f, Strip(r, k))]

\* The copy of a group takes its pixels from where they are, in its columns.
LEMMA CopyIs ==
  ASSUME NEW q, NEW f, NEW r \in Box, r.w > 0, NEW g \in Groups(ScrollOf(q, f, r))
  PROVE  LET m == flush_copy(r, ScrollOf(q, f, r), g)
         IN  /\ m \in Rectangle /\ m.kind = "copy" /\ CellsOf(m) # {}
             /\ \A c \in CellsOf(m) :
                  /\ c \in CellsOf(r) /\ Source(m, c) \in CellsOf(r)
                  /\ q[Source(m, c)] = f[c]
                  /\ StripAt(r, c[1]) \in g[1] .. g[2]
<1> DEFINE scroll == ScrollOf(q, f, r)
           m == flush_copy(r, scroll, g)
           s == CHOOSE u \in scroll[g[1]] : TRUE
           a == Strip(r, g[1])
           b == Strip(r, g[2])
<1>1. /\ g[1] \in StripsOf(r) /\ g[2] \in StripsOf(r) /\ g[1] <= g[2] /\ scroll[g[1]] # {}
      /\ \A k \in g[1] .. g[2] : scroll[k] = scroll[g[1]]
  <2>1. DOMAIN scroll = StripsOf(r) /\ g \in Groups(scroll)
    BY DEF ScrollOf
  <2> HIDE DEF scroll
  <2> QED
    BY <2>1 DEF Groups
<1>2. s \in scroll[g[1]]
  BY <1>1
<1>3. m = [kind |-> "copy", x |-> a.x, y |-> r.y + s.start, h |-> s.length,
           w |-> b.x + b.w - a.x, src |-> r.y + s.start + s.dy]
  BY DEF flush_copy
<1> HIDE DEF m, s
<1>4. \A k \in StripsOf(r) : scroll[k] = scroll_strip(q, f, Strip(r, k))
  BY DEF ScrollOf
<1>5. a \in Box /\ b \in Box /\ g[1] \in Nat \ {0} /\ g[2] \in Nat \ {0}
      /\ a.x = r.x + (g[1] - 1) * TileSide /\ b.x = r.x + (g[2] - 1) * TileSide
      /\ b.w > 0
  BY <1>1, StripIs
<1>6. s \in scroll_strip(q, f, a)
  BY <1>1, <1>2, <1>4
<1>7. s.dy \in Int /\ s.start \in Nat /\ s.length \in Nat \ {0}
  BY <1>5, <1>6, Scrolled
<1>8. a.x <= b.x
  <2>1. g[1] - 1 \in Int /\ g[2] - 1 \in Int /\ g[1] - 1 <= g[2] - 1
    BY <1>1, <1>5
  <2>2. /\ (g[1] - 1) * TileSide \in Int /\ (g[2] - 1) * TileSide \in Int
        /\ (g[1] - 1) * TileSide <= (g[2] - 1) * TileSide
    BY <2>1, TimesUp
  <2>3. r.x \in Int
    BY DEF Box
  <2> QED
    BY <1>5, <2>2, <2>3
<1> HIDE DEF a, b
<1>9. /\ r.x \in Int /\ r.y \in Int /\ r.w \in Int /\ r.h \in Int
      /\ a.x \in Int /\ b.x \in Int /\ b.w \in Int
  BY <1>5 DEF Box
<1>10. m \in Rectangle /\ m.kind = "copy" /\ m.w \in Int /\ m.w > 0 /\ m.h > 0
  BY <1>3, <1>5, <1>7, <1>8, <1>9 DEF Rectangle
<1>11. CellsOf(m) # {}
  <2>1. <<m.x, m.y>> \in CellsOf(m)
    BY <1>10 DEF CellsOf, Rectangle
  <2> QED
    BY <2>1
<1>12. ASSUME NEW c \in CellsOf(m)
       PROVE  /\ c \in CellsOf(r) /\ Source(m, c) \in CellsOf(r)
              /\ q[Source(m, c)] = f[c]
              /\ StripAt(r, c[1]) \in g[1] .. g[2]
  <2> DEFINE k == StripAt(r, c[1])
             t == Strip(r, k)
             i == c[2] - r.y
  <2>1. /\ c = <<c[1], c[2]>> /\ c[1] \in m.x .. m.x + m.w - 1
        /\ c[2] \in m.y .. m.y + m.h - 1
    BY CellOf
  <2>2. /\ c[1] \in Int /\ a.x <= c[1] /\ c[1] < b.x + b.w /\ c[2] \in Int
        /\ i \in s.start .. s.start + s.length - 1
    BY <1>3, <1>7, <1>9, <2>1
  <2>3. c[1] \in r.x .. r.x + r.w - 1 /\ k \in g[1] .. g[2]
    BY <1>1, <2>2, StripBetween DEF a, b
  <2>4. k \in StripsOf(r) /\ c[1] \in t.x .. t.x + t.w - 1
    BY <2>3, StripAtIs
  <2>5. t \in Box /\ t.y = r.y /\ t.h = r.h
    BY <2>4, StripIs
  <2> HIDE DEF k, t, i
  <2>6. s \in scroll_strip(q, f, t)
    BY <1>1, <1>2, <1>4, <2>3, <2>4 DEF t
  <2>7. /\ i \in 0 .. r.h - 1 /\ i + s.dy \in 0 .. r.h - 1
        /\ SameRow(q, f, t, i, i + s.dy)
    BY <2>2, <2>5, <2>6, Scrolled
  <2>8. f[<<c[1], t.y + i>>] = q[<<c[1], t.y + (i + s.dy)>>]
    BY <2>4, <2>7 DEF SameRow, Row
  <2>9. t.y + i = c[2] /\ t.y + (i + s.dy) = c[2] - m.y + m.src
    BY <1>3, <1>7, <1>9, <2>2, <2>5 DEF i
  <2>10. Source(m, c) = <<c[1], t.y + (i + s.dy)>>
    BY <2>9 DEF Source
  <2>11. c[2] \in r.y .. r.y + r.h - 1 /\ t.y + (i + s.dy) \in r.y .. r.y + r.h - 1
    BY <1>7, <1>9, <2>2, <2>5, <2>7 DEF i
  <2>12. c \in CellsOf(r) /\ Source(m, c) \in CellsOf(r)
    BY <2>1, <2>3, <2>10, <2>11 DEF CellsOf
  <2>13. q[Source(m, c)] = f[c]
    BY <2>1, <2>8, <2>9, <2>10
  <2> QED
    BY <2>3, <2>12, <2>13 DEF k
<1> QED
  BY <1>10, <1>11, <1>12 DEF m

\* The copies of a rectangle: each moves into place what was there before the
\* update, and none is sent for a rectangle that did not change.
LEMMA CopyRects ==
  ASSUME NEW D, NEW q, NEW f, NEW r \in Box, r.w > 0, CellsOf(r) \subseteq D
  PROVE  LET cs == copy_rects(q, f, r)
         IN  /\ Message(cs, D)
             /\ \A i \in DOMAIN cs : /\ cs[i].kind = "copy" /\ CellsOf(cs[i]) # {}
                                     /\ CellsOf(cs[i]) \subseteq CellsOf(r)
             /\ Fresh(cs, q, f)
             /\ (\A c \in CellsOf(r) : q[c] = f[c]) => cs = <<>>
<1> DEFINE n == (r.w + TileSide - 1) \div TileSide
           scroll == ScrollOf(q, f, r)
           groups == Groups(scroll)
           list == SetToSeq(groups)
           cs == [i \in DOMAIN list |-> flush_copy(r, scroll, list[i])]
<1>1. copy_rects(q, f, r) = cs
  BY DEF copy_rects, ScrollOf
<1>2. n \in Nat /\ DOMAIN scroll = 1 .. n
  <2>1. r.w \in Nat \ {0}
    BY DEF Box
  <2>2. n \in Nat
    BY <2>1, TilesOf
  <2> QED
    BY <2>2 DEF StripsOf, ScrollOf
<1> HIDE DEF scroll, n
<1>3. IsFiniteSet(groups)
  <2>1. IsFiniteSet((1 .. n) \X (1 .. n))
    <3>1. IsFiniteSet(1 .. n)
      BY <1>2, FS_Interval
    <3> HIDE DEF n
    <3> QED
      BY <3>1, FS_Product
  <2>2. groups \in SUBSET ((1 .. n) \X (1 .. n))
    BY <1>2 DEF Groups
  <2> QED
    BY <2>1, <2>2, FS_Subset
<1> HIDE DEF groups
<1>4. /\ list \in Seq(groups)
      /\ \A i, j \in DOMAIN list : i # j => list[i] # list[j]
      /\ groups = {} => list = <<>>
  BY <1>3, Listed
<1> HIDE DEF list
<1>5. ASSUME NEW g \in groups
      PROVE  LET m == flush_copy(r, scroll, g)
             IN  /\ m \in Rectangle /\ m.kind = "copy" /\ CellsOf(m) # {}
                 /\ \A c \in CellsOf(m) :
                      /\ c \in CellsOf(r) /\ Source(m, c) \in CellsOf(r)
                      /\ q[Source(m, c)] = f[c]
                      /\ StripAt(r, c[1]) \in g[1] .. g[2]
  BY CopyIs DEF groups, scroll
<1>6. /\ DOMAIN cs = DOMAIN list
      /\ \A i \in DOMAIN list : list[i] \in groups /\ cs[i] = flush_copy(r, scroll, list[i])
  BY <1>4
<1>7. cs \in Seq(Rectangle)
  <2>1. \A i \in DOMAIN list : flush_copy(r, scroll, list[i]) \in Rectangle
    BY <1>5, <1>6
  <2>2. DOMAIN list = 1 .. Len(list) /\ Len(list) \in Nat
    BY <1>4
  <2> QED
    BY <2>1, <2>2
<1> HIDE DEF cs
<1>8. \A i \in DOMAIN cs :
        /\ cs[i].kind = "copy" /\ CellsOf(cs[i]) # {}
        /\ \A c \in CellsOf(cs[i]) :
             /\ c \in CellsOf(r) /\ Source(cs[i], c) \in CellsOf(r)
             /\ q[Source(cs[i], c)] = f[c]
             /\ StripAt(r, c[1]) \in list[i][1] .. list[i][2]
  BY <1>5, <1>6
<1>9. Message(cs, D)
  BY <1>7, <1>8 DEF Message, AllInside, Inside
<1>10. Fresh(cs, q, f)
  <2> SUFFICES ASSUME NEW j \in DOMAIN cs, NEW c \in CellsOf(cs[j]), NEW i \in 1 .. j - 1,
                      Source(cs[j], c) \in CellsOf(cs[i])
               PROVE  FALSE
    BY <1>8 DEF Fresh
  <2>1. i \in DOMAIN cs /\ i # j
    BY <1>7
  <2>2. Source(cs[j], c)[1] = c[1]
    BY DEF Source
  <2>3. /\ StripAt(r, c[1]) \in list[i][1] .. list[i][2]
        /\ StripAt(r, c[1]) \in list[j][1] .. list[j][2]
    BY <1>8, <2>1, <2>2
  <2>4. list[i] = list[j]
    BY <1>2, <1>6, <2>1, <2>3, GroupsApart DEF groups
  <2> QED
    BY <1>4, <1>6, <2>1, <2>4
<1>11. ASSUME \A c \in CellsOf(r) : q[c] = f[c]
       PROVE  cs = <<>>
  <2>1. ASSUME NEW g \in groups
        PROVE  FALSE
    <3> DEFINE t == Strip(r, g[1])
    <3>1. g[1] \in StripsOf(r) /\ scroll[g[1]] # {}
      BY DEF groups, Groups, scroll, ScrollOf
    <3>2. PICK s : s \in scroll_strip(q, f, t)
      BY <3>1 DEF scroll, ScrollOf
    <3>3. /\ t \in Box /\ t.y = r.y /\ t.h = r.h /\ t.x \in Int /\ r.x <= t.x
          /\ t.x + t.w <= r.x + r.w
      BY <3>1, StripIs DEF Box
    <3> HIDE DEF t
    <3>4. PICK i \in 0 .. r.h - 1 : Row(f, t, r.y + i) # Row(q, t, r.y + i)
      BY <3>2, <3>3, Scrolled
    <3>5. ASSUME NEW x \in t.x .. t.x + t.w - 1
          PROVE  f[<<x, r.y + i>>] = q[<<x, r.y + i>>]
      <4>1. x \in r.x .. r.x + r.w - 1 /\ r.y + i \in r.y .. r.y + r.h - 1
        BY <3>3 DEF Box
      <4>2. <<x, r.y + i>> \in CellsOf(r)
        BY <4>1 DEF CellsOf
      <4> QED
        BY <1>11, <4>2
    <3> QED
      BY <3>4, <3>5 DEF Row
  <2>2. list = <<>>
    BY <1>4, <2>1
  <2>3. DOMAIN cs = {}
    BY <1>6, <2>2
  <2> QED
    BY <1>7, <2>3, EmptySeq
<1>12. \A i \in DOMAIN cs : CellsOf(cs[i]) \subseteq CellsOf(r)
  BY <1>8
<1> QED
  BY <1>1, <1>8, <1>9, <1>10, <1>11, <1>12

-----------------------------------------------------------------------------
(* What has changed.                                                       *)

\* Sets of quadruples of finitely many values are finite.
LEMMA FiniteQuadruples ==
  ASSUME NEW A, IsFiniteSet(A), NEW B, IsFiniteSet(B),
         NEW S, S \subseteq A \X B \X A \X B
  PROVE  IsFiniteSet(S)
<1> DEFINE P == (A \X B) \X (A \X B)
           h == [b \in S |-> <<<<b[1], b[2]>>, <<b[3], b[4]>>>>]
<1>1. IsFiniteSet(P)
  <2> DEFINE Q == A \X B
  <2>1. IsFiniteSet(Q)
    BY FS_Product
  <2> HIDE DEF Q
  <2>2. IsFiniteSet(Q \X Q)
    BY <2>1, FS_Product
  <2> QED
    BY <2>2 DEF Q
<1>2. \A b \in S : b = <<b[1], b[2], b[3], b[4]>> /\ b[1] \in A /\ b[2] \in B
                   /\ b[3] \in A /\ b[4] \in B
  OBVIOUS
<1>3. h \in [S -> P]
  <2>1. \A b \in S : <<<<b[1], b[2]>>, <<b[3], b[4]>>>> \in P
    BY <1>2
  <2> HIDE DEF P
  <2> QED
    BY <2>1
<1>4. ASSUME NEW b \in S, NEW c \in S, h[b] = h[c]
      PROVE  b = c
  <2>1. <<<<b[1], b[2]>>, <<b[3], b[4]>>>> = <<<<c[1], c[2]>>, <<c[3], c[4]>>>>
    BY <1>4
  <2>2. b[1] = c[1] /\ b[2] = c[2] /\ b[3] = c[3] /\ b[4] = c[4]
    BY <2>1
  <2> QED
    BY <1>2, <2>2
<1> HIDE DEF h, P
<1>5. h \in Injection(S, P)
  BY <1>3, <1>4 DEF Injection, IsInjective
<1> QED
  BY <1>1, <1>5, FS_Injection

\* Each block is within the rectangle.
LEMMA BlockIs ==
  ASSUME NEW r \in Box, r.w > 0, r.h > 0, NEW changed,
         NEW b \in BlocksOf(changed, (r.w + TileSide - 1) \div TileSide,
                            (r.h + TileSide - 1) \div TileSide)
  PROVE  LET m == BlockOf(r, b)
         IN  /\ m \in Rectangle /\ m.kind = "write" /\ CellsOf(m) # {}
             /\ CellsOf(m) \subseteq CellsOf(r)
             /\ \A c : c \in CellsOf(m) <=>
                  /\ c \in CellsOf(r)
                  /\ r.x + b[1] * TileSide <= c[1] /\ c[1] < r.x + b[2] * TileSide
                  /\ r.y + b[3] * TileSide <= c[2] /\ c[2] < r.y + b[4] * TileSide
<1> DEFINE cols == (r.w + TileSide - 1) \div TileSide
           rows == (r.h + TileSide - 1) \div TileSide
           m == BlockOf(r, b)
           x0 == b[1] * TileSide
           x1 == b[2] * TileSide
           y0 == b[3] * TileSide
           y1 == b[4] * TileSide
<1>1. /\ r.x \in Int /\ r.y \in Int /\ r.w \in Nat \ {0} /\ r.h \in Nat \ {0}
      /\ TileSide \in Nat \ {0}
  BY SideType DEF Box
<1>2. /\ cols \in Nat \ {0} /\ \A j \in Nat : j < cols => j * TileSide < r.w
      /\ rows \in Nat \ {0} /\ \A j \in Nat : j < rows => j * TileSide < r.h
  BY <1>1, TilesOf
<1>3. /\ b[1] \in 0 .. cols - 1 /\ b[2] \in 1 .. cols /\ b[1] < b[2]
      /\ b[3] \in 0 .. rows - 1 /\ b[4] \in 1 .. rows /\ b[3] < b[4]
  BY DEF BlocksOf
<1> HIDE DEF cols, rows
<1>4. b[1] \in Nat /\ b[2] \in Nat /\ b[3] \in Nat /\ b[4] \in Nat /\ b[1] < cols /\ b[3] < rows
      /\ b[1] + 1 <= b[2] /\ b[3] + 1 <= b[4]
  BY <1>2, <1>3
<1>5. /\ x0 \in Nat /\ x1 \in Int /\ x0 + TileSide <= x1 /\ x0 < r.w
      /\ y0 \in Nat /\ y1 \in Int /\ y0 + TileSide <= y1 /\ y0 < r.h
  <2>1. /\ (b[1] + 1) * TileSide <= x1 /\ (b[1] + 1) * TileSide = x0 + TileSide
        /\ (b[3] + 1) * TileSide <= y1 /\ (b[3] + 1) * TileSide = y0 + TileSide
        /\ x1 \in Int /\ y1 \in Int
    <3>1. /\ b[1] \in Int /\ b[1] + 1 \in Int /\ b[2] \in Int
          /\ b[3] \in Int /\ b[3] + 1 \in Int /\ b[4] \in Int
          /\ b[1] <= b[2] /\ b[3] <= b[4]
      BY <1>4
    <3>2. (b[1] + 1) * TileSide <= x1 /\ x1 \in Int
      BY <1>4, <3>1, TimesUp
    <3>3. (b[3] + 1) * TileSide <= y1 /\ y1 \in Int
      BY <1>4, <3>1, TimesUp
    <3>4. /\ (b[1] + 1) * TileSide = x0 + TileSide
          /\ (b[3] + 1) * TileSide = y0 + TileSide
      BY <3>1, TimesUp
    <3> QED
      BY <3>2, <3>3, <3>4
  <2>2. x0 \in Nat /\ y0 \in Nat
    <3>1. \A i, j \in Nat : i * j \in Nat
      OBVIOUS
    <3> QED
      BY <1>1, <1>4, <3>1
  <2>3. x0 < r.w /\ y0 < r.h
    BY <1>2, <1>4
  <2> QED
    BY <2>1, <2>2, <2>3
<1>6. m = [kind |-> "write", x |-> r.x + x0, y |-> r.y + y0,
           w |-> Lower(r.x + x1, r.x + r.w) - (r.x + x0),
           h |-> Lower(r.y + y1, r.y + r.h) - (r.y + y0), src |-> r.y + y0]
  BY DEF BlockOf, Write
<1> HIDE DEF m, x0, x1, y0, y1
<1>7. /\ Lower(r.x + x1, r.x + r.w) \in Int /\ Lower(r.y + y1, r.y + r.h) \in Int
      /\ m.w > 0 /\ m.h > 0
  BY <1>1, <1>5, <1>6 DEF Lower
<1>8. m \in Rectangle /\ m.kind = "write"
  BY <1>1, <1>5, <1>6, <1>7 DEF Rectangle
<1>9. CellsOf(m) # {}
  <2>1. <<m.x, m.y>> \in CellsOf(m)
    BY <1>1, <1>7, <1>8 DEF CellsOf, Rectangle
  <2> QED
    BY <2>1
<1>10. ASSUME NEW c
       PROVE  c \in CellsOf(m) <=>
                  /\ c \in CellsOf(r)
                  /\ r.x + x0 <= c[1] /\ c[1] < r.x + x1
                  /\ r.y + y0 <= c[2] /\ c[2] < r.y + y1
  <2>1. /\ m.x + m.w - 1 = Lower(r.x + x1, r.x + r.w) - 1 /\ m.x = r.x + x0
        /\ m.y + m.h - 1 = Lower(r.y + y1, r.y + r.h) - 1 /\ m.y = r.y + y0
    BY <1>1, <1>5, <1>6, <1>7
  <2>2. ASSUME c[1] \in Int
        PROVE  c[1] \in m.x .. m.x + m.w - 1 <=>
                 /\ c[1] \in r.x .. r.x + r.w - 1
                 /\ r.x + x0 <= c[1] /\ c[1] < r.x + x1
    BY <1>1, <1>5, <1>7, <2>1, <2>2 DEF Lower
  <2>3. ASSUME c[2] \in Int
        PROVE  c[2] \in m.y .. m.y + m.h - 1 <=>
                 /\ c[2] \in r.y .. r.y + r.h - 1
                 /\ r.y + y0 <= c[2] /\ c[2] < r.y + y1
    BY <1>1, <1>5, <1>7, <2>1, <2>3 DEF Lower
  <2> QED
    BY <2>2, <2>3, CellOf
<1>11. CellsOf(m) \subseteq CellsOf(r)
  BY <1>10
<1> QED
  BY <1>8, <1>9, <1>10, <1>11 DEF m, x0, x1, y0, y1

\* A pixel that changed is in one of them.
LEMMA InBlock ==
  ASSUME NEW r \in Box, r.w > 0, r.h > 0, NEW q, NEW f,
         NEW c \in CellsOf(r), q[c] # f[c]
  PROVE  \E b \in BlocksOf(tile_changed(q, f, r), (r.w + TileSide - 1) \div TileSide,
                           (r.h + TileSide - 1) \div TileSide) :
           /\ r.x + b[1] * TileSide <= c[1] /\ c[1] < r.x + b[2] * TileSide
           /\ r.y + b[3] * TileSide <= c[2] /\ c[2] < r.y + b[4] * TileSide
<1> DEFINE cols == (r.w + TileSide - 1) \div TileSide
           rows == (r.h + TileSide - 1) \div TileSide
           changed == tile_changed(q, f, r)
           dx == c[1] - r.x
           dy == c[2] - r.y
           tx == dx \div TileSide
           ty == dy \div TileSide
<1>1. /\ r.x \in Int /\ r.y \in Int /\ r.w \in Nat \ {0} /\ r.h \in Nat \ {0}
      /\ TileSide \in Nat \ {0}
  BY SideType DEF Box
<1>2. /\ cols \in Nat \ {0} /\ \A d \in 0 .. r.w - 1 : d \div TileSide \in 0 .. cols - 1
      /\ rows \in Nat \ {0} /\ \A d \in 0 .. r.h - 1 : d \div TileSide \in 0 .. rows - 1
  BY <1>1, TilesOf
<1>3. \A d \in CellsOf(r) : /\ d[1] - r.x \in 0 .. r.w - 1 /\ d[2] - r.y \in 0 .. r.h - 1
                            /\ d[1] \in Int /\ d[2] \in Int
  BY <1>1, CellOf
<1>4. /\ dx \in Nat /\ dy \in Nat /\ c[1] = r.x + dx /\ c[2] = r.y + dy
      /\ tx \in 0 .. cols - 1 /\ ty \in 0 .. rows - 1
  BY <1>1, <1>2, <1>3
<1>5. <<tx, ty>> \in changed
  BY DEF tile_changed
<1>6. changed \subseteq (0 .. cols - 1) \X (0 .. rows - 1)
  BY <1>2, <1>3 DEF tile_changed
<1>7. /\ tx \in Nat /\ tx * TileSide \in Nat /\ tx * TileSide <= dx /\ dx < tx * TileSide + TileSide
      /\ ty \in Nat /\ ty * TileSide \in Nat /\ ty * TileSide <= dy /\ dy < ty * TileSide + TileSide
  BY <1>4, InTile
<1> HIDE DEF cols, rows, changed, tx, ty, dx, dy
<1> DEFINE S == {i \in 0 .. cols - 1 : <<i, ty>> \in changed}
<1>8. PICK x0 \in 0 .. cols - 1, x1 \in 1 .. cols :
        x0 <= tx /\ tx < x1 /\ x0 .. x1 - 1 \subseteq S /\ x0 - 1 \notin S /\ x1 \notin S
  <2>1. S \in SUBSET (0 .. cols - 1) /\ tx \in S /\ cols \in Nat
    BY <1>2, <1>4, <1>5
  <2> HIDE DEF S
  <2> QED
    BY <2>1, Neighbours
<1>9. IsSpan(changed, x0, x1, ty)
  <2>1. \A i : <<i, ty>> \in changed => i \in S
    BY <1>6
  <2> QED
    BY <1>8, <2>1 DEF IsSpan
<1> DEFINE R == {i \in 0 .. rows - 1 : IsSpan(changed, x0, x1, i)}
<1>10. PICK y0 \in 0 .. rows - 1, y1 \in 1 .. rows :
        y0 <= ty /\ ty < y1 /\ y0 .. y1 - 1 \subseteq R /\ y0 - 1 \notin R /\ y1 \notin R
  <2>1. R \in SUBSET (0 .. rows - 1) /\ ty \in R /\ rows \in Nat
    BY <1>2, <1>4, <1>9
  <2> HIDE DEF R
  <2> QED
    BY <2>1, Neighbours
<1>11. x0 \in Int /\ x1 \in Int /\ x0 < x1 /\ y0 \in Int /\ y1 \in Int /\ y0 < y1
  BY <1>2, <1>7, <1>8, <1>10
<1>12. \A i : IsSpan(changed, x0, x1, i) => i \in R
  <2> SUFFICES ASSUME NEW i, IsSpan(changed, x0, x1, i)
               PROVE  i \in 0 .. rows - 1
    OBVIOUS
  <2>1. x0 \in x0 .. x1 - 1
    BY <1>11
  <2>2. <<x0, i>> \in changed
    BY <2>1 DEF IsSpan
  <2> QED
    BY <1>6, <2>2
<1>13. <<x0, x1, y0, y1>> \in BlocksOf(changed, cols, rows)
  <2> DEFINE b == <<x0, x1, y0, y1>>
  <2>1. b \in (0 .. cols - 1) \X (1 .. cols) \X (0 .. rows - 1) \X (1 .. rows)
    OBVIOUS
  <2>2. b[1] < b[2] /\ b[3] < b[4]
    BY <1>11
  <2>3. \A y \in b[3] .. b[4] - 1 : IsSpan(changed, b[1], b[2], y)
    BY <1>10
  <2>4. ~IsSpan(changed, b[1], b[2], b[3] - 1) /\ ~IsSpan(changed, b[1], b[2], b[4])
    BY <1>10, <1>12
  <2> HIDE DEF b
  <2>5. b \in BlocksOf(changed, cols, rows)
    BY <2>1, <2>2, <2>3, <2>4 DEF BlocksOf
  <2> QED
    BY <2>5 DEF b
<1>14. /\ r.x + x0 * TileSide <= c[1] /\ c[1] < r.x + x1 * TileSide
       /\ r.y + y0 * TileSide <= c[2] /\ c[2] < r.y + y1 * TileSide
  <2>1. /\ x0 * TileSide <= tx * TileSide /\ x0 * TileSide \in Int
        /\ y0 * TileSide <= ty * TileSide /\ y0 * TileSide \in Int
    BY <1>7, <1>8, <1>10, <1>11, TimesUp
  <2>2. /\ tx + 1 \in Int /\ tx + 1 <= x1 /\ ty + 1 \in Int /\ ty + 1 <= y1
    BY <1>7, <1>8, <1>10, <1>11
  <2>3. /\ (tx + 1) * TileSide <= x1 * TileSide /\ x1 * TileSide \in Int
        /\ (ty + 1) * TileSide <= y1 * TileSide /\ y1 * TileSide \in Int
    BY <1>11, <2>2, TimesUp
  <2>4. /\ (tx + 1) * TileSide = tx * TileSide + TileSide
        /\ (ty + 1) * TileSide = ty * TileSide + TileSide
    BY <1>7, TimesUp
  <2> QED
    BY <1>1, <1>4, <1>7, <2>1, <2>3, <2>4
<1> QED
  BY <1>13, <1>14 DEF cols, rows, changed

\* The writes of a rectangle: what has changed and no other rectangle.
LEMMA SpansCover ==
  ASSUME NEW D, NEW q, NEW f, NEW r \in Box, r.w > 0, r.h > 0, CellsOf(r) \subseteq D
  PROVE  LET ws == changed_spans(q, f, r)
         IN  /\ Message(ws, D)
             /\ \A i \in DOMAIN ws : /\ ws[i].kind = "write" /\ CellsOf(ws[i]) # {}
                                     /\ CellsOf(ws[i]) \subseteq CellsOf(r)
             /\ \A c \in CellsOf(r) : q[c] # f[c] => c \in Covered(ws)
             /\ (\A c \in CellsOf(r) : q[c] = f[c]) => ws = <<>>
<1> DEFINE cols == (r.w + TileSide - 1) \div TileSide
           rows == (r.h + TileSide - 1) \div TileSide
           changed == tile_changed(q, f, r)
           blocks == BlocksOf(changed, cols, rows)
           list == SetToSeq(blocks)
           ws == [i \in DOMAIN list |-> BlockOf(r, list[i])]
<1>1. changed_spans(q, f, r) = ws
  BY DEF changed_spans
<1>2. IsFiniteSet(blocks)
  <2>1. r.w \in Nat \ {0} /\ r.h \in Nat \ {0}
    BY DEF Box
  <2>2. cols \in Nat /\ rows \in Nat
    BY <2>1, TilesOf
  <2> DEFINE A == 0 .. (cols + rows)
  <2> HIDE DEF cols, rows
  <2>3. IsFiniteSet(A)
    BY <2>2, FS_Interval
  <2>4. blocks \subseteq A \X A \X A \X A
    <3>1. ASSUME NEW b \in blocks
          PROVE  b \in A \X A \X A \X A
      <4>1. b \in (0 .. cols - 1) \X (1 .. cols) \X (0 .. rows - 1) \X (1 .. rows)
        BY DEF BlocksOf
      <4>2. 0 .. cols - 1 \subseteq A /\ 1 .. cols \subseteq A /\ 0 .. rows - 1 \subseteq A
            /\ 1 .. rows \subseteq A
        BY <2>2
      <4> QED
        BY <4>1, <4>2
    <3> QED
      BY <3>1
  <2> HIDE DEF A, blocks
  <2> QED
    BY <2>3, <2>4, FiniteQuadruples
<1>3. \A b \in blocks : LET m == BlockOf(r, b)
         IN  /\ m \in Rectangle /\ m.kind = "write" /\ CellsOf(m) # {}
             /\ CellsOf(m) \subseteq CellsOf(r)
             /\ \A c : c \in CellsOf(m) <=>
                  /\ c \in CellsOf(r)
                  /\ r.x + b[1] * TileSide <= c[1] /\ c[1] < r.x + b[2] * TileSide
                  /\ r.y + b[3] * TileSide <= c[2] /\ c[2] < r.y + b[4] * TileSide
  BY BlockIs
<1>4. \A c \in CellsOf(r) : q[c] # f[c] =>
        \E b \in blocks : /\ r.x + b[1] * TileSide <= c[1] /\ c[1] < r.x + b[2] * TileSide
                          /\ r.y + b[3] * TileSide <= c[2] /\ c[2] < r.y + b[4] * TileSide
  BY InBlock
<1>5. (\A c \in CellsOf(r) : q[c] = f[c]) => blocks = {}
  <2> SUFFICES ASSUME \A c \in CellsOf(r) : q[c] = f[c], NEW b \in blocks
               PROVE  FALSE
    OBVIOUS
  <2>1. changed = {}
    BY DEF tile_changed
  <2>2. /\ b[1] < b[2] /\ b[3] < b[4] /\ b[1] \in Int /\ b[2] \in Int
        /\ b[3] \in Int /\ b[4] \in Int
        /\ \A y \in b[3] .. b[4] - 1 : IsSpan(changed, b[1], b[2], y)
    <3> HIDE DEF changed
    <3>1. b \in Int \X Int \X Int \X Int
      BY DEF BlocksOf
    <3> QED
      BY <3>1 DEF BlocksOf
  <2>3. b[3] \in b[3] .. b[4] - 1 /\ b[1] \in b[1] .. b[2] - 1
    BY <2>2
  <2>4. <<b[1], b[3]>> \in changed
    BY <2>2, <2>3 DEF IsSpan
  <2> QED
    BY <2>1, <2>4
<1> HIDE DEF blocks, changed, cols, rows
<1>6. /\ list \in Seq(blocks)
      /\ \A b \in blocks : \E i \in DOMAIN list : list[i] = b
      /\ blocks = {} => list = <<>>
  BY <1>2, Listed
<1> HIDE DEF list
<1>7. /\ DOMAIN ws = DOMAIN list
      /\ \A i \in DOMAIN list : list[i] \in blocks /\ ws[i] = BlockOf(r, list[i])
  BY <1>6
<1>8. ws \in Seq(Rectangle)
  <2>1. \A i \in DOMAIN list : BlockOf(r, list[i]) \in Rectangle
    BY <1>3, <1>7
  <2>2. DOMAIN list = 1 .. Len(list) /\ Len(list) \in Nat
    BY <1>6
  <2> QED
    BY <2>1, <2>2
<1> HIDE DEF ws
<1>9. \A i \in DOMAIN ws : /\ ws[i].kind = "write" /\ CellsOf(ws[i]) # {}
                           /\ CellsOf(ws[i]) \subseteq CellsOf(r)
  BY <1>3, <1>7
<1>10. Message(ws, D)
  BY <1>8, <1>9 DEF Message, AllInside, Inside
<1>11. ASSUME NEW c \in CellsOf(r), q[c] # f[c]
       PROVE  c \in Covered(ws)
  <2>1. PICK b \in blocks : /\ r.x + b[1] * TileSide <= c[1] /\ c[1] < r.x + b[2] * TileSide
                            /\ r.y + b[3] * TileSide <= c[2] /\ c[2] < r.y + b[4] * TileSide
    BY <1>4, <1>11
  <2>2. PICK i \in DOMAIN list : list[i] = b
    BY <1>6
  <2>3. c \in CellsOf(ws[i])
    BY <1>3, <1>7, <2>1, <2>2
  <2> QED
    BY <1>7, <2>3 DEF Covered
<1>12. ASSUME \A c \in CellsOf(r) : q[c] = f[c]
       PROVE  ws = <<>>
  <2>1. list = <<>>
    BY <1>5, <1>6, <1>12
  <2>2. DOMAIN ws = {}
    BY <1>7, <2>1
  <2> QED
    BY <1>8, <2>2, EmptySeq
<1> QED
  BY <1>1, <1>9, <1>10, <1>11, <1>12

-----------------------------------------------------------------------------
(* A rectangle after the other.                                            *)

Acc(D, V) == [shadow : [D -> V], copies : Seq(Rectangle), work : Seq(Rectangle)]

\* What is asked for is within the picture, if anything is left of it.
Asks(rects, D) ==
  /\ rects \in Seq(Box)
  /\ \A i \in DOMAIN rects : rects[i].w > 0 /\ rects[i].h > 0 => CellsOf(rects[i]) \subseteq D

\* The copies of a rectangle, when the viewer understands them.
CopiesOf(q, f, r) == IF copy_rect THEN copy_rects(q, f, r) ELSE <<>>

\* They have what copy_rects promises.
LEMMA CopiesOfIs ==
  ASSUME NEW D, NEW q, NEW f, NEW r \in Box, r.w > 0, CellsOf(r) \subseteq D
  PROVE  LET cs == CopiesOf(q, f, r)
         IN  /\ Message(cs, D)
             /\ \A i \in DOMAIN cs : /\ cs[i].kind = "copy" /\ CellsOf(cs[i]) # {}
                                     /\ CellsOf(cs[i]) \subseteq CellsOf(r)
             /\ Fresh(cs, q, f)
             /\ (\A c \in CellsOf(r) : q[c] = f[c]) => cs = <<>>
<1>1. CASE copy_rect
  <2>1. CopiesOf(q, f, r) = copy_rects(q, f, r)
    BY <1>1 DEF CopiesOf
  <2> QED
    BY <2>1, CopyRects
<1>2. CASE ~copy_rect
  <2>1. CopiesOf(q, f, r) = <<>>
    BY <1>2 DEF CopiesOf
  <2>2. Message(<<>>, D) /\ Fresh(<<>>, q, f) /\ DOMAIN <<>> = {}
    BY DEF Message, AllInside, Fresh
  <2> QED
    BY <2>1, <2>2
<1> QED
  BY <1>1, <1>2

\* A rectangle, case by case.
LEMMA EncodeRectIs ==
  ASSUME NEW acc, NEW valid, NEW f, NEW r
  PROVE  EncodeRect(acc, valid, f, r) =
           IF r.w <= 0 \/ r.h <= 0 THEN acc
           ELSE IF valid
           THEN [shadow |-> After(acc.shadow, CopiesOf(acc.shadow, f, r), f),
                 copies |-> acc.copies \o CopiesOf(acc.shadow, f, r),
                 work |-> acc.work \o changed_spans(
                            After(acc.shadow, CopiesOf(acc.shadow, f, r), f), f, r)]
           ELSE [acc EXCEPT !.work = Append(@, Write(r.x, r.y, r.w, r.h))]
BY DEF EncodeRect, CopiesOf

\* Its result has copies, writes and a shadow of the same size.
LEMMA EncodeRectType ==
  ASSUME NEW D, NEW V, NEW f, \A c \in D : f[c] \in V, NEW valid,
         NEW acc \in Acc(D, V), NEW r \in Box,
         r.w > 0 /\ r.h > 0 => CellsOf(r) \subseteq D
  PROVE  EncodeRect(acc, valid, f, r) \in Acc(D, V)
<1> DEFINE q == acc.shadow
           cs == CopiesOf(q, f, r)
           moved == After(q, cs, f)
           ws == changed_spans(moved, f, r)
<1>1. /\ q \in [D -> V] /\ acc.copies \in Seq(Rectangle) /\ acc.work \in Seq(Rectangle)
      /\ acc = [shadow |-> q, copies |-> acc.copies, work |-> acc.work]
  BY DEF Acc
<1>2. r.w \in Int /\ r.h \in Int /\ r.x \in Int /\ r.y \in Int
  BY DEF Box
<1>3. CASE r.w <= 0 \/ r.h <= 0
  BY <1>3, EncodeRectIs
<1>4. CASE ~(r.w <= 0 \/ r.h <= 0) /\ valid
  <2>1. r.w > 0 /\ r.h > 0 /\ CellsOf(r) \subseteq D
    BY <1>2, <1>4
  <2>2. Canvas(D, V, q, f)
    BY <1>1 DEF Canvas
  <2>3. Message(cs, D)
    BY <2>1, CopiesOfIs
  <2> HIDE DEF cs, q
  <2>4. moved \in [D -> V]
    BY <2>2, <2>3, AfterType
  <2> HIDE DEF moved
  <2>5. Message(ws, D)
    BY <2>1, SpansCover
  <2> HIDE DEF ws
  <2>6. acc.copies \o cs \in Seq(Rectangle) /\ acc.work \o ws \in Seq(Rectangle)
    BY <1>1, <2>3, <2>5, ConcatProperties DEF Message
  <2>7. EncodeRect(acc, valid, f, r) =
          [shadow |-> moved, copies |-> acc.copies \o cs, work |-> acc.work \o ws]
    BY <1>4, EncodeRectIs DEF moved, cs, ws, q
  <2> QED
    BY <2>4, <2>6, <2>7 DEF Acc
<1>5. CASE ~(r.w <= 0 \/ r.h <= 0) /\ ~valid
  <2> DEFINE w == Write(r.x, r.y, r.w, r.h)
  <2>1. w \in Rectangle
    BY <1>2 DEF Write, Rectangle
  <2> HIDE DEF w, q
  <2>2. Append(acc.work, w) \in Seq(Rectangle)
    BY <1>1, <2>1
  <2>3. EncodeRect(acc, valid, f, r) = [acc EXCEPT !.work = Append(@, w)]
    BY <1>5, EncodeRectIs DEF w
  <2>4. EncodeRect(acc, valid, f, r) =
          [shadow |-> q, copies |-> acc.copies, work |-> Append(acc.work, w)]
    <3> DEFINE more == Append(acc.work, w)
    <3>1. EncodeRect(acc, valid, f, r) = [acc EXCEPT !.work = more]
      BY <2>3
    <3> HIDE DEF more
    <3>2. [acc EXCEPT !.work = more] =
            [shadow |-> q, copies |-> acc.copies, work |-> more]
      BY DEF Acc, q
    <3> QED
      BY <3>1, <3>2 DEF more
  <2> QED
    BY <1>1, <2>2, <2>4 DEF Acc
<1> QED
  BY <1>3, <1>4, <1>5

Empty(p) == [shadow |-> p, copies |-> <<>>, work |-> <<>>]

\* The accumulated result after each rectangle.
Encoding(accs, D, V, p, valid, f, rects) ==
  /\ accs \in [0 .. Len(rects) -> Acc(D, V)]
  /\ accs[0] = Empty(p)
  /\ \A i \in 1 .. Len(rects) : accs[i] = EncodeRect(accs[i - 1], valid, f, rects[i])

\* The result of an update is the last of these.
LEMMA EncodedIs ==
  ASSUME NEW D, NEW V, NEW p, NEW f, Canvas(D, V, p, f), NEW valid, NEW rects, Asks(rects, D)
  PROVE  \E accs : /\ Encoding(accs, D, V, p, valid, f, rects)
                   /\ encoded(p, valid, f, rects) = accs[Len(rects)]
<1> DEFINE n == Len(rects)
           X == Acc(D, V)
           G == [a \in Nat \X X |->
                   IF a[1] \in 1 .. n THEN EncodeRect(a[2], valid, f, rects[a[1]]) ELSE a[2]]
           Next1(q, i) == IF i = 0 THEN [shadow |-> p, copies |-> <<>>, work |-> <<>>]
                          ELSE EncodeRect(q[i - 1], valid, f, rects[i])
           accs == CHOOSE q : q = [i \in 0 .. n |-> Next1(q, i)]
<1>1. /\ n \in Nat /\ DOMAIN rects = 1 .. n
      /\ \A i \in 1 .. n : /\ rects[i] \in Box
                           /\ rects[i].w > 0 /\ rects[i].h > 0 => CellsOf(rects[i]) \subseteq D
  BY DEF Asks
<1>2. G \in [Nat \X X -> X]
  <2>1. ASSUME NEW a \in Nat \X X
        PROVE  (IF a[1] \in 1 .. n THEN EncodeRect(a[2], valid, f, rects[a[1]]) ELSE a[2]) \in X
    <3>1. CASE a[1] \in 1 .. n
      <4>1. /\ rects[a[1]] \in Box /\ a[2] \in Acc(D, V)
            /\ rects[a[1]].w > 0 /\ rects[a[1]].h > 0 => CellsOf(rects[a[1]]) \subseteq D
        BY <1>1, <3>1
      <4>2. EncodeRect(a[2], valid, f, rects[a[1]]) \in Acc(D, V)
        BY <4>1, EncodeRectType DEF Canvas
      <4> QED
        BY <3>1, <4>2
    <3> QED
      BY <3>1
  <2> HIDE DEF X, n
  <2> QED
    BY <2>1
<1>3. Empty(p) \in X
  BY DEF Acc, Empty, Canvas
<1>4. PICK g : Computed(g, X, Empty(p), G, n)
  <2> HIDE DEF G, n, X
  <2> QED
    BY <1>1, <1>2, <1>3, StepByStep
<1>5. /\ g \in [0 .. n -> X] /\ g[0] = Empty(p)
      /\ \A i \in 1 .. n : g[i] = G[<<i, g[i - 1]>>]
  BY <1>4 DEF Computed
<1>6. ASSUME NEW i \in 1 .. n
      PROVE  g[i] = EncodeRect(g[i - 1], valid, f, rects[i])
  <2>1. i \in Nat /\ i - 1 \in 0 .. n /\ g[i - 1] \in X
    BY <1>1, <1>5
  <2>2. G[<<i, g[i - 1]>>] = EncodeRect(g[i - 1], valid, f, rects[i])
    <3> HIDE DEF X, n
    <3> QED
      BY <2>1
  <2> QED
    BY <1>5, <2>2
<1>7. \A q, i : i # 0 => Next1(q, i) = EncodeRect(q[i - 1], valid, f, rects[i])
  OBVIOUS
<1>8. \A q, i : i = 0 => Next1(q, i) = Empty(p)
  BY DEF Empty
<1> HIDE DEF Next1
<1>9. g = [i \in 0 .. n |-> Next1(g, i)]
  <2>1. ASSUME NEW i \in 0 .. n
        PROVE  g[i] = Next1(g, i)
    <3>1. i = 0 \/ i \in 1 .. n
      BY <1>1
    <3> QED
      BY <1>5, <1>6, <1>7, <1>8, <3>1
  <2>2. g = [i \in 0 .. n |-> g[i]]
    BY <1>5
  <2> HIDE DEF n
  <2> QED
    BY <2>1, <2>2
<1>10. accs = [i \in 0 .. n |-> Next1(accs, i)]
  <2> HIDE DEF n
  <2> QED
    BY <1>9
<1>11. encoded(p, valid, f, rects) = accs[n]
  BY DEF encoded, Next1
<1> HIDE DEF accs
<1>12. /\ accs[0] = Empty(p)
       /\ \A i \in 1 .. n : accs[i] = EncodeRect(accs[i - 1], valid, f, rects[i])
  <2>1. 0 \in 0 .. n /\ \A i \in 1 .. n : i \in 0 .. n /\ i # 0
    BY <1>1
  <2> HIDE DEF n
  <2> QED
    BY <1>7, <1>8, <1>10, <2>1
<1> DEFINE S == {k \in Nat : k \in 0 .. n => accs[k] = g[k]}
<1>13. 0 \in S
  BY <1>5, <1>12
<1>14. ASSUME NEW k \in Nat, k \in S
       PROVE  k + 1 \in S
  <2>1. CASE k + 1 \in 0 .. n
    <3>1. k + 1 \in 1 .. n /\ k \in 0 .. n /\ (k + 1) - 1 = k
      BY <1>1, <2>1
    <3>2. accs[k] = g[k]
      BY <1>14, <3>1
    <3>3. /\ accs[k + 1] = EncodeRect(accs[k], valid, f, rects[k + 1])
          /\ g[k + 1] = EncodeRect(g[k], valid, f, rects[k + 1])
      BY <1>6, <1>12, <3>1
    <3> QED
      BY <3>2, <3>3
  <2>2. CASE k + 1 \notin 0 .. n
    BY <2>2
  <2> QED
    BY <2>1, <2>2
<1>15. n \in S
  <2> HIDE DEF S
  <2> QED
    BY <1>1, <1>13, <1>14, Inductive
<1>16. accs[n] = g[n]
  BY <1>1, <1>15
<1>17. Encoding(g, D, V, p, valid, f, rects)
  BY <1>5, <1>6 DEF Encoding
<1> QED
  BY <1>11, <1>16, <1>17

\* Lists, one behind the other.
LEMMA Appended ==
  ASSUME NEW T, NEW a \in Seq(T), NEW b \in Seq(T)
  PROVE  /\ a \o b \in Seq(T) /\ Len(a \o b) = Len(a) + Len(b)
         /\ \A i \in DOMAIN a : i \in DOMAIN (a \o b) /\ (a \o b)[i] = a[i]
         /\ \A i \in DOMAIN b :
              Len(a) + i \in DOMAIN (a \o b) /\ (a \o b)[Len(a) + i] = b[i]
         /\ \A i \in DOMAIN (a \o b) : i \in DOMAIN a \/ \E j \in DOMAIN b : i = Len(a) + j
<1> DEFINE m == Len(a)
           n == Len(b)
           ab == a \o b
<1>1. m \in Nat /\ n \in Nat /\ DOMAIN a = 1 .. m /\ DOMAIN b = 1 .. n
  OBVIOUS
<1>2. /\ ab \in Seq(T) /\ Len(ab) = m + n
      /\ \A i \in 1 .. m + n : ab[i] = IF i <= m THEN a[i] ELSE b[i - m]
  BY ConcatProperties
<1> HIDE DEF ab
<1>3. DOMAIN ab = 1 .. m + n
  BY <1>2
<1>4. \A i \in 1 .. m : i \in 1 .. m + n /\ i <= m
  BY <1>1
<1>5. \A i \in 1 .. n : m + i \in 1 .. m + n /\ ~(m + i <= m) /\ (m + i) - m = i
  BY <1>1
<1>6. \A i \in 1 .. m + n : i \in 1 .. m \/ (i - m \in 1 .. n /\ i = m + (i - m))
  BY <1>1
<1> HIDE DEF m, n
<1>7. \A i \in 1 .. m : i \in 1 .. m + n /\ ab[i] = a[i]
  BY <1>2, <1>4
<1>8. \A i \in 1 .. n : m + i \in 1 .. m + n /\ ab[m + i] = b[i]
  BY <1>2, <1>5
<1>9. \A i \in DOMAIN ab : i \in DOMAIN a \/ \E j \in DOMAIN b : i = m + j
  BY <1>1, <1>3, <1>6
<1> QED
  BY <1>1, <1>2, <1>3, <1>7, <1>8, <1>9 DEF ab, m, n

\* They cover what either covers.
LEMMA CoveredBoth ==
  ASSUME NEW a \in Seq(Rectangle), NEW b \in Seq(Rectangle)
  PROVE  \A c : c \in Covered(a \o b) <=> c \in Covered(a) \/ c \in Covered(b)
<1>1. \A s, c : c \in Covered(s) <=> \E i \in DOMAIN s : c \in CellsOf(s[i])
  BY DEF Covered
<1> DEFINE ab == a \o b
<1>2. /\ \A i \in DOMAIN a : i \in DOMAIN ab /\ ab[i] = a[i]
      /\ \A i \in DOMAIN b : Len(a) + i \in DOMAIN ab /\ ab[Len(a) + i] = b[i]
      /\ \A i \in DOMAIN ab : i \in DOMAIN a \/ \E j \in DOMAIN b : i = Len(a) + j
  BY Appended
<1> HIDE DEF ab
<1>3. \A c : c \in Covered(a) \/ c \in Covered(b) => c \in Covered(ab)
  BY <1>1, <1>2
<1>4. \A c : c \in Covered(ab) => c \in Covered(a) \/ c \in Covered(b)
  <2> SUFFICES ASSUME NEW c \in Covered(ab)
               PROVE  c \in Covered(a) \/ c \in Covered(b)
    OBVIOUS
  <2>1. PICK i \in DOMAIN ab : c \in CellsOf(ab[i])
    BY <1>1
  <2>2. CASE i \in DOMAIN a
    BY <1>1, <1>2, <2>1, <2>2
  <2>3. CASE \E j \in DOMAIN b : i = Len(a) + j
    BY <1>1, <1>2, <2>1, <2>3
  <2> QED
    BY <1>2, <2>2, <2>3
<1> QED
  BY <1>3, <1>4 DEF ab

\* Rectangles with something in them.
Visible(list) == \A i \in DOMAIN list : CellsOf(list[i]) # {}
Writes(list) == \A i \in DOMAIN list : list[i].kind = "write"

\* They are visible, and writes, if both are.
LEMMA BothVisible ==
  ASSUME NEW a \in Seq(Rectangle), NEW b \in Seq(Rectangle)
  PROVE  /\ Visible(a) /\ Visible(b) => Visible(a \o b)
         /\ Writes(a) /\ Writes(b) => Writes(a \o b)
<1>1. ASSUME NEW i \in DOMAIN (a \o b)
      PROVE  \/ \E j \in DOMAIN a : (a \o b)[i] = a[j]
             \/ \E j \in DOMAIN b : (a \o b)[i] = b[j]
  BY Appended
<1> QED
  BY <1>1 DEF Visible, Writes

\* A pixel that needs nothing more than the writes.
Settled(a, f, c) == a.shadow[c] = f[c] \/ c \in Covered(a.work)

\* While what the viewer shows is known: each copy has moved pixels to where
\* they are now, and nothing is sent when nothing changed.
Follows(a, D, p, f) ==
  /\ Message(a.copies, D) /\ Visible(a.copies)
  /\ Message(a.work, D) /\ Visible(a.work) /\ Writes(a.work)
  /\ a.shadow = After(p, a.copies, f)
  /\ \A c \in D : a.shadow[c] \in {p[c], f[c]}
  /\ \A j \in DOMAIN a.copies : \A c \in CellsOf(a.copies[j]) :
       Upto(p, a.copies, f, j)[c] = f[c]
  /\ (\A c \in D : p[c] = f[c]) => a.copies = <<>> /\ a.work = <<>>

\* A rectangle keeps that, and its pixels are settled.
LEMMA FollowsStep ==
  ASSUME NEW D, NEW V, NEW p, NEW f, Canvas(D, V, p, f),
         NEW a \in Acc(D, V), Follows(a, D, p, f),
         NEW r \in Box, r.w > 0, r.h > 0, CellsOf(r) \subseteq D
  PROVE  LET b == EncodeRect(a, TRUE, f, r)
         IN  /\ Follows(b, D, p, f)
             /\ \A c \in D : Settled(a, f, c) => Settled(b, f, c)
             /\ \A c \in CellsOf(r) : Settled(b, f, c)
<1> DEFINE q == a.shadow
           cs == CopiesOf(q, f, r)
           moved == After(q, cs, f)
           ws == changed_spans(moved, f, r)
           copies == a.copies \o cs
           work == a.work \o ws
           b == EncodeRect(a, TRUE, f, r)
<1>1. r.w \in Int /\ r.h \in Int
  BY DEF Box
<1>2. b = [shadow |-> moved, copies |-> copies, work |-> work]
  <2>1. ~(r.w <= 0 \/ r.h <= 0)
    BY <1>1
  <2> QED
    BY <2>1, EncodeRectIs
<1> HIDE DEF b
<1>3. /\ Message(a.copies, D) /\ Visible(a.copies)
      /\ Message(a.work, D) /\ Visible(a.work) /\ Writes(a.work)
      /\ q = After(p, a.copies, f)
      /\ \A c \in D : q[c] \in {p[c], f[c]}
      /\ \A j \in DOMAIN a.copies : \A c \in CellsOf(a.copies[j]) :
           Upto(p, a.copies, f, j)[c] = f[c]
      /\ (\A c \in D : p[c] = f[c]) => a.copies = <<>> /\ a.work = <<>>
  BY DEF Follows
<1>4. Canvas(D, V, q, f)
  BY DEF Acc, Canvas
<1> HIDE DEF q
<1>5. /\ Message(cs, D) /\ Fresh(cs, q, f) /\ Visible(cs)
      /\ (\A c \in CellsOf(r) : q[c] = f[c]) => cs = <<>>
  <2>1. /\ Message(cs, D)
        /\ \A i \in DOMAIN cs : /\ cs[i].kind = "copy" /\ CellsOf(cs[i]) # {}
                                /\ CellsOf(cs[i]) \subseteq CellsOf(r)
        /\ Fresh(cs, q, f)
        /\ (\A c \in CellsOf(r) : q[c] = f[c]) => cs = <<>>
    BY CopiesOfIs
  <2> HIDE DEF cs
  <2> QED
    BY <2>1 DEF Visible
<1> HIDE DEF cs
<1>6. /\ a.copies \in Seq(Rectangle) /\ a.work \in Seq(Rectangle) /\ cs \in Seq(Rectangle)
      /\ Len(cs) \in 0 .. Len(cs) /\ DOMAIN cs = 1 .. Len(cs) /\ Len(cs) \in Nat
  BY <1>3, <1>5 DEF Message
<1>7. /\ \A i \in 0 .. Len(cs) : \A c \in D : Upto(q, cs, f, i)[c] =
           IF \E k \in 1 .. i : c \in CellsOf(cs[k]) THEN f[c] ELSE q[c]
  BY <1>4, <1>5, AllDrawn
<1>8. moved = Upto(q, cs, f, Len(cs)) /\ moved \in [D -> V]
  BY <1>4, <1>5, UptoIs, AfterType
<1> HIDE DEF moved
<1>9. \A c \in D : moved[c] = q[c] \/ moved[c] = f[c]
  BY <1>6, <1>7, <1>8
<1>10. /\ Message(ws, D) /\ Visible(ws) /\ Writes(ws)
       /\ \A c \in CellsOf(r) : moved[c] # f[c] => c \in Covered(ws)
       /\ (\A c \in CellsOf(r) : moved[c] = f[c]) => ws = <<>>
  <2>1. /\ Message(ws, D)
        /\ \A i \in DOMAIN ws : /\ ws[i].kind = "write" /\ CellsOf(ws[i]) # {}
                                /\ CellsOf(ws[i]) \subseteq CellsOf(r)
        /\ \A c \in CellsOf(r) : moved[c] # f[c] => c \in Covered(ws)
        /\ (\A c \in CellsOf(r) : moved[c] = f[c]) => ws = <<>>
    BY SpansCover
  <2> HIDE DEF ws
  <2> QED
    BY <2>1 DEF Visible, Writes
<1> HIDE DEF ws
<1>11. ws \in Seq(Rectangle)
  BY <1>10 DEF Message
<1>12. /\ Message(copies, D)
       /\ \A i \in 0 .. Len(a.copies) : Upto(p, copies, f, i) = Upto(p, a.copies, f, i)
       /\ \A i \in 0 .. Len(cs) : Upto(p, copies, f, Len(a.copies) + i) = Upto(q, cs, f, i)
       /\ After(p, copies, f) = moved
  <2>1. /\ Message(copies, D)
        /\ \A i \in 0 .. Len(a.copies) : Upto(p, copies, f, i) = Upto(p, a.copies, f, i)
        /\ \A i \in 0 .. Len(cs) : Upto(p, copies, f, Len(a.copies) + i)
                                     = Upto(After(p, a.copies, f), cs, f, i)
        /\ After(p, copies, f) = After(After(p, a.copies, f), cs, f)
    <3>1. Message(a.copies, D) /\ Message(cs, D)
      BY <1>3, <1>5
    <3> DEFINE ac == a.copies
    <3>2. Message(ac, D)
      BY <3>1
    <3> HIDE DEF ac
    <3>3. /\ Message(ac \o cs, D)
          /\ \A i \in 0 .. Len(ac) : Upto(p, ac \o cs, f, i) = Upto(p, ac, f, i)
          /\ \A i \in 0 .. Len(cs) : Upto(p, ac \o cs, f, Len(ac) + i)
                                       = Upto(After(p, ac, f), cs, f, i)
          /\ After(p, ac \o cs, f) = After(After(p, ac, f), cs, f)
      BY <3>1, <3>2, AfterBoth
    <3> QED
      BY <3>3 DEF ac
  <2> HIDE DEF copies
  <2> QED
    BY <1>3, <2>1 DEF moved
<1>13. Message(work, D)
  <2>1. work \in Seq(Rectangle)
    BY <1>6, <1>11, Appended
  <2>2. \A i \in DOMAIN work : \/ \E j \in DOMAIN a.work : work[i] = a.work[j]
                               \/ \E j \in DOMAIN ws : work[i] = ws[j]
    <3> DEFINE aw == a.work
    <3>1. aw \in Seq(Rectangle) /\ work = aw \o ws
      BY <1>6
    <3> HIDE DEF aw, work
    <3>2. /\ \A i \in DOMAIN aw : work[i] = aw[i]
          /\ \A i \in DOMAIN ws : work[Len(aw) + i] = ws[i]
          /\ \A i \in DOMAIN work : i \in DOMAIN aw \/ \E j \in DOMAIN ws : i = Len(aw) + j
      BY <1>11, <3>1, Appended
    <3>3. ASSUME NEW i \in DOMAIN work
          PROVE  \/ \E j \in DOMAIN aw : work[i] = aw[j]
                 \/ \E j \in DOMAIN ws : work[i] = ws[j]
      BY <3>2
    <3> QED
      BY <3>3 DEF aw
  <2> HIDE DEF work
  <2> QED
    BY <1>3, <1>10, <2>1, <2>2 DEF Message, AllInside
<1>14. Visible(copies) /\ Visible(work) /\ Writes(work)
  BY <1>3, <1>5, <1>6, <1>10, <1>11, BothVisible
<1>15. \A c \in D : moved[c] \in {p[c], f[c]}
  BY <1>3, <1>9
<1>16. ASSUME NEW j \in DOMAIN copies, NEW c \in CellsOf(copies[j])
       PROVE  Upto(p, copies, f, j)[c] = f[c]
  <2>1. CASE j \in DOMAIN a.copies
    <3>1. copies[j] = a.copies[j] /\ j \in 0 .. Len(a.copies)
      BY <1>6, <2>1, Appended
    <3> QED
      BY <1>3, <1>12, <2>1, <3>1
  <2>2. CASE \E i \in DOMAIN cs : j = Len(a.copies) + i
    <3>1. PICK i \in DOMAIN cs : j = Len(a.copies) + i
      BY <2>2
    <3>2. copies[j] = cs[i]
      BY <1>6, <3>1, Appended
    <3>3. i \in 0 .. Len(cs) /\ i \in 1 .. i
      BY <1>6
    <3>4. Upto(p, copies, f, j) = Upto(q, cs, f, i)
      BY <1>12, <3>1, <3>3
    <3>5. c \in CellsOf(cs[i]) /\ c \in D
      BY <1>5, <3>2 DEF Message, AllInside, Inside
    <3>6. Upto(q, cs, f, i)[c] = f[c]
      <4>1. \E k \in 1 .. i : c \in CellsOf(cs[k])
        BY <3>3, <3>5
      <4>2. Upto(q, cs, f, i)[c] = IF \E k \in 1 .. i : c \in CellsOf(cs[k]) THEN f[c] ELSE q[c]
        BY <1>7, <3>3, <3>5
      <4> QED
        BY <4>1, <4>2
    <3> QED
      BY <3>4, <3>6
  <2>3. j \in DOMAIN a.copies \/ \E i \in DOMAIN cs : j = Len(a.copies) + i
    <3> DEFINE ac == a.copies
    <3>1. ac \in Seq(Rectangle) /\ j \in DOMAIN (ac \o cs)
      BY <1>6
    <3> HIDE DEF ac, copies
    <3>2. j \in DOMAIN ac \/ \E i \in DOMAIN cs : j = Len(ac) + i
      BY <1>6, <3>1, Appended
    <3> QED
      BY <3>2 DEF ac
  <2> QED
    BY <2>1, <2>2, <2>3
<1>17. ASSUME \A c \in D : p[c] = f[c]
       PROVE  copies = <<>> /\ work = <<>>
  <2>1. a.copies = <<>> /\ a.work = <<>>
    BY <1>3, <1>17
  <2>2. \A c \in D : q[c] = f[c] /\ moved[c] = f[c]
    BY <1>3, <1>9, <1>17
  <2>3. cs = <<>> /\ ws = <<>>
    BY <1>5, <1>10, <2>2
  <2> QED
    BY <2>1, <2>3
<1>18. \A c : c \in Covered(work) <=> c \in Covered(a.work) \/ c \in Covered(ws)
  BY <1>6, <1>11, CoveredBoth
<1> HIDE DEF copies, work
<1>19. b.shadow = moved /\ b.copies = copies /\ b.work = work
  BY <1>2
<1>20. Follows(b, D, p, f)
  BY <1>12, <1>13, <1>14, <1>15, <1>16, <1>17, <1>19 DEF Follows
<1>21. \A c \in D : Settled(a, f, c) => Settled(b, f, c)
  BY <1>9, <1>18, <1>19 DEF Settled, q
<1>22. \A c \in CellsOf(r) : Settled(b, f, c)
  BY <1>10, <1>18, <1>19 DEF Settled
<1> QED
  BY <1>20, <1>21, <1>22 DEF b

NoCells == \A r \in Box : r.w <= 0 \/ r.h <= 0 => CellsOf(r) = {}

\* A rectangle of no width or height has no pixels.
LEMMA NoCellsIs == NoCells
BY DEF NoCells, Box, CellsOf

\* What an update sends to a viewer whose picture is known.
LEMMA EncodedFollows ==
  ASSUME NEW D, NEW V, NEW p, NEW f, Canvas(D, V, p, f),
         NEW rects, Asks(rects, D)
  PROVE  LET e == encoded(p, TRUE, f, rects)
         IN  /\ e \in Acc(D, V) /\ Follows(e, D, p, f)
             /\ \A c \in Covered(rects) : Settled(e, f, c)
<1> DEFINE n == Len(rects)
<1>1. /\ n \in Nat /\ DOMAIN rects = 1 .. n
      /\ \A i \in 1 .. n : /\ rects[i] \in Box
                           /\ rects[i].w > 0 /\ rects[i].h > 0 => CellsOf(rects[i]) \subseteq D
  BY DEF Asks
<1>2. PICK accs : /\ Encoding(accs, D, V, p, TRUE, f, rects)
                  /\ encoded(p, TRUE, f, rects) = accs[n]
  <2>1. \A v : \E accs : /\ Encoding(accs, D, V, p, v, f, rects)
                         /\ encoded(p, v, f, rects) = accs[n]
    BY EncodedIs
  <2> QED
    BY <2>1
<1>3. /\ \A i \in 0 .. n : accs[i] \in Acc(D, V)
      /\ accs[0] = Empty(p)
      /\ \A i \in 1 .. n : accs[i] = EncodeRect(accs[i - 1], TRUE, f, rects[i])
  BY <1>2 DEF Encoding
<1> DEFINE P(i) == /\ Follows(accs[i], D, p, f)
                   /\ \A k \in 1 .. i : \A c \in CellsOf(rects[k]) : Settled(accs[i], f, c)
           S == {i \in Nat : i \in 0 .. n => P(i)}
<1>4. 0 \in S
  <2>1. Follows(Empty(p), D, p, f)
    <3>1. After(p, <<>>, f) = p
      BY AfterNothing
    <3>2. Message(<<>>, D) /\ Visible(<<>>) /\ Writes(<<>>)
      BY DEF Message, AllInside, Visible, Writes
    <3>3. DOMAIN <<>> = {}
      OBVIOUS
    <3> QED
      BY <3>1, <3>2, <3>3 DEF Follows, Empty
  <2>2. P(0)
    BY <1>3, <2>1
  <2> QED
    BY <2>2
<1>5. ASSUME NEW i \in Nat, i \in S
      PROVE  i + 1 \in S
  <2>1. CASE i + 1 \in 0 .. n
    <3> DEFINE r == rects[i + 1]
               a == accs[i]
               b == accs[i + 1]
    <3>1. i + 1 \in 1 .. n /\ i \in 0 .. n /\ (i + 1) - 1 = i /\ 1 .. i + 1 = (1 .. i) \cup {i + 1}
      BY <1>1, <2>1
    <3>2. P(i)
      BY <1>5, <3>1
    <3>3. b = EncodeRect(a, TRUE, f, r) /\ a \in Acc(D, V)
      BY <1>3, <3>1
    <3>4. r \in Box /\ (r.w > 0 /\ r.h > 0 => CellsOf(r) \subseteq D)
      BY <1>1, <3>1
    <3>5. Follows(a, D, p, f) /\ \A k \in 1 .. i : \A c \in CellsOf(rects[k]) : Settled(a, f, c)
      BY <3>2
    <3>6. \A k \in 1 .. i : CellsOf(rects[k]) \subseteq D
      <4>1. ASSUME NEW k \in 1 .. i
            PROVE  CellsOf(rects[k]) \subseteq D
        <5>1. k \in 1 .. n
          BY <1>1, <3>1
        <5>2. rects[k].w \in Int /\ rects[k].h \in Int
          BY <1>1, <5>1 DEF Box
        <5> QED
          BY <1>1, <5>1, <5>2, NoCellsIs DEF NoCells
      <4> QED
        BY <4>1
    <3> HIDE DEF P
    <3>7. CASE r.w > 0 /\ r.h > 0
      <4>1. /\ Follows(b, D, p, f)
            /\ \A c \in D : Settled(a, f, c) => Settled(b, f, c)
            /\ \A c \in CellsOf(r) : Settled(b, f, c)
        <5> HIDE DEF a, b, r
        <5>1. /\ Follows(EncodeRect(a, TRUE, f, r), D, p, f)
              /\ \A c \in D : Settled(a, f, c) => Settled(EncodeRect(a, TRUE, f, r), f, c)
              /\ \A c \in CellsOf(r) : Settled(EncodeRect(a, TRUE, f, r), f, c)
          BY <3>3, <3>4, <3>5, <3>7, FollowsStep
        <5> QED
          BY <3>3, <5>1
      <4>2. P(i + 1)
        BY <3>1, <3>5, <3>6, <4>1 DEF P
      <4> QED
        BY <4>2
    <3>8. CASE ~(r.w > 0 /\ r.h > 0)
      <4>1. r.w <= 0 \/ r.h <= 0
        <5>1. r.w \in Int /\ r.h \in Int
          BY <3>4 DEF Box
        <5> QED
          BY <3>8, <5>1
      <4>2. b = a
        BY <3>3, <4>1, EncodeRectIs
      <4>3. CellsOf(r) = {}
        BY <3>4, <4>1, NoCellsIs DEF NoCells
      <4>4. P(i + 1)
        BY <3>1, <3>5, <4>2, <4>3 DEF P
      <4> QED
        BY <4>4
    <3> QED
      BY <3>7, <3>8
  <2>2. CASE i + 1 \notin 0 .. n
    BY <2>2
  <2> QED
    BY <2>1, <2>2
<1>6. n \in S
  <2> HIDE DEF S
  <2> QED
    BY <1>1, <1>4, <1>5, Inductive
<1>7. P(n) /\ accs[n] \in Acc(D, V)
  BY <1>1, <1>3, <1>6
<1>8. \A c \in Covered(rects) : Settled(accs[n], f, c)
  BY <1>1, <1>7 DEF Covered
<1> QED
  BY <1>2, <1>7, <1>8

\* While it is not: everything that is asked for is written.
Overwrites(a, D, p) ==
  /\ a.shadow = p /\ a.copies = <<>>
  /\ Message(a.work, D) /\ Visible(a.work) /\ Writes(a.work)

\* A rectangle keeps that, and its pixels are written.
LEMMA OverwritesStep ==
  ASSUME NEW D, NEW V, NEW p, NEW f,
         NEW a \in Acc(D, V), Overwrites(a, D, p),
         NEW r \in Box, r.w > 0, r.h > 0, CellsOf(r) \subseteq D
  PROVE  LET b == EncodeRect(a, FALSE, f, r)
         IN  /\ Overwrites(b, D, p)
             /\ Covered(a.work) \subseteq Covered(b.work)
             /\ CellsOf(r) \subseteq Covered(b.work)
<1> DEFINE w == Write(r.x, r.y, r.w, r.h)
           one == <<w>>
           work == Append(a.work, w)
           b == EncodeRect(a, FALSE, f, r)
<1>1. r.w \in Int /\ r.h \in Int /\ r.x \in Int /\ r.y \in Int
  BY DEF Box
<1>2. b = [a EXCEPT !.work = work]
  <2>1. ~(r.w <= 0 \/ r.h <= 0)
    BY <1>1
  <2> QED
    BY <2>1, EncodeRectIs
<1>3. b.shadow = a.shadow /\ b.copies = a.copies /\ b.work = work
  <2> HIDE DEF b, work
  <2> QED
    BY <1>2 DEF Acc
<1>4. w \in Rectangle /\ w.kind = "write" /\ CellsOf(w) = CellsOf(r)
  BY <1>1 DEF Write, Rectangle, CellsOf
<1> HIDE DEF w
<1>5. CellsOf(r) # {}
  <2>1. <<r.x, r.y>> \in CellsOf(r)
    BY <1>1 DEF CellsOf
  <2> QED
    BY <2>1
<1>6. /\ one \in Seq(Rectangle) /\ DOMAIN one = {1} /\ one[1] = w
  BY <1>4
<1>7. Covered(one) = CellsOf(r)
  BY <1>4, <1>6 DEF Covered
<1>8. Visible(one) /\ Writes(one)
  BY <1>4, <1>5, <1>6 DEF Visible, Writes
<1>9. a.work \in Seq(Rectangle) /\ Message(a.work, D) /\ Visible(a.work) /\ Writes(a.work)
  BY DEF Overwrites, Message
<1>10. work = a.work \o one
  BY <1>4, <1>9
<1> HIDE DEF one, b, work
<1>11. Visible(work) /\ Writes(work)
  BY <1>6, <1>8, <1>9, <1>10, BothVisible
<1>12. /\ work \in Seq(Rectangle)
       /\ \A c : c \in Covered(work) <=> c \in Covered(a.work) \/ c \in CellsOf(r)
  BY <1>6, <1>7, <1>9, <1>10, CoveredBoth, Appended
<1>13. \A i \in DOMAIN work : CellsOf(work[i]) \subseteq D
  <2>1. Covered(a.work) \subseteq D
    BY <1>9 DEF Covered, Message, AllInside, Inside
  <2>2. Covered(work) \subseteq D
    BY <1>12, <2>1
  <2> QED
    BY <2>2 DEF Covered
<1>14. Message(work, D)
  BY <1>11, <1>12, <1>13 DEF Message, AllInside, Inside, Writes
<1>15. Overwrites(b, D, p)
  BY <1>3, <1>11, <1>14 DEF Overwrites
<1>16. Covered(a.work) \subseteq Covered(work) /\ CellsOf(r) \subseteq Covered(work)
  BY <1>12
<1> QED
  BY <1>3, <1>15, <1>16 DEF b

\* What an update sends to a viewer whose picture is not known.
LEMMA EncodedOverwrites ==
  ASSUME NEW D, NEW V, NEW p, NEW f, Canvas(D, V, p, f),
         NEW rects, Asks(rects, D)
  PROVE  LET e == encoded(p, FALSE, f, rects)
         IN  /\ e \in Acc(D, V) /\ Overwrites(e, D, p)
             /\ Covered(rects) \subseteq Covered(e.work)
<1> DEFINE n == Len(rects)
<1>1. /\ n \in Nat /\ DOMAIN rects = 1 .. n
      /\ \A i \in 1 .. n : /\ rects[i] \in Box
                           /\ rects[i].w > 0 /\ rects[i].h > 0 => CellsOf(rects[i]) \subseteq D
  BY DEF Asks
<1>2. PICK accs : /\ Encoding(accs, D, V, p, FALSE, f, rects)
                  /\ encoded(p, FALSE, f, rects) = accs[n]
  <2>1. \A v : \E accs : /\ Encoding(accs, D, V, p, v, f, rects)
                         /\ encoded(p, v, f, rects) = accs[n]
    BY EncodedIs
  <2> QED
    BY <2>1
<1>3. /\ \A i \in 0 .. n : accs[i] \in Acc(D, V)
      /\ accs[0] = Empty(p)
      /\ \A i \in 1 .. n : accs[i] = EncodeRect(accs[i - 1], FALSE, f, rects[i])
  BY <1>2 DEF Encoding
<1> DEFINE P(i) == /\ Overwrites(accs[i], D, p)
                   /\ \A k \in 1 .. i : CellsOf(rects[k]) \subseteq Covered(accs[i].work)
           S == {i \in Nat : i \in 0 .. n => P(i)}
<1>4. 0 \in S
  <2>1. Overwrites(Empty(p), D, p)
    <3>1. Message(<<>>, D) /\ Visible(<<>>) /\ Writes(<<>>)
      BY DEF Message, AllInside, Visible, Writes
    <3> QED
      BY <3>1 DEF Overwrites, Empty
  <2>2. P(0)
    BY <1>3, <2>1
  <2> QED
    BY <2>2
<1>5. ASSUME NEW i \in Nat, i \in S
      PROVE  i + 1 \in S
  <2>1. CASE i + 1 \in 0 .. n
    <3> DEFINE r == rects[i + 1]
               a == accs[i]
               b == accs[i + 1]
    <3>1. i + 1 \in 1 .. n /\ i \in 0 .. n /\ (i + 1) - 1 = i /\ 1 .. i + 1 = (1 .. i) \cup {i + 1}
      BY <1>1, <2>1
    <3>2. P(i)
      BY <1>5, <3>1
    <3>3. b = EncodeRect(a, FALSE, f, r) /\ a \in Acc(D, V)
      BY <1>3, <3>1
    <3>4. r \in Box /\ (r.w > 0 /\ r.h > 0 => CellsOf(r) \subseteq D)
      BY <1>1, <3>1
    <3>5. Overwrites(a, D, p) /\ \A k \in 1 .. i : CellsOf(rects[k]) \subseteq Covered(a.work)
      BY <3>2
    <3> HIDE DEF P
    <3>7. CASE r.w > 0 /\ r.h > 0
      <4>1. /\ Overwrites(b, D, p)
            /\ Covered(a.work) \subseteq Covered(b.work)
            /\ CellsOf(r) \subseteq Covered(b.work)
        <5> HIDE DEF a, b, r
        <5>1. /\ Overwrites(EncodeRect(a, FALSE, f, r), D, p)
              /\ Covered(a.work) \subseteq Covered(EncodeRect(a, FALSE, f, r).work)
              /\ CellsOf(r) \subseteq Covered(EncodeRect(a, FALSE, f, r).work)
          BY <3>3, <3>4, <3>5, <3>7, OverwritesStep
        <5> QED
          BY <3>3, <5>1
      <4>2. P(i + 1)
        BY <3>1, <3>5, <4>1 DEF P
      <4> QED
        BY <4>2
    <3>8. CASE ~(r.w > 0 /\ r.h > 0)
      <4>1. r.w <= 0 \/ r.h <= 0
        <5>1. r.w \in Int /\ r.h \in Int
          BY <3>4 DEF Box
        <5> QED
          BY <3>8, <5>1
      <4>2. b = a
        BY <3>3, <4>1, EncodeRectIs
      <4>3. CellsOf(r) = {}
        BY <3>4, <4>1, NoCellsIs DEF NoCells
      <4>4. P(i + 1)
        BY <3>1, <3>5, <4>2, <4>3 DEF P
      <4> QED
        BY <4>4
    <3> QED
      BY <3>7, <3>8
  <2>2. CASE i + 1 \notin 0 .. n
    BY <2>2
  <2> QED
    BY <2>1, <2>2
<1>6. n \in S
  <2> HIDE DEF S
  <2> QED
    BY <1>1, <1>4, <1>5, Inductive
<1>7. P(n) /\ accs[n] \in Acc(D, V)
  BY <1>1, <1>3, <1>6
<1>8. Covered(rects) \subseteq Covered(accs[n].work)
  BY <1>1, <1>7 DEF Covered
<1> QED
  BY <1>2, <1>7, <1>8

\* The picture after the copies and the writes.
LEMMA Finished ==
  ASSUME NEW D, NEW V, NEW p, NEW f, Canvas(D, V, p, f),
         NEW a, Message(a, D), NEW b, Message(b, D), Writes(b)
  PROVE  /\ Message(a \o b, D)
         /\ After(p, a \o b, f) = After(After(p, a, f), b, f)
         /\ After(p, a \o b, f) \in [D -> V]
         /\ \A c \in D : After(p, a \o b, f)[c] =
              IF c \in Covered(b) THEN f[c] ELSE After(p, a, f)[c]
<1> DEFINE q == After(p, a, f)
<1>1. /\ Message(a \o b, D) /\ After(p, a \o b, f) = After(q, b, f)
  BY AfterBoth
<1>2. q \in [D -> V]
  BY AfterType
<1> HIDE DEF q
<1>3. Canvas(D, V, q, f)
  BY <1>2 DEF Canvas
<1>4. After(q, b, f) \in [D -> V] /\ After(q, b, f) = Upto(q, b, f, Len(b))
  BY <1>3, AfterType, UptoIs
<1>5. Fresh(b, q, f)
  BY DEF Fresh, Writes
<1>6. \A i \in 0 .. Len(b) : \A c \in D : Upto(q, b, f, i)[c] =
        IF \E k \in 1 .. i : c \in CellsOf(b[k]) THEN f[c] ELSE q[c]
  BY <1>3, <1>5, AllDrawn
<1>7. Len(b) \in 0 .. Len(b) /\ DOMAIN b = 1 .. Len(b)
  BY DEF Message
<1>8. \A c \in D : After(q, b, f)[c] = IF c \in Covered(b) THEN f[c] ELSE q[c]
  BY <1>4, <1>6, <1>7 DEF Covered
<1> QED
  BY <1>1, <1>4, <1>8 DEF q

\* What is asked for is clipped to the picture.
LEMMA AskedIs ==
  ASSUME NEW f \in Frame, NEW list \in RectList
  PROVE  Asks(Asked(list, f), DOMAIN f)
<1> DEFINE W == WidthOf(f)
           H == HeightOf(f)
<1>1. W \in Nat /\ H \in Nat /\ DOMAIN f = (0 .. W - 1) \X (0 .. H - 1)
  BY FrameAssumption
<1> HIDE DEF W, H
<1>2. list \in Seq(Box)
  BY RectAssumption DEF Box
<1>3. ASSUME NEW r \in Box
      PROVE  /\ Clipped(r, f) \in Box
             /\ Clipped(r, f).w > 0 /\ Clipped(r, f).h > 0 =>
                  CellsOf(Clipped(r, f)) \subseteq DOMAIN f
  <2> DEFINE x == Upper(0, Lower(r.x, W))
             y == Upper(0, Lower(r.y, H))
             w == Lower(r.w, W - x)
             h == Lower(r.h, H - y)
  <2>1. r.x \in Int /\ r.y \in Int /\ r.w \in Int /\ r.h \in Int
    BY DEF Box
  <2>2. x \in Int /\ 0 <= x /\ y \in Int /\ 0 <= y
    BY <1>1, <2>1 DEF Lower, Upper
  <2>3. Clipped(r, f) = [x |-> x, y |-> y, w |-> w, h |-> h]
    BY DEF Clipped, W, H
  <2> HIDE DEF x, y
  <2>4. w \in Int /\ w <= W - x /\ h \in Int /\ h <= H - y
    BY <1>1, <2>1, <2>2 DEF Lower
  <2> HIDE DEF w, h
  <2>5. Clipped(r, f) \in Box
    BY <2>2, <2>3, <2>4 DEF Box
  <2>6. x .. x + w - 1 \subseteq 0 .. W - 1 /\ y .. y + h - 1 \subseteq 0 .. H - 1
    BY <1>1, <2>2, <2>4
  <2>7. CellsOf(Clipped(r, f)) \subseteq DOMAIN f
    <3>1. CellsOf(Clipped(r, f)) = (x .. x + w - 1) \X (y .. y + h - 1)
      BY <2>3 DEF CellsOf
    <3> QED
      BY <1>1, <2>6, <3>1
  <2> QED
    BY <2>5, <2>7
<1>4. Asked(list, f) \in Seq(Box) /\ DOMAIN Asked(list, f) = DOMAIN list
      /\ \A i \in DOMAIN list : list[i] \in Box /\ Asked(list, f)[i] = Clipped(list[i], f)
  <2>1. DOMAIN list = 1 .. Len(list) /\ Len(list) \in Nat /\ \A i \in DOMAIN list : list[i] \in Box
    BY <1>2
  <2> QED
    BY <1>3, <2>1 DEF Asked
<1> QED
  BY <1>3, <1>4 DEF Asks

-----------------------------------------------------------------------------
(* An update.                                                              *)

\* A function on D.
IsOn(p, D) == p = [c \in D |-> p[c]]

\* What is drawn on the viewer.
InTheFormat(f) == [c \in DOMAIN f |-> viewFormat[f[c]]]

\* The viewer draws in its format.
LEMMA ApplyIs ==
  ASSUME NEW v, NEW f, NEW m
  PROVE  Apply(v, f, m) = After(v, m, InTheFormat(f))
BY DEF Apply, InTheFormat

\* Any function on the picture can be drawn on.
LEMMA Canvases ==
  ASSUME NEW D, NEW p, IsOn(p, D), NEW f
  PROVE  \E V : Canvas(D, V, p, f)
<1> DEFINE V == {p[c] : c \in D} \cup {f[c] : c \in D}
<1>1. \A c \in D : p[c] \in V /\ f[c] \in V
  OBVIOUS
<1> HIDE DEF V
<1>2. p \in [D -> V]
  BY <1>1 DEF IsOn
<1> QED
  BY <1>1, <1>2 DEF Canvas

\* The update's message, and what the encoder makes of its shadow.
LEMMA Sent ==
  ASSUME NEW f \in Frame, NEW list \in RectList, NEW p, IsOn(p, DOMAIN f), NEW v, IsOn(v, DOMAIN f),
         NEW valid \in BOOLEAN
  PROVE  LET e == encoded(p, valid, f, Asked(list, f))
             m == e.copies \o e.work
         IN  /\ Message(m, DOMAIN f) /\ Visible(m)
             /\ IsOn(After(e.shadow, e.work, f), DOMAIN f)
             /\ IsOn(Apply(v, f, m), DOMAIN f)
<1> DEFINE D == DOMAIN f
           rects == Asked(list, f)
           e == encoded(p, valid, f, rects)
           m == e.copies \o e.work
           drawn == InTheFormat(f)
<1>1. Asks(rects, D)
  BY AskedIs
<1> HIDE DEF rects
<1>2. PICK V : Canvas(D, V, p, f)
  BY Canvases
<1>3. PICK W : Canvas(D, W, v, drawn)
  <2> HIDE DEF drawn
  <2> QED
    BY Canvases
<1>4. /\ Message(e.copies, D) /\ Visible(e.copies)
      /\ Message(e.work, D) /\ Visible(e.work) /\ Writes(e.work)
      /\ e.shadow = After(p, e.copies, f)
  <2>1. CASE valid
    <3>1. e = encoded(p, TRUE, f, rects)
      BY <2>1
    <3>2. Follows(encoded(p, TRUE, f, rects), D, p, f)
      BY <1>1, <1>2, EncodedFollows
    <3> HIDE DEF e
    <3> QED
      BY <3>1, <3>2 DEF Follows
  <2>2. CASE ~valid
    <3>1. e = encoded(p, FALSE, f, rects)
      BY <2>2
    <3>2. Overwrites(encoded(p, FALSE, f, rects), D, p)
      BY <1>1, <1>2, EncodedOverwrites
    <3> HIDE DEF e
    <3>3. Message(<<>>, D) /\ Visible(<<>>)
      BY DEF Message, AllInside, Visible
    <3>4. After(p, <<>>, f) = p
      BY <1>2, AfterNothing
    <3> QED
      BY <3>1, <3>2, <3>3, <3>4 DEF Overwrites
  <2> QED
    BY <2>1, <2>2
<1> HIDE DEF e
<1> DEFINE copies == e.copies
           work == e.work
<1>5. /\ Message(copies, D) /\ Visible(copies)
      /\ Message(work, D) /\ Visible(work) /\ Writes(work)
  BY <1>4
<1>6. e.shadow = After(p, copies, f) /\ m = copies \o work
  BY <1>4
<1> HIDE DEF copies, work, m
<1>7. Message(m, D) /\ Visible(m)
  <2>1. copies \in Seq(Rectangle) /\ work \in Seq(Rectangle)
    BY <1>5 DEF Message
  <2>2. Visible(copies \o work)
    BY <1>5, <2>1, BothVisible
  <2>3. Message(copies \o work, D)
    BY <1>2, <1>5, AfterBoth
  <2> QED
    BY <1>6, <2>2, <2>3
<1>8. IsOn(After(e.shadow, work, f), D)
  <2>1. After(p, copies, f) \in [D -> V]
    BY <1>2, <1>5, AfterType
  <2>2. Canvas(D, V, e.shadow, f)
    BY <1>2, <1>6, <2>1 DEF Canvas
  <2>3. After(e.shadow, work, f) \in [D -> V]
    BY <1>5, <2>2, AfterType
  <2> QED
    BY <2>3 DEF IsOn
<1>9. IsOn(Apply(v, f, m), D)
  <2>1. After(v, m, drawn) \in [D -> W]
    <3> HIDE DEF drawn
    <3> QED
      BY <1>3, <1>7, AfterType
  <2>2. Apply(v, f, m) \in [D -> W]
    BY <2>1, ApplyIs
  <2> QED
    BY <2>2 DEF IsOn
<1> QED
  BY <1>7, <1>8, <1>9 DEF e, m, work, rects

\* What a viewer at v, whose picture is p, gets to see.
Follow(e, p, v, f, rects, lost) ==
  LET m == e.copies \o e.work
      s == After(e.shadow, e.work, f)
  IN  /\ \A c \in DOMAIN f : Meets(Apply(v, f, m)[c], viewFormat[s[c]], lost)
      /\ \A c \in DOMAIN f : s[c] \in {p[c], f[c]}
      /\ \A c \in Covered(rects) : c \in DOMAIN f => s[c] = f[c]
      /\ \A i \in DOMAIN m : m[i].kind = "copy" => \A c \in CellsOf(m[i]) :
           Meets(Apply(v, f, SubSeq(m, 1, i))[c], viewFormat[f[c]], lost)
      /\ (\A c \in DOMAIN f : p[c] = f[c]) => m = <<>>

\* A viewer whose picture is known.
LEMMA KnownUpdate ==
  ASSUME NEW f \in Frame, NEW list \in RectList, NEW p, IsOn(p, DOMAIN f), NEW v, IsOn(v, DOMAIN f),
         NEW lost, \A c \in DOMAIN f : Meets(v[c], viewFormat[p[c]], lost)
  PROVE  Follow(encoded(p, TRUE, f, Asked(list, f)), p, v, f, Asked(list, f), lost)
<1> DEFINE D == DOMAIN f
           rects == Asked(list, f)
           e == encoded(p, TRUE, f, rects)
           m == e.copies \o e.work
           s == After(e.shadow, e.work, f)
           drawn == InTheFormat(f)
<1>1. Asks(rects, D)
  BY AskedIs
<1> HIDE DEF rects
<1>2. PICK V : Canvas(D, V, p, f)
  BY Canvases
<1>3. \A c \in D : drawn[c] = viewFormat[f[c]]
  BY DEF InTheFormat
<1> HIDE DEF drawn
<1>4. PICK W : Canvas(D, W, v, drawn)
  BY Canvases
<1>5. Follows(e, D, p, f) /\ \A c \in Covered(rects) : Settled(e, f, c)
  BY <1>1, <1>2, EncodedFollows
<1> HIDE DEF e
<1> DEFINE copies == e.copies
           work == e.work
<1>6. /\ Message(copies, D) /\ Message(work, D) /\ Writes(work)
      /\ e.shadow = After(p, copies, f)
      /\ \A c \in D : e.shadow[c] \in {p[c], f[c]}
      /\ \A j \in DOMAIN copies : \A c \in CellsOf(copies[j]) : Upto(p, copies, f, j)[c] = f[c]
      /\ (\A c \in D : p[c] = f[c]) => copies = <<>> /\ work = <<>>
  BY <1>5 DEF Follows
<1>7. m = copies \o work /\ s = After(e.shadow, work, f)
      /\ \A c \in Covered(rects) : e.shadow[c] = f[c] \/ c \in Covered(work)
  BY <1>5 DEF Settled
<1> HIDE DEF copies, work, m, s
<1>8. /\ Message(m, D) /\ After(p, m, f) = s
      /\ \A c \in D : s[c] = IF c \in Covered(work) THEN f[c] ELSE e.shadow[c]
  <2>1. /\ Message(copies \o work, D)
        /\ After(p, copies \o work, f) = After(After(p, copies, f), work, f)
        /\ \A c \in D : After(p, copies \o work, f)[c] =
              IF c \in Covered(work) THEN f[c] ELSE After(p, copies, f)[c]
    BY <1>2, <1>6, Finished
  <2> QED
    BY <1>6, <1>7, <2>1
<1>9. \A i \in 0 .. Len(m) : \A c \in D :
        Meets(Upto(v, m, drawn, i)[c], viewFormat[Upto(p, m, f, i)[c]], lost)
  BY <1>2, <1>3, <1>4, <1>8, InFormat
<1>10. Upto(v, m, drawn, Len(m)) = After(v, m, drawn) /\ Upto(p, m, f, Len(m)) = s
  BY <1>2, <1>4, <1>8, UptoIs
<1>11. Len(m) \in 0 .. Len(m) /\ DOMAIN m = 1 .. Len(m)
  BY <1>8 DEF Message
<1>12. \A c \in D : Meets(Apply(v, f, m)[c], viewFormat[s[c]], lost)
  BY <1>9, <1>10, <1>11, ApplyIs DEF drawn
<1>13. \A c \in D : s[c] \in {p[c], f[c]}
  BY <1>6, <1>8
<1>14. \A c \in Covered(rects) : c \in D => s[c] = f[c]
  BY <1>7, <1>8
<1>15. ASSUME NEW i \in DOMAIN m, m[i].kind = "copy", NEW c \in CellsOf(m[i])
       PROVE  Meets(Apply(v, f, SubSeq(m, 1, i))[c], viewFormat[f[c]], lost)
  <2>1. copies \in Seq(Rectangle) /\ work \in Seq(Rectangle)
    BY <1>6 DEF Message
  <2>2. i \in DOMAIN copies /\ m[i] = copies[i]
    <3>1. CASE i \in DOMAIN copies
      BY <1>7, <2>1, <3>1, Appended
    <3>2. CASE \E j \in DOMAIN work : i = Len(copies) + j
      <4>1. PICK j \in DOMAIN work : i = Len(copies) + j
        BY <3>2
      <4>2. m[i] = work[j]
        BY <1>7, <2>1, <4>1, Appended
      <4>3. m[i].kind = "write"
        BY <1>6, <4>2 DEF Writes
      <4> QED
        BY <1>15, <4>3
    <3> QED
      BY <1>7, <2>1, <3>1, <3>2, Appended
  <2>3. i \in 0 .. Len(copies) /\ i \in 0 .. Len(m)
    BY <1>11, <2>1, <2>2
  <2>4. Upto(p, m, f, i) = Upto(p, copies, f, i)
    <3>1. \A k \in 0 .. Len(copies) : Upto(p, copies \o work, f, k) = Upto(p, copies, f, k)
      BY <1>2, <1>6, AfterBoth
    <3> QED
      BY <1>7, <2>3, <3>1
  <2>5. c \in D
    BY <1>8, <1>15 DEF Message, AllInside, Inside
  <2>6. Upto(p, m, f, i)[c] = f[c]
    BY <1>6, <1>15, <2>2, <2>4
  <2>7. Meets(Upto(v, m, drawn, i)[c], viewFormat[f[c]], lost)
    BY <1>9, <2>3, <2>5, <2>6
  <2>8. Apply(v, f, SubSeq(m, 1, i)) = Upto(v, m, drawn, i)
    BY ApplyIs DEF Upto, drawn
  <2> QED
    BY <2>7, <2>8
<1>16. (\A c \in D : p[c] = f[c]) => m = <<>>
  BY <1>6, <1>7
<1> QED
  BY <1>12, <1>13, <1>14, <1>15, <1>16 DEF Follow, e, m, s, work, copies, rects

\* What a viewer at v, whose picture is not known, gets to see.
Rewrite(e, p, v, f, rects) ==
  LET m == e.copies \o e.work
      s == After(e.shadow, e.work, f)
  IN  /\ \A c \in DOMAIN f :
           \/ s[c] = p[c] /\ Apply(v, f, m)[c] = v[c]
           \/ s[c] = f[c] /\ Apply(v, f, m)[c] = viewFormat[f[c]]
      /\ \A c \in Covered(rects) : c \in DOMAIN f =>
           s[c] = f[c] /\ Apply(v, f, m)[c] = viewFormat[f[c]]
      /\ \A i \in DOMAIN m : m[i].kind # "copy"

\* A viewer whose picture is not.
LEMMA UnknownUpdate ==
  ASSUME NEW f \in Frame, NEW list \in RectList, NEW p, IsOn(p, DOMAIN f), NEW v, IsOn(v, DOMAIN f)
  PROVE  Rewrite(encoded(p, FALSE, f, Asked(list, f)), p, v, f, Asked(list, f))
<1> DEFINE D == DOMAIN f
           rects == Asked(list, f)
           e == encoded(p, FALSE, f, rects)
           m == e.copies \o e.work
           s == After(e.shadow, e.work, f)
           drawn == InTheFormat(f)
<1>1. Asks(rects, D)
  BY AskedIs
<1> HIDE DEF rects
<1>2. PICK V : Canvas(D, V, p, f)
  BY Canvases
<1>3. \A c \in D : drawn[c] = viewFormat[f[c]]
  BY DEF InTheFormat
<1> HIDE DEF drawn
<1>4. PICK W : Canvas(D, W, v, drawn)
  BY Canvases
<1>5. Overwrites(e, D, p) /\ Covered(rects) \subseteq Covered(e.work)
  BY <1>1, <1>2, EncodedOverwrites
<1> HIDE DEF e
<1> DEFINE work == e.work
<1>6. /\ e.shadow = p /\ e.copies = <<>> /\ Message(work, D) /\ Writes(work)
      /\ Covered(rects) \subseteq Covered(work)
  BY <1>5 DEF Overwrites
<1>7. m = <<>> \o work /\ s = After(p, work, f) /\ work \in Seq(Rectangle)
  BY <1>6 DEF Message
<1> HIDE DEF work, m, s
<1>8. m = work
  BY <1>7
<1>9. /\ Message(<<>>, D) /\ <<>> \o work = work
      /\ After(p, <<>>, f) = p /\ After(v, <<>>, drawn) = v
  <2>1. Message(<<>>, D)
    BY DEF Message, AllInside
  <2>2. After(p, <<>>, f) = p /\ After(v, <<>>, drawn) = v
    BY <1>2, <1>4, AfterNothing
  <2> QED
    BY <1>7, <2>1, <2>2
<1>10. \A c \in D : After(p, work, f)[c] = IF c \in Covered(work) THEN f[c] ELSE p[c]
  <2>1. \A c \in D : After(p, <<>> \o work, f)[c] =
            IF c \in Covered(work) THEN f[c] ELSE After(p, <<>>, f)[c]
    BY <1>2, <1>6, <1>9, Finished
  <2> QED
    BY <1>9, <2>1
<1>11. \A c \in D : After(v, work, drawn)[c] = IF c \in Covered(work) THEN drawn[c] ELSE v[c]
  <2>1. \A c \in D : After(v, <<>> \o work, drawn)[c] =
            IF c \in Covered(work) THEN drawn[c] ELSE After(v, <<>>, drawn)[c]
    BY <1>4, <1>6, <1>9, Finished
  <2> QED
    BY <1>9, <2>1
<1>12. Apply(v, f, m) = After(v, work, drawn)
  BY <1>8, ApplyIs DEF drawn
<1>13. \A c \in D :
         \/ s[c] = p[c] /\ Apply(v, f, m)[c] = v[c]
         \/ s[c] = f[c] /\ Apply(v, f, m)[c] = viewFormat[f[c]]
  BY <1>3, <1>7, <1>10, <1>11, <1>12
<1>14. \A c \in Covered(rects) : c \in D => s[c] = f[c] /\ Apply(v, f, m)[c] = viewFormat[f[c]]
  BY <1>3, <1>6, <1>7, <1>10, <1>11, <1>12
<1>15. \A i \in DOMAIN m : m[i].kind # "copy"
  BY <1>6, <1>8 DEF Writes
<1> QED
  BY <1>13, <1>14, <1>15 DEF Rewrite, e, m, s, rects

-----------------------------------------------------------------------------
(* The invariant.                                                          *)

EncoderShape ==
  /\ EncoderTypeOK
  /\ IsOn(shadow, DOMAIN fb) /\ IsOn(shown, DOMAIN fb)

\* The shadow is what the viewer shows, or the viewer was never told; and what was
\* asked for is on it.
ShadowKnown ==
  /\ \A c \in DOMAIN fb : Meets(shown[c], viewFormat[shadow[c]], ~shadow_valid \/ skipped)
  /\ \A c \in DOMAIN fb \ missing : shadow[c] = fb[c]
  /\ skipped => shadow_valid

EncoderInv == EncoderShape /\ ViewerCurrent /\ ShadowKnown

\* The names rd_encoder_encode gives to what it starts from.
Same(f) == DOMAIN f = DOMAIN shadow
Before(f) == IF Same(f) THEN shown ELSE [c \in DOMAIN f |-> Unknown]
Known(f) == IF Same(f) THEN shadow ELSE [c \in DOMAIN f |-> Zero]
Valid(f) == Same(f) /\ shadow_valid
Changed(f) == IF Same(f) THEN {c \in DOMAIN f : f[c] # fb[c]} ELSE DOMAIN f
Kept(f) == IF Same(f) THEN missing ELSE {}
IsFull(f, list) == Area(Asked(list, f)) >= Cardinality(DOMAIN f)
Result(f, list) == encoded(Known(f), Valid(f), f, Asked(list, f))
Sending(f, list) == Result(f, list).copies \o Result(f, list).work

\* The handler in these names.
LEMMA EncodeIs ==
  ASSUME NEW f, NEW list, rd_encoder_encode(f, list)
  PROVE  /\ skipped' = IF Valid(f) THEN skipped
                         ELSE IsFull(f, list) /\ Covered(Asked(list, f)) # DOMAIN f
         /\ message' = Sending(f, list)
         /\ shadow' = After(Result(f, list).shadow, Result(f, list).work, f)
         /\ fb' = f
         /\ shown' = Apply(Before(f), f, Sending(f, list))
         /\ shadow_valid' = (Valid(f) \/ IsFull(f, list))
         /\ missing' = (Kept(f) \cup Changed(f)) \ Covered(Asked(list, f))
         /\ viewFormat' = viewFormat /\ copy_rect' = copy_rect
<1>1. /\ fb' = f /\ viewFormat' = viewFormat /\ copy_rect' = copy_rect
      /\ missing' = (Kept(f) \cup Changed(f)) \ Covered(Asked(list, f))
      /\ shadow_valid' = (Valid(f) \/ IsFull(f, list))
  BY DEF rd_encoder_encode, Same, Valid, Changed, Kept, IsFull
<1>2. skipped' = IF Valid(f) THEN skipped
                 ELSE IsFull(f, list) /\ Covered(Asked(list, f)) # DOMAIN f
  BY DEF rd_encoder_encode, Same, Valid, IsFull
<1>3. /\ message' = Sending(f, list)
      /\ shadow' = After(Result(f, list).shadow, Result(f, list).work, f)
  BY DEF rd_encoder_encode, Same, Known, Valid, Result, Sending
<1>4. shown' = Apply(Before(f), f, message')
  BY DEF rd_encoder_encode, Same, Before
<1> QED
  BY <1>1, <1>2, <1>3, <1>4

\* It starts from pictures of the size of the screen.
LEMMA StartIs ==
  ASSUME EncoderShape, NEW f \in Frame
  PROVE  /\ IsOn(Before(f), DOMAIN f) /\ IsOn(Known(f), DOMAIN f)
         /\ Valid(f) \in BOOLEAN
<1>1. /\ IsOn([c \in DOMAIN f |-> Unknown], DOMAIN f)
      /\ IsOn([c \in DOMAIN f |-> Zero], DOMAIN f)
  BY DEF IsOn
<1>2. Same(f) => DOMAIN f = DOMAIN fb
  BY DEF Same, EncoderShape, EncoderTypeOK
<1> QED
  BY <1>1, <1>2 DEF EncoderShape, EncoderTypeOK, Before, Known, Valid, Same

\* An update keeps the shape.
LEMMA EncodeShape ==
  ASSUME EncoderShape, NEW f \in Frame, NEW list \in RectList, rd_encoder_encode(f, list)
  PROVE  EncoderShape'
<1> DEFINE m == Sending(f, list)
<1>1. IsOn(Before(f), DOMAIN f) /\ IsOn(Known(f), DOMAIN f) /\ Valid(f) \in BOOLEAN
  BY StartIs
<1>2. /\ Message(m, DOMAIN f) /\ Visible(m)
      /\ IsOn(After(Result(f, list).shadow, Result(f, list).work, f), DOMAIN f)
      /\ IsOn(Apply(Before(f), f, m), DOMAIN f)
  BY <1>1, Sent DEF Result, Sending
<1>3. /\ message' = m /\ fb' = f
      /\ shadow' = After(Result(f, list).shadow, Result(f, list).work, f)
      /\ shown' = Apply(Before(f), f, m)
      /\ shadow_valid' = (Valid(f) \/ IsFull(f, list))
      /\ missing' = (Kept(f) \cup Changed(f)) \ Covered(Asked(list, f))
      /\ viewFormat' = viewFormat /\ copy_rect' = copy_rect
      /\ skipped' = IF Valid(f) THEN skipped
                    ELSE IsFull(f, list) /\ Covered(Asked(list, f)) # DOMAIN f
  BY EncodeIs
<1> HIDE DEF m
<1>4. IsOn(shadow', DOMAIN fb') /\ IsOn(shown', DOMAIN fb')
  BY <1>2, <1>3
<1>5. DOMAIN shadow' = DOMAIN fb' /\ DOMAIN shown' = DOMAIN fb'
  BY <1>4 DEF IsOn
<1>6. missing' \subseteq DOMAIN fb'
  BY <1>3 DEF EncoderShape, EncoderTypeOK, Kept, Changed, Same
<1>7. \A i \in DOMAIN message' : CellsOf(message'[i]) \in (SUBSET DOMAIN fb') \ {{}}
  BY <1>2, <1>3 DEF Message, AllInside, Inside, Visible
<1>8. /\ fb' \in Frame /\ shadow_valid' \in BOOLEAN /\ copy_rect' \in BOOLEAN
      /\ viewFormat' \in ViewFormat
  <2>1. copy_rect' \in BOOLEAN /\ viewFormat' \in ViewFormat /\ fb' \in Frame
    BY <1>3 DEF EncoderShape, EncoderTypeOK
  <2>2. (Valid(f) \/ IsFull(f, list)) \in BOOLEAN
    OBVIOUS
  <2> QED
    BY <1>3, <2>1, <2>2
<1>9. skipped' \in BOOLEAN
  BY <1>3 DEF EncoderShape, EncoderTypeOK
<1> QED
  BY <1>4, <1>5, <1>6, <1>7, <1>8, <1>9 DEF EncoderShape, EncoderTypeOK

\* So do the handlers that send nothing.
LEMMA QuietShape ==
  ASSUME EncoderShape
  PROVE  /\ Forget /\ viewFormat' \in ViewFormat /\ copy_rect' = copy_rect => EncoderShape'
         /\ \A copy \in BOOLEAN : rd_encoder_set_encodings(copy) => EncoderShape'
<1>1. ASSUME Forget, viewFormat' \in ViewFormat, copy_rect' = copy_rect
      PROVE  EncoderShape'
  <2>1. /\ fb' = fb /\ shadow' = shadow /\ message' = <<>> /\ missing' = DOMAIN fb
        /\ shadow_valid' = FALSE /\ shown' = [c \in DOMAIN shown |-> Unknown]
        /\ skipped' = FALSE
    BY <1>1 DEF Forget
  <2>2. DOMAIN shown = DOMAIN fb
    BY DEF EncoderShape, EncoderTypeOK
  <2>3. DOMAIN shown' = DOMAIN fb /\ IsOn(shown', DOMAIN fb)
    BY <2>1, <2>2 DEF IsOn
  <2>4. \A i \in DOMAIN message' : CellsOf(message'[i]) \in (SUBSET DOMAIN fb') \ {{}}
    BY <2>1
  <2> QED
    BY <1>1, <2>1, <2>3, <2>4 DEF EncoderShape, EncoderTypeOK
<1>2. ASSUME NEW copy \in BOOLEAN, rd_encoder_set_encodings(copy)
      PROVE  EncoderShape'
  <2>1. /\ fb' = fb /\ shadow' = shadow /\ shown' = shown /\ missing' = missing
        /\ shadow_valid' = shadow_valid /\ viewFormat' = viewFormat
        /\ copy_rect' \in BOOLEAN /\ message' = <<>> /\ skipped' = skipped
    BY <1>2 DEF rd_encoder_set_encodings
  <2>2. \A i \in DOMAIN message' : CellsOf(message'[i]) \in (SUBSET DOMAIN fb') \ {{}}
    BY <2>1
  <2> QED
    BY <2>1, <2>2 DEF EncoderShape, EncoderTypeOK
<1> QED
  BY <1>1, <1>2

\* The shape holds at first,
LEMMA InitShape == ViewerInit => EncoderShape
<1> SUFFICES ASSUME ViewerInit
             PROVE  EncoderShape
  OBVIOUS
<1>1. IsOn(shadow, DOMAIN fb) /\ IsOn(shown, DOMAIN fb)
  BY DEF ViewerInit, IsOn
<1>2. DOMAIN shadow = DOMAIN fb /\ DOMAIN shown = DOMAIN fb
  BY DEF ViewerInit
<1>3. \A i \in DOMAIN message : CellsOf(message[i]) \in (SUBSET DOMAIN fb) \ {{}}
  BY DEF ViewerInit
<1> QED
  BY <1>1, <1>2, <1>3 DEF ViewerInit, EncoderShape, EncoderTypeOK

\* and a step keeps it.
LEMMA StepShape == EncoderShape /\ [ViewerNext]_viewerVars => EncoderShape'
<1> SUFFICES ASSUME EncoderShape, [ViewerNext]_viewerVars
             PROVE  EncoderShape'
  OBVIOUS
<1>1. ASSUME NEW f \in Frame, NEW list \in RectList, rd_encoder_encode(f, list)
      PROVE  EncoderShape'
  BY <1>1, EncodeShape
<1>2. ASSUME NEW f \in ViewFormat, rd_encoder_set_format(f)
      PROVE  EncoderShape'
  BY <1>2, QuietShape DEF rd_encoder_set_format
<1>3. ASSUME NEW copy \in BOOLEAN, rd_encoder_set_encodings(copy)
      PROVE  EncoderShape'
  BY <1>3, QuietShape
<1>4. ASSUME rd_encoder_invalidate
      PROVE  EncoderShape'
  <2>1. viewFormat' \in ViewFormat /\ copy_rect' = copy_rect /\ Forget
    BY <1>4 DEF rd_encoder_invalidate, EncoderShape, EncoderTypeOK
  <2> QED
    BY <2>1, QuietShape
<1>5. ASSUME UNCHANGED viewerVars
      PROVE  EncoderShape'
  BY <1>5 DEF viewerVars, EncoderShape, EncoderTypeOK, IsOn
<1> QED
  BY <1>1, <1>2, <1>3, <1>4, <1>5 DEF ViewerNext

\* The encoder's state is well formed: the shadow and the viewer have the
\* screen's size, and every rectangle of a message has pixels, all of them on
\* the screen (rd_encoder_encode, for any rectangles it is asked for).
THEOREM ViewerTypeCorrect == ViewerSpec => []EncoderTypeOK
<1>1. EncoderShape => EncoderTypeOK
  BY DEF EncoderShape
<1> QED
  BY <1>1, InitShape, StepShape, PTL DEF ViewerSpec

\* An update.
LEMMA EncodeInv ==
  ASSUME EncoderInv, NEW f \in Frame, NEW list \in RectList, rd_encoder_encode(f, list)
  PROVE  EncoderInv' /\ CopyIsFinal /\ QuietIsFree
<1> DEFINE m == Sending(f, list)
           s == After(Result(f, list).shadow, Result(f, list).work, f)
           u == Apply(Before(f), f, m)
           rects == Asked(list, f)
<1>1. /\ EncoderShape /\ ViewerCurrent /\ ShadowKnown
      /\ DOMAIN shadow = DOMAIN fb /\ missing \subseteq DOMAIN fb
  BY DEF EncoderInv, EncoderShape, EncoderTypeOK
<1>2. IsOn(Before(f), DOMAIN f) /\ IsOn(Known(f), DOMAIN f) /\ Valid(f) \in BOOLEAN
  BY <1>1, StartIs
<1>3. /\ skipped' = IF Valid(f) THEN skipped ELSE IsFull(f, list) /\ Covered(rects) # DOMAIN f
      /\ message' = m /\ fb' = f /\ shadow' = s /\ shown' = u
      /\ shadow_valid' = (Valid(f) \/ IsFull(f, list))
      /\ missing' = (Kept(f) \cup Changed(f)) \ Covered(rects)
      /\ viewFormat' = viewFormat
  BY EncodeIs
<1>4. EncoderShape'
  BY <1>1, EncodeShape
<1>5. \A c \in DOMAIN f : c \notin missing' =>
        c \in Covered(rects) \/ (Same(f) /\ c \notin missing /\ f[c] = fb[c])
  BY <1>3 DEF Kept, Changed
<1>6. CASE Valid(f)
  <2>1. /\ Same(f) /\ shadow_valid /\ Before(f) = shown /\ Known(f) = shadow
        /\ DOMAIN f = DOMAIN fb
    BY <1>1, <1>6 DEF Valid, Before, Known, Same
  <2>2. /\ \A c \in DOMAIN f : Meets(shown[c], viewFormat[shadow[c]], skipped)
        /\ \A c \in DOMAIN f : c \notin missing => shadow[c] = fb[c]
    BY <1>1, <2>1 DEF ShadowKnown, Meets
  <2>3. /\ \A c \in DOMAIN f : Meets(u[c], viewFormat[s[c]], skipped)
        /\ \A c \in DOMAIN f : s[c] \in {shadow[c], f[c]}
        /\ \A c \in Covered(rects) : c \in DOMAIN f => s[c] = f[c]
        /\ \A i \in DOMAIN m : m[i].kind = "copy" => \A c \in CellsOf(m[i]) :
             Meets(Apply(shown, f, SubSeq(m, 1, i))[c], viewFormat[f[c]], skipped)
        /\ (\A c \in DOMAIN f : shadow[c] = f[c]) => m = <<>>
    <3>1. Result(f, list) = encoded(shadow, TRUE, f, Asked(list, f))
      BY <1>6, <2>1 DEF Result
    <3>2. IsOn(shadow, DOMAIN f) /\ IsOn(shown, DOMAIN f)
      BY <1>2, <2>1
    <3>3. Follow(Result(f, list), shadow, shown, f, rects, skipped)
      BY <2>2, <3>1, <3>2, KnownUpdate
    <3> QED
      BY <2>1, <3>3 DEF Follow, Sending
  <2> HIDE DEF m, s, u, rects
  <2>4. \A c \in DOMAIN f : c \notin missing' => s[c] = f[c]
    BY <1>5, <2>2, <2>3
  <2>5. skipped' = skipped /\ shadow_valid'
    BY <1>3, <1>6
  <2>6. ViewerCurrent'
    BY <1>3, <2>3, <2>4, <2>5 DEF ViewerCurrent, Untold, Meets
  <2>7. ShadowKnown'
    BY <1>3, <2>3, <2>4, <2>5 DEF ShadowKnown, Meets
  <2>8. CopyIsFinal
    BY <1>3, <2>3 DEF CopyIsFinal, Untold, Meets
  <2>9. QuietIsFree
    <3> SUFFICES ASSUME fb' = fb, missing = {}
                 PROVE  message' = <<>>
      BY DEF QuietIsFree
    <3>1. \A c \in DOMAIN f : shadow[c] = f[c]
      BY <1>3, <2>2
    <3> QED
      BY <1>3, <2>3, <3>1
  <2> QED
    BY <1>4, <2>6, <2>7, <2>8, <2>9 DEF EncoderInv
<1>7. CASE ~Valid(f)
  <2>1. /\ \A c \in DOMAIN f :
             \/ s[c] = Known(f)[c] /\ u[c] = Before(f)[c]
             \/ s[c] = f[c] /\ u[c] = viewFormat[f[c]]
        /\ \A c \in Covered(rects) : c \in DOMAIN f => s[c] = f[c] /\ u[c] = viewFormat[f[c]]
        /\ \A i \in DOMAIN m : m[i].kind # "copy"
    <3>1. Result(f, list) = encoded(Known(f), FALSE, f, Asked(list, f))
      BY <1>2, <1>7 DEF Result
    <3>2. Rewrite(Result(f, list), Known(f), Before(f), f, rects)
      BY <1>2, <3>1, UnknownUpdate
    <3> QED
      BY <3>2 DEF Rewrite, Sending
  <2> HIDE DEF m, s, u, rects
  <2>2. ASSUME NEW c \in DOMAIN f, c \notin missing'
        PROVE  u[c] = viewFormat[f[c]] /\ s[c] = f[c]
    <3>1. CASE c \in Covered(rects)
      BY <2>1, <3>1
    <3>2. CASE Same(f) /\ c \notin missing /\ f[c] = fb[c]
      <4>1. Before(f) = shown /\ Known(f) = shadow /\ c \in DOMAIN fb /\ ~skipped
        BY <1>1, <1>7, <3>2 DEF Before, Known, Same, Valid, ShadowKnown
      <4>2. shown[c] = viewFormat[fb[c]] /\ shadow[c] = fb[c]
        BY <1>1, <3>2, <4>1 DEF ViewerCurrent, ShadowKnown, Untold
      <4> QED
        BY <2>1, <3>2, <4>1, <4>2
    <3> QED
      BY <1>5, <2>2, <3>1, <3>2
  <2>3. ViewerCurrent'
    BY <1>3, <2>2 DEF ViewerCurrent
  <2>4. ShadowKnown'
    <3>1. /\ shadow_valid' = IsFull(f, list)
          /\ skipped' = (IsFull(f, list) /\ Covered(rects) # DOMAIN f)
      BY <1>3, <1>7 DEF IsFull
    <3>2. \A c \in DOMAIN f : u[c] = viewFormat[s[c]] \/ u[c] = Unknown
      <4>1. ASSUME Same(f), NEW c \in DOMAIN f
            PROVE  Before(f)[c] = viewFormat[Known(f)[c]] \/ Before(f)[c] = Unknown
        <5>1. Before(f) = shown /\ Known(f) = shadow /\ c \in DOMAIN fb
          BY <1>1, <4>1 DEF Before, Known, Same
        <5> QED
          BY <1>1, <5>1 DEF ShadowKnown, Meets
      <4>2. ~Same(f) => \A c \in DOMAIN f : Before(f)[c] = Unknown
        BY DEF Before
      <4> QED
        BY <2>1, <4>1, <4>2
    <3>3. shadow_valid' /\ ~skipped' => \A c \in DOMAIN f : u[c] = viewFormat[s[c]]
      BY <2>1, <3>1
    <3> QED
      BY <1>3, <2>2, <3>1, <3>2, <3>3 DEF ShadowKnown, Meets
  <2>5. CopyIsFinal
    BY <1>3, <2>1 DEF CopyIsFinal
  <2>6. QuietIsFree
    <3> SUFFICES ASSUME shadow_valid, fb' = fb
                 PROVE  FALSE
      BY DEF QuietIsFree
    <3>1. Same(f)
      BY <1>1, <1>3 DEF Same
    <3> QED
      BY <1>7, <3>1 DEF Valid
  <2> QED
    BY <1>4, <2>3, <2>4, <2>5, <2>6 DEF EncoderInv
<1> QED
  BY <1>6, <1>7

\* The handlers that send nothing keep what is known.
LEMMA QuietInv ==
  ASSUME EncoderInv
  PROVE  /\ Forget => ViewerCurrent' /\ ShadowKnown' /\ CopyIsFinal /\ QuietIsFree
         /\ \A copy \in BOOLEAN : rd_encoder_set_encodings(copy) =>
              ViewerCurrent' /\ ShadowKnown' /\ CopyIsFinal /\ QuietIsFree
<1>1. message' = <<>> => CopyIsFinal /\ QuietIsFree
  BY DEF CopyIsFinal, QuietIsFree
<1>2. ASSUME Forget
      PROVE  ViewerCurrent' /\ ShadowKnown' /\ message' = <<>>
  <2>1. /\ fb' = fb /\ missing' = DOMAIN fb /\ shadow_valid' = FALSE /\ skipped' = FALSE
        /\ shown' = [c \in DOMAIN shown |-> Unknown] /\ DOMAIN shown = DOMAIN fb
        /\ message' = <<>>
    BY <1>2 DEF Forget, EncoderInv, EncoderShape, EncoderTypeOK
  <2> QED
    BY <2>1 DEF ViewerCurrent, ShadowKnown, Meets
<1>3. ASSUME NEW copy \in BOOLEAN, rd_encoder_set_encodings(copy)
      PROVE  ViewerCurrent' /\ ShadowKnown' /\ message' = <<>>
  <2>1. /\ fb' = fb /\ shadow' = shadow /\ shown' = shown /\ missing' = missing
        /\ shadow_valid' = shadow_valid /\ viewFormat' = viewFormat /\ message' = <<>>
        /\ skipped' = skipped
    BY <1>3 DEF rd_encoder_set_encodings
  <2> QED
    BY <2>1 DEF EncoderInv, ViewerCurrent, ShadowKnown, Untold, Meets
<1> QED
  BY <1>1, <1>2, <1>3

\* The invariant holds at first,
LEMMA InitInv == ViewerInit => EncoderInv
<1> SUFFICES ASSUME ViewerInit
             PROVE  EncoderInv
  OBVIOUS
<1>1. ViewerCurrent /\ ShadowKnown
  BY DEF ViewerInit, ViewerCurrent, ShadowKnown, Meets
<1> QED
  BY <1>1, InitShape DEF EncoderInv

\* and a step keeps it.
LEMMA StepInv ==
  ASSUME EncoderInv, [ViewerNext]_viewerVars
  PROVE  EncoderInv' /\ (ViewerNext => CopyIsFinal /\ QuietIsFree)
<1>1. EncoderShape'
  BY StepShape DEF EncoderInv
<1>2. ASSUME NEW f \in Frame, NEW list \in RectList, rd_encoder_encode(f, list)
      PROVE  EncoderInv' /\ CopyIsFinal /\ QuietIsFree
  BY <1>2, EncodeInv
<1>3. ASSUME NEW f \in ViewFormat, rd_encoder_set_format(f)
      PROVE  EncoderInv' /\ CopyIsFinal /\ QuietIsFree
  BY <1>1, <1>3, QuietInv DEF rd_encoder_set_format, EncoderInv
<1>4. ASSUME NEW copy \in BOOLEAN, rd_encoder_set_encodings(copy)
      PROVE  EncoderInv' /\ CopyIsFinal /\ QuietIsFree
  BY <1>1, <1>4, QuietInv DEF EncoderInv
<1>5. ASSUME rd_encoder_invalidate
      PROVE  EncoderInv' /\ CopyIsFinal /\ QuietIsFree
  BY <1>1, <1>5, QuietInv DEF rd_encoder_invalidate, EncoderInv
<1>6. ViewerNext => EncoderInv' /\ CopyIsFinal /\ QuietIsFree
  BY <1>2, <1>3, <1>4, <1>5 DEF ViewerNext
<1>7. ASSUME UNCHANGED viewerVars
      PROVE  EncoderInv'
  BY <1>1, <1>7 DEF viewerVars, EncoderInv, ViewerCurrent, ShadowKnown, Untold, Meets
<1> QED
  BY <1>6, <1>7

\* A pixel that was asked for since it last changed is what the viewer shows,
\* in its format, after any sequence of updates, formats and forgotten shadows
\* (rd_encoder_encode); where rectangles that add up to the picture without being
\* the picture made the shadow valid, it is that or the viewer was never told.
THEOREM ViewerStaysCurrent == ViewerSpec => []ViewerCurrent
<1>1. EncoderInv /\ [ViewerNext]_viewerVars => EncoderInv'
  BY StepInv
<1>2. EncoderInv => ViewerCurrent
  BY DEF EncoderInv
<1> QED
  BY <1>1, <1>2, InitInv, PTL DEF ViewerSpec

\* Copies are final, but where they move what the viewer was never told, and
\* nothing is sent for a screen that did not change, whatever was asked for
\* (scroll_strip, flush_copy, changed_spans).
THEOREM ViewerNothingTwice == ViewerSpec => NothingTwice
<1>1. EncoderInv /\ [ViewerNext]_viewerVars =>
        EncoderInv' /\ [CopyIsFinal /\ QuietIsFree]_viewerVars
  BY StepInv
<1> QED
  BY <1>1, InitInv, PTL DEF ViewerSpec, NothingTwice
=============================================================================
