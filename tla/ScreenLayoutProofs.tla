------------------------- MODULE ScreenLayoutProofs -------------------------
(***************************************************************************)
(* What the layout of the canvas does for every number of outputs,         *)
(* whatever their positions, scales, rotations and sizes.                  *)
(*                                                                         *)
(* As many passes as there are outputs are enough: along each axis, every  *)
(* pass brings to rest at least the first of the outputs that have not     *)
(* come to it, since all that end before it have (AllSettled).  An output  *)
(* at rest lies behind all that end before it, and of two outputs side by  *)
(* side one ends before the other along some axis, so their pixels are     *)
(* apart (LaidApart).                                                      *)
(*                                                                         *)
(* Induction is on the set of numbers that have a property (Inductive),    *)
(* from the least number of a set.                                         *)
(***************************************************************************)
EXTENDS ScreenArrange, FiniteSetTheorems, SequenceTheorems,
  WellFoundedInduction, TLAPS

-----------------------------------------------------------------------------
(* Counting.                                                               *)

LEMMA LeastOf ==
  ASSUME NEW S \in SUBSET Nat, S # {}
  PROVE  \E m \in S : \A n \in S : m <= n
<1>1. \E m \in S : \A n \in S : ~(<<n, m>> \in OpToRel(<, Nat))
  BY NatLessThanWellFounded, WFMin
<1>2. PICK m \in S : \A n \in S : ~(<<n, m>> \in OpToRel(<, Nat))
  BY <1>1
<1>3. \A n \in S : ~(n < m)
  BY <1>2 DEF OpToRel
<1> QED
  BY <1>3

\* Induction, for a property given as the set of numbers that have it.
LEMMA Inductive ==
  ASSUME NEW S, 0 \in S, \A n \in Nat : n \in S => n + 1 \in S
  PROVE  Nat \subseteq S
<1> DEFINE rest == Nat \ S
<1> SUFFICES ASSUME rest # {}
             PROVE  FALSE
  OBVIOUS
<1>1. PICK m \in rest : \A n \in rest : m <= n
  BY LeastOf
<1>2. m - 1 \in Nat /\ m - 1 \notin rest
  BY <1>1
<1> QED
  BY <1>1, <1>2

\* f is computed in n steps, from a, step k by G.
Computed(f, X, a, G, n) ==
  /\ f \in [0 .. n -> X]
  /\ f[0] = a /\ \A k \in 1 .. n : f[k] = G[<<k, f[k - 1]>>]

LEMMA StepByStep ==
  ASSUME NEW X, NEW a \in X, NEW G \in [Nat \X X -> X], NEW N \in Nat
  PROVE  \E f : Computed(f, X, a, G, N)
<1> DEFINE Steps(f, n) == f[0] = a /\ \A k \in 1 .. n : f[k] = G[<<k, f[k - 1]>>]
           S == {n \in Nat : \E f \in [0 .. n -> X] : Steps(f, n)}
<1>1. 0 \in S
  <2>1. Steps([k \in 0 .. 0 |-> a], 0)
    OBVIOUS
  <2> QED
    BY <2>1
<1>2. ASSUME NEW n \in Nat, n \in S
      PROVE  n + 1 \in S
  <2>1. PICK f \in [0 .. n -> X] : Steps(f, n)
    BY <1>2
  <2> DEFINE b == G[<<n + 1, f[n]>>]
             g == [k \in 0 .. n + 1 |-> IF k = n + 1 THEN b ELSE f[k]]
  <2>2. b \in X
    OBVIOUS
  <2>3. g \in [0 .. n + 1 -> X]
    BY <2>2
  <2>4. g[0] = a
    BY <2>1
  <2>5. ASSUME NEW k \in 1 .. n + 1
        PROVE  g[k] = G[<<k, g[k - 1]>>]
    <3>1. k - 1 \in 0 .. n /\ g[k - 1] = f[k - 1]
      OBVIOUS
    <3>2. CASE k = n + 1
      <4>1. g[k] = b /\ k - 1 = n
        BY <3>2
      <4> QED
        BY <3>1, <3>2, <4>1
    <3>3. CASE k \in 1 .. n
      BY <2>1, <3>1, <3>3
    <3> QED
      BY <3>2, <3>3
  <2>6. Steps(g, n + 1)
    BY <2>4, <2>5
  <2> HIDE DEF g
  <2> QED
    BY <2>3, <2>6
<1>3. N \in S
  BY <1>1, <1>2, Inductive
<1> QED
  BY <1>3 DEF Computed

-----------------------------------------------------------------------------
(* The layout.                                                             *)

\* The largest of v and the values of h at places of S.
LEMMA LargestOf ==
  ASSUME NEW n \in Nat, NEW h \in [1 .. n -> Int], NEW S \in SUBSET (1 .. n),
         NEW v \in Int
  PROVE  LET m == Largest(v, {h[i] : i \in S})
         IN  /\ m \in Int /\ v <= m /\ \A i \in S : h[i] <= m
             /\ m \in {v} \cup {h[i] : i \in S}
<1> DEFINE Bound(m, k) ==
             /\ m \in {v} \cup {h[i] : i \in S}
             /\ v <= m /\ \A i \in S : i <= k => h[i] <= m
           B == {k \in Nat : \E m \in Int : Bound(m, k)}
           values == {v} \cup {h[i] : i \in S}
<1>1. 0 \in B
  <2>1. Bound(v, 0)
    OBVIOUS
  <2> QED
    BY <2>1
<1>2. ASSUME NEW k \in Nat, k \in B
      PROVE  k + 1 \in B
  <2>1. PICK m \in Int : Bound(m, k)
    BY <1>2
  <2>2. CASE k + 1 \in S /\ m < h[k + 1]
    <3>1. h[k + 1] \in Int
      BY <2>2
    <3>2. Bound(h[k + 1], k + 1)
      BY <2>1, <2>2, <3>1
    <3> QED
      BY <3>1, <3>2
  <2>3. CASE ~(k + 1 \in S /\ m < h[k + 1])
    <3>1. Bound(m, k + 1)
      BY <2>1, <2>3
    <3> QED
      BY <3>1
  <2> QED
    BY <2>2, <2>3
<1>3. n \in B
  BY <1>1, <1>2, Inductive
<1>4. PICK m \in Int : Bound(m, n)
  BY <1>3
<1>5. m \in values /\ \A x \in values : x <= m
  BY <1>4
<1>6. Largest(v, {h[i] : i \in S}) \in values /\ \A x \in values : x <= Largest(v, {h[i] : i \in S})
  BY <1>5 DEF Largest
<1> QED
  BY <1>6


LEMMA SmallestOf ==
  ASSUME NEW n \in Nat, NEW h \in [1 .. n -> Int], NEW S \in SUBSET (1 .. n), S # {}
  PROVE  \E i \in S : \A j \in S : h[i] <= h[j]
<1> DEFINE g == [i \in 1 .. n |-> - h[i]]
           values == {g[i] : i \in S}
<1>1. PICK c \in S : TRUE
  OBVIOUS
<1>2. g \in [1 .. n -> Int] /\ g[c] \in Int
  OBVIOUS
<1> DEFINE m == Largest(g[c], values)
<1>3. m \in {g[c]} \cup values /\ \A i \in S : g[i] <= m
  <2> HIDE DEF g
  <2> QED
    BY <1>2, LargestOf
<1>4. PICK i \in S : m = g[i]
  BY <1>1, <1>3
<1>5. ASSUME NEW j \in S
      PROVE  h[i] <= h[j]
  <2>1. g[j] <= g[i]
    BY <1>3, <1>4
  <2>2. i \in 1 .. n /\ j \in 1 .. n /\ h[i] \in Int /\ h[j] \in Int
    OBVIOUS
  <2> QED
    BY <2>1, <2>2
<1> QED
  BY <1>5

LEMMA LastOf ==
  ASSUME NEW n \in Nat, NEW S \in SUBSET (1 .. n), S # {}
  PROVE  \E i \in S : \A j \in S : j <= i
<1> DEFINE h == [i \in 1 .. n |-> - i]
<1>1. h \in [1 .. n -> Int]
  OBVIOUS
<1>2. PICK i \in S : \A j \in S : h[i] <= h[j]
  <2> HIDE DEF h
  <2> QED
    BY <1>1, SmallestOf
<1>3. ASSUME NEW j \in S
      PROVE  j <= i
  <2>1. i \in Int /\ j \in Int /\ h[i] = - i /\ h[j] = - j
    OBVIOUS
  <2>2. h[i] <= h[j]
    BY <1>2
  <2>3. - i <= - j
    BY <2>1, <2>2
  <2> HIDE DEF h
  <2> QED
    BY <2>1, <2>3
<1> QED
  BY <1>3

\* What a tile is: some pixels, for a part of the desktop that is not empty.
Size == (Nat \ {0}) \X (Nat \ {0})
TileType == [at : Int \X Int, size : Size, pixels : Nat \X Nat]
Offset(n) == [1 .. n -> Nat \X Nat]

LEMMA TileParts ==
  ASSUME NEW tt \in Seq(TileType), NEW i \in DOMAIN tt, NEW k \in Axis
  PROVE  /\ Len(tt) \in Nat /\ DOMAIN tt = 1 .. Len(tt)
         /\ tt[i].at \in Int \X Int /\ tt[i].size \in Size /\ tt[i].pixels \in Nat \X Nat
         /\ tt[i].at[k] \in Int /\ tt[i].size[k] \in Nat \ {0} /\ tt[i].pixels[k] \in Nat
<1>1. Len(tt) \in Nat /\ DOMAIN tt = 1 .. Len(tt) /\ tt[i] \in TileType
  OBVIOUS
<1>2. tt[i].at \in Int \X Int /\ tt[i].size \in Size /\ tt[i].pixels \in Nat \X Nat
  BY <1>1 DEF TileType
<1> QED
  BY <1>1, <1>2 DEF Axis, Size

\* What Push moves: tile i, behind every tile before it.
LEMMA PushMoves ==
  ASSUME NEW tt \in Seq(TileType), NEW off \in Offset(Len(tt)), NEW i \in DOMAIN tt
  PROVE  /\ Push(tt, off, i) \in Offset(Len(tt))
         /\ \A j \in DOMAIN tt : j # i => Push(tt, off, i)[j] = off[j]
         /\ \A k \in Axis :
              /\ off[i][k] <= Push(tt, off, i)[i][k]
              /\ \A j \in Before(tt, i, k) :
                   off[j][k] + tt[j].pixels[k] <= Push(tt, off, i)[i][k]
              /\ (\A j \in Before(tt, i, k) : off[j][k] + tt[j].pixels[k] <= off[i][k])
                   => Push(tt, off, i)[i][k] = off[i][k]
<1> DEFINE n == Len(tt)
           start(k) == Largest(off[i][k],
                         {off[j][k] + tt[j].pixels[k] : j \in Before(tt, i, k)})
           new == Pair([k \in Axis |-> start(k)])
<1>1. n \in Nat /\ DOMAIN tt = 1 .. n
  OBVIOUS
<1>2. \A j \in 1 .. n : off[j] \in Nat \X Nat /\ off[j][1] \in Nat /\ off[j][2] \in Nat
  BY DEF Offset
<1>3. ASSUME NEW k \in Axis
      PROVE  /\ start(k) \in Nat /\ off[i][k] <= start(k)
             /\ \A j \in Before(tt, i, k) : off[j][k] + tt[j].pixels[k] <= start(k)
             /\ (\A j \in Before(tt, i, k) : off[j][k] + tt[j].pixels[k] <= off[i][k])
                  => start(k) = off[i][k]
  <2> DEFINE h == [j \in 1 .. n |-> off[j][k] + tt[j].pixels[k]]
             B == Before(tt, i, k)
             V == {h[j] : j \in B}
             W == {off[j][k] + tt[j].pixels[k] : j \in B}
  <2>1. h \in [1 .. n -> Int]
    BY <1>1, <1>2, TileParts DEF Axis
  <2>2. B \in SUBSET (1 .. n)
    BY <1>1 DEF Before
  <2>3. off[i][k] \in Nat
    BY <1>1, <1>2 DEF Axis
  <2>4. V = W
    BY <2>2
  <2>5. /\ Largest(off[i][k], V) \in Int /\ off[i][k] <= Largest(off[i][k], V)
        /\ \A j \in B : h[j] <= Largest(off[i][k], V)
    <3> HIDE DEF h, B
    <3>1. n \in Nat /\ off[i][k] \in Int
      BY <1>1, <2>3
    <3> HIDE DEF n
    <3> QED
      BY <2>1, <2>2, <3>1, LargestOf
  <2>6. start(k) \in Int /\ off[i][k] <= start(k)
    BY <2>4, <2>5
  <2>7. ASSUME NEW j \in B
        PROVE  off[j][k] + tt[j].pixels[k] <= start(k)
    BY <2>2, <2>4, <2>5
  <2>8. ASSUME \A j \in B : off[j][k] + tt[j].pixels[k] <= off[i][k]
        PROVE  start(k) = off[i][k]
    <3>1. \A x \in {off[i][k]} \cup W : x <= off[i][k]
      BY <2>3, <2>8
    <3>2. /\ start(k) \in {off[i][k]} \cup W
          /\ \A x \in {off[i][k]} \cup W : x <= start(k)
      BY <3>1 DEF Largest
    <3>3. start(k) <= off[i][k] /\ off[i][k] <= start(k)
      BY <3>1, <3>2
    <3> QED
      BY <2>3, <2>6, <3>3
  <2> QED
    BY <2>3, <2>6, <2>7, <2>8
<1>4. Push(tt, off, i) = [off EXCEPT ![i] = new]
  BY DEF Push
<1> HIDE DEF start
<1>5. new = <<start(1), start(2)>> /\ start(1) \in Nat /\ start(2) \in Nat
  BY <1>3 DEF Pair, Axis
<1>6. new \in Nat \X Nat /\ \A k \in Axis : new[k] = start(k)
  BY <1>5 DEF Axis
<1> HIDE DEF new
<1>7. Push(tt, off, i) \in Offset(n) /\ Push(tt, off, i)[i] = new
  BY <1>1, <1>4, <1>6 DEF Offset
<1>8. \A j \in DOMAIN tt : j # i => Push(tt, off, i)[j] = off[j]
  BY <1>1, <1>4 DEF Offset
<1> QED
  BY <1>3, <1>6, <1>7, <1>8


LEMMA PassSteps ==
  ASSUME NEW tt \in Seq(TileType), NEW off \in Offset(Len(tt))
  PROVE  \E f \in [0 .. Len(tt) -> Offset(Len(tt))] :
           /\ f[0] = off
           /\ \A i \in 1 .. Len(tt) : f[i] = Push(tt, f[i - 1], i)
           /\ Pass(tt, off) = f[Len(tt)]
<1> DEFINE n == Len(tt)
           X == Offset(n)
           G == [p \in Nat \X X |-> IF p[1] \in 1 .. n THEN Push(tt, p[2], p[1]) ELSE p[2]]
           pushed == CHOOSE f : f = [i \in 0 .. n |->
                       IF i = 0 THEN off ELSE Push(tt, f[i - 1], i)]
<1>1. n \in Nat /\ DOMAIN tt = 1 .. n
  OBVIOUS
<1>2. G \in [Nat \X X -> X]
  <2>1. ASSUME NEW p \in Nat \X X
        PROVE  (IF p[1] \in 1 .. n THEN Push(tt, p[2], p[1]) ELSE p[2]) \in X
    BY <1>1, PushMoves
  <2> QED
    BY <2>1
<1>3. PICK f \in [0 .. n -> X] :
        f[0] = off /\ \A i \in 1 .. n : f[i] = G[<<i, f[i - 1]>>]
  <2>1. off \in X /\ n \in Nat
    BY <1>1
  <2> HIDE DEF G, n, X
  <2>2. \E f : Computed(f, X, off, G, n)
    BY <1>2, <2>1, StepByStep
  <2> QED
    BY <2>2 DEF Computed
<1>4. ASSUME NEW i \in 1 .. n
      PROVE  f[i] = Push(tt, f[i - 1], i)
  <2>1. i - 1 \in 0 .. n /\ i \in Nat
    BY <1>1
  <2>2. f[i - 1] \in X
    BY <1>3, <2>1
  <2>3. G[<<i, f[i - 1]>>] = Push(tt, f[i - 1], i)
    BY <2>1, <2>2
  <2> QED
    BY <1>3, <2>3
<1>5. f = [i \in 0 .. n |-> IF i = 0 THEN off ELSE Push(tt, f[i - 1], i)]
  BY <1>1, <1>3, <1>4
<1>6. pushed = [i \in 0 .. n |-> IF i = 0 THEN off ELSE Push(tt, pushed[i - 1], i)]
  BY <1>5
<1>7. Pass(tt, off) = pushed[n]
  BY DEF Pass
<1> HIDE DEF pushed
<1>8. pushed[0] = f[0] /\ \A i \in 1 .. n : pushed[i] = Push(tt, pushed[i - 1], i)
  BY <1>1, <1>3, <1>6
<1> DEFINE S == {i \in Nat : i \in 0 .. n => pushed[i] = f[i]}
<1>9. ASSUME NEW i \in Nat, i \in S
      PROVE  i + 1 \in S
  <2>1. CASE i + 1 \in 1 .. n
    <3>1. pushed[i] = f[i] /\ (i + 1) - 1 = i
      BY <1>1, <1>9, <2>1
    <3> QED
      BY <1>4, <1>8, <2>1, <3>1
  <2>2. CASE i + 1 \notin 1 .. n
    BY <1>1, <2>2
  <2> QED
    BY <2>1, <2>2
<1>10. n \in S
  <2>1. 0 \in S /\ n \in Nat
    BY <1>1, <1>8
  <2> HIDE DEF S, n
  <2> QED
    BY <1>9, <2>1, Inductive
<1>11. pushed[n] = f[n]
  BY <1>1, <1>10
<1> QED
  BY <1>3, <1>4, <1>7, <1>11


\* Tile i is behind every tile before it; S holds all tiles before its own.
Settled(tt, off, i, k) ==
  \A j \in Before(tt, i, k) : off[j][k] + tt[j].pixels[k] <= off[i][k]

SettledSet(tt, off, S, k) ==
  \A i \in S : Before(tt, i, k) \subseteq S /\ Settled(tt, off, i, k)

\* What is settled is not moved again.
LEMMA PushKeeps ==
  ASSUME NEW tt \in Seq(TileType), NEW off \in Offset(Len(tt)), NEW i \in DOMAIN tt,
         NEW k \in Axis, NEW S \in SUBSET DOMAIN tt, SettledSet(tt, off, S, k)
  PROVE  SettledSet(tt, Push(tt, off, i), S, k)
<1>1. ASSUME NEW j \in S
      PROVE  Push(tt, off, i)[j][k] = off[j][k]
  <2>1. CASE j = i
    BY <2>1, <1>1, PushMoves DEF SettledSet, Settled
  <2>2. CASE j # i
    BY <2>2, PushMoves
  <2> QED
    BY <2>1, <2>2
<1> QED
  BY <1>1 DEF SettledSet, Settled

\* A pass settles a tile behind settled ones.
LEMMA PassSettles ==
  ASSUME NEW tt \in Seq(TileType), NEW off \in Offset(Len(tt)), NEW c \in DOMAIN tt,
         NEW k \in Axis, NEW S \in SUBSET DOMAIN tt, SettledSet(tt, off, S, k),
         Before(tt, c, k) \subseteq S
  PROVE  Pass(tt, off) \in Offset(Len(tt)) /\ SettledSet(tt, Pass(tt, off), S \cup {c}, k)
<1>1. PICK f \in [0 .. Len(tt) -> Offset(Len(tt))] :
        /\ f[0] = off
        /\ \A i \in 1 .. Len(tt) : f[i] = Push(tt, f[i - 1], i)
        /\ Pass(tt, off) = f[Len(tt)]
  BY PassSteps
<1>2. Len(tt) \in Nat /\ DOMAIN tt = 1 .. Len(tt)
  OBVIOUS
<1> DEFINE n == Len(tt)
           T == S \cup {c}
           I == {i \in Nat : i \in 0 .. n =>
                   /\ SettledSet(tt, f[i], S, k)
                   /\ c <= i => SettledSet(tt, f[i], T, k)}
<1>3. 0 \in I
  BY <1>1, <1>2
<1>4. ASSUME NEW i \in Nat, i \in I
      PROVE  i + 1 \in I
  <2> SUFFICES ASSUME i + 1 \in 1 .. n
               PROVE  /\ SettledSet(tt, f[i + 1], S, k)
                      /\ c <= i + 1 => SettledSet(tt, f[i + 1], T, k)
    BY <1>2
  <2>1. /\ f[i + 1] = Push(tt, f[i], i + 1) /\ f[i] \in Offset(n)
        /\ i + 1 \in DOMAIN tt /\ i \in 0 .. n
    <3>1. (i + 1) - 1 = i /\ i \in 0 .. n
      BY <1>2
    <3> QED
      BY <1>1, <1>2, <3>1
  <2>2. SettledSet(tt, f[i], S, k)
    BY <1>4, <2>1
  <2>3. SettledSet(tt, f[i + 1], S, k)
    BY <2>1, <2>2, PushKeeps
  <2>4. CASE c <= i
    <3>1. SettledSet(tt, f[i], T, k) /\ T \in SUBSET DOMAIN tt
      BY <1>4, <2>1, <2>4
    <3> HIDE DEF T
    <3>2. SettledSet(tt, f[i + 1], T, k)
      BY <2>1, <3>1, PushKeeps
    <3> QED
      BY <2>3, <3>2
  <2>5. CASE c = i + 1
    <3>1. /\ \A j \in Before(tt, c, k) :
                f[i][j][k] + tt[j].pixels[k] <= f[i + 1][c][k]
          /\ \A j \in DOMAIN tt : j # c => f[i + 1][j] = f[i][j]
      BY <2>1, <2>5, PushMoves
    <3>2. Before(tt, c, k) \subseteq DOMAIN tt \ {c}
      BY DEF Before
    <3>3. Settled(tt, f[i + 1], c, k)
      BY <3>1, <3>2 DEF Settled
    <3> QED
      BY <2>3, <3>3 DEF SettledSet
  <2>6. CASE i + 1 < c
    BY <1>2, <2>3, <2>6
  <2> QED
    BY <1>2, <2>4, <2>5, <2>6
<1>5. n \in I
  <2> HIDE DEF I
  <2> QED
    BY <1>2, <1>3, <1>4, Inductive
<1> QED
  BY <1>1, <1>2, <1>5


LEMMA PassType ==
  ASSUME NEW tt \in Seq(TileType), NEW off \in Offset(Len(tt))
  PROVE  Pass(tt, off) \in Offset(Len(tt))
<1>1. Len(tt) \in Nat
  OBVIOUS
<1> QED
  BY <1>1, PassSteps

\* The passes of screen_layout.
LEMMA OffsetsSteps ==
  ASSUME NEW tt \in Seq(TileType)
  PROVE  \E f \in [0 .. Len(tt) -> Offset(Len(tt))] :
           /\ \A m \in 1 .. Len(tt) : f[m] = Pass(tt, f[m - 1])
           /\ Offsets(tt) = f[Len(tt)]
<1> DEFINE n == Len(tt)
           X == Offset(n)
           zero == [i \in DOMAIN tt |-> <<0, 0>>]
           G == [p \in Nat \X X |-> Pass(tt, p[2])]
           passed == CHOOSE f : f = [m \in 0 .. Passes(n) |->
                       IF m = 0 THEN zero ELSE Pass(tt, f[m - 1])]
<1>1. n \in Nat /\ DOMAIN tt = 1 .. n /\ Passes(n) = n
  BY DEF Passes
<1>2. G \in [Nat \X X -> X]
  <2>1. ASSUME NEW p \in Nat \X X
        PROVE  Pass(tt, p[2]) \in X
    BY PassType
  <2> QED
    BY <2>1
<1>3. zero \in X
  BY <1>1 DEF Offset
<1> HIDE DEF zero
<1>4. PICK f \in [0 .. n -> X] :
        f[0] = zero /\ \A m \in 1 .. n : f[m] = G[<<m, f[m - 1]>>]
  <2>1. n \in Nat
    BY <1>1
  <2> HIDE DEF G, n, X
  <2>2. \E f : Computed(f, X, zero, G, n)
    BY <1>2, <1>3, <2>1, StepByStep
  <2> QED
    BY <2>2 DEF Computed
<1>5. ASSUME NEW m \in 1 .. n
      PROVE  f[m] = Pass(tt, f[m - 1])
  <2>1. m - 1 \in 0 .. n /\ m \in Nat
    BY <1>1
  <2>2. f[m - 1] \in X
    BY <1>4, <2>1
  <2>3. G[<<m, f[m - 1]>>] = Pass(tt, f[m - 1])
    BY <2>1, <2>2
  <2> QED
    BY <1>4, <2>3
<1>6. f = [m \in 0 .. Passes(n) |-> IF m = 0 THEN zero ELSE Pass(tt, f[m - 1])]
  BY <1>1, <1>4, <1>5
<1>7. passed = [m \in 0 .. Passes(n) |-> IF m = 0 THEN zero ELSE Pass(tt, passed[m - 1])]
  BY <1>6
<1>8. Offsets(tt) = passed[n]
  BY <1>1 DEF Offsets, zero
<1> HIDE DEF passed
<1>9. passed[0] = f[0] /\ \A m \in 1 .. n : passed[m] = Pass(tt, passed[m - 1])
  BY <1>1, <1>4, <1>7
<1> DEFINE S == {m \in Nat : m \in 0 .. n => passed[m] = f[m]}
<1>10. ASSUME NEW m \in Nat, m \in S
       PROVE  m + 1 \in S
  <2>1. CASE m + 1 \in 1 .. n
    <3>1. passed[m] = f[m] /\ (m + 1) - 1 = m
      BY <1>1, <1>10, <2>1
    <3> QED
      BY <1>5, <1>9, <2>1, <3>1
  <2>2. CASE m + 1 \notin 1 .. n
    BY <1>1, <2>2
  <2> QED
    BY <2>1, <2>2
<1>11. n \in S
  <2>1. 0 \in S /\ n \in Nat
    BY <1>1, <1>9
  <2> HIDE DEF S, n
  <2> QED
    BY <1>10, <2>1, Inductive
<1>12. passed[n] = f[n]
  BY <1>1, <1>11
<1> QED
  BY <1>4, <1>5, <1>8, <1>12

\* After as many passes as there are tiles, every tile is behind those before
\* it: each pass settles one more, the first of those that are not.
LEMMA AllSettled ==
  ASSUME NEW tt \in Seq(TileType), NEW k \in Axis
  PROVE  /\ Offsets(tt) \in Offset(Len(tt))
         /\ \A i \in DOMAIN tt : Settled(tt, Offsets(tt), i, k)
<1> DEFINE n == Len(tt)
           D == DOMAIN tt
<1>1. n \in Nat /\ D = 1 .. n /\ IsFiniteSet(D) /\ Cardinality(D) = n
  <2>1. n \in Nat /\ D = 1 .. n
    OBVIOUS
  <2> QED
    BY <2>1, FS_Interval
<1>2. PICK f \in [0 .. n -> Offset(n)] :
        /\ \A m \in 1 .. n : f[m] = Pass(tt, f[m - 1])
        /\ Offsets(tt) = f[n]
  BY OffsetsSteps
<1> DEFINE Enough(S, m) ==
             SettledSet(tt, f[m], S, k) /\ (S = D \/ m <= Cardinality(S))
           M == {m \in Nat : m \in 0 .. n => \E S \in SUBSET D : Enough(S, m)}
<1>3. 0 \in M
  <2>1. Enough({}, 0)
    BY FS_EmptySet DEF SettledSet
  <2> QED
    BY <2>1
<1>4. ASSUME NEW m \in Nat, m \in M
      PROVE  m + 1 \in M
  <2> SUFFICES ASSUME m + 1 \in 1 .. n
               PROVE  \E T \in SUBSET D : Enough(T, m + 1)
    BY <1>1
  <2>1. m \in 0 .. n /\ f[m] \in Offset(n) /\ f[m + 1] = Pass(tt, f[m])
    <3>1. (m + 1) - 1 = m /\ m \in 0 .. n
      BY <1>1
    <3> QED
      BY <1>2, <3>1
  <2>2. PICK S \in SUBSET D : Enough(S, m)
    BY <1>4, <2>1
  <2>3. PICK c \in D :
          /\ Before(tt, c, k) \subseteq S
          /\ S \cup {c} = D \/ (c \notin S /\ S # D)
    <3>1. CASE S = D
      <4>1. PICK c \in D : TRUE
        BY <1>1
      <4>2. Before(tt, c, k) \subseteq D /\ S \cup {c} = D
        BY <3>1 DEF Before
      <4> QED
        BY <3>1, <4>2
    <3>2. CASE S # D
      <4> DEFINE h == [i \in 1 .. n |-> tt[i].at[k]]
                 R == D \ S
      <4>1. h \in [1 .. n -> Int]
        BY <1>1, TileParts
      <4>2. R \in SUBSET (1 .. n) /\ R # {}
        BY <1>1, <3>2
      <4>3. PICK c \in R : \A j \in R : h[c] <= h[j]
        <5> HIDE DEF h, R
        <5> QED
          BY <1>1, <4>1, <4>2, SmallestOf
      <4>4. ASSUME NEW j \in Before(tt, c, k)
            PROVE  j \in S
        <5>1. j \in D /\ tt[j].at[k] + tt[j].size[k] <= tt[c].at[k]
          BY DEF Before
        <5>2. tt[j].at[k] \in Int /\ tt[j].size[k] \in Nat \ {0} /\ tt[c].at[k] \in Int
          BY <4>3, <5>1, TileParts
        <5>3. ~(h[c] <= h[j])
          BY <1>1, <4>3, <5>1, <5>2
        <5> QED
          BY <4>3, <5>1, <5>3
      <4> QED
        BY <3>2, <4>3, <4>4
    <3> QED
      BY <3>1, <3>2
  <2> DEFINE T == S \cup {c}
  <2>4. SettledSet(tt, f[m + 1], T, k)
    BY <2>1, <2>2, <2>3, PassSettles
  <2>5. T = D \/ m + 1 <= Cardinality(T)
    <3>1. CASE c \notin S /\ S # D
      <4>1. IsFiniteSet(S) /\ Cardinality(S) \in Nat
        BY <1>1, FS_Subset, FS_CardinalityType
      <4>2. Cardinality(T) = Cardinality(S) + 1
        BY <3>1, <4>1, FS_AddElement
      <4> QED
        BY <2>2, <3>1, <4>1, <4>2
    <3> QED
      BY <2>3, <3>1
  <2>6. T \in SUBSET D
    BY <2>3
  <2> HIDE DEF T
  <2> QED
    BY <2>4, <2>5, <2>6
<1>5. n \in M
  <2> HIDE DEF M
  <2> QED
    BY <1>1, <1>3, <1>4, Inductive
<1>6. PICK S \in SUBSET D : Enough(S, n)
  BY <1>1, <1>5
<1>7. S = D
  <2>1. IsFiniteSet(S) /\ Cardinality(S) \in Nat /\ Cardinality(S) <= n
    BY <1>1, FS_Subset, FS_CardinalityType
  <2>2. n <= Cardinality(S) => Cardinality(D) = Cardinality(S)
    BY <1>1, <2>1
  <2> QED
    BY <1>1, <1>6, <2>2, FS_Subset
<1> QED
  BY <1>1, <1>2, <1>6, <1>7 DEF SettledSet


\* Tiles that do not overlap on the desktop do not on the canvas.
LEMMA LaidApart ==
  ASSUME NEW tt \in Seq(TileType), NEW i \in DOMAIN tt, NEW j \in DOMAIN tt, i # j,
         Apart(tt[i].at, tt[i].size, tt[j].at, tt[j].size)
  PROVE  Apart(Offsets(tt)[i], tt[i].pixels, Offsets(tt)[j], tt[j].pixels)
<1>1. PICK k \in Axis : \/ tt[i].at[k] + tt[i].size[k] <= tt[j].at[k]
                        \/ tt[j].at[k] + tt[j].size[k] <= tt[i].at[k]
  BY DEF Apart
<1>2. i \in Before(tt, j, k) \/ j \in Before(tt, i, k)
  BY <1>1 DEF Before
<1>3. \A m \in DOMAIN tt : Settled(tt, Offsets(tt), m, k)
  BY AllSettled
<1> QED
  BY <1>2, <1>3 DEF Settled, Apart

LEMMA GeometryParts ==
  ASSUME NEW g, GeometryOK(g)
  PROVE  /\ output_pixels(g) \in Size
         /\ output_logical(g).at \in Int \X Int /\ output_logical(g).size \in Size
<1>1. output_pixels(g) \in Size
  BY DEF GeometryOK, output_pixels, Size
<1>2. Larger(g.scale, 1) \in Nat \ {0}
  BY DEF GeometryOK, Larger
<1> DEFINE d(k) == output_pixels(g)[k] \div Larger(g.scale, 1)
<1>3. d(1) \in Int /\ d(2) \in Int
  BY <1>1, <1>2 DEF Size
<1> HIDE DEF d
<1>4. CASE g.logical # <<>> /\ g.logical.size[1] > 0 /\ g.logical.size[2] > 0
  <2>1. output_logical(g) = g.logical
    BY <1>4 DEF output_logical
  <2>2. g.logical.at \in Int \X Int /\ g.logical.size \in Int \X Int
    BY <1>4 DEF GeometryOK
  <2>3. g.logical.size \in Size
    BY <1>4, <2>2 DEF Size
  <2> QED
    BY <1>1, <2>1, <2>2, <2>3
<1>5. CASE ~(g.logical # <<>> /\ g.logical.size[1] > 0 /\ g.logical.size[2] > 0)
  <2> DEFINE size == <<d(1), d(2)>>
  <2>1. output_logical(g) = [at |-> g.at, size |-> size]
    BY <1>5 DEF output_logical, Pair, Axis, d
  <2> HIDE DEF size
  <2>2. output_logical(g).at = g.at /\ output_logical(g).size = size
    BY <2>1
  <2>3. \A k \in Axis : size[k] > 0
    BY <2>2 DEF GeometryOK
  <2>4. size \in Size
    BY <1>3, <2>3 DEF size, Size, Axis
  <2>5. g.at \in Int \X Int
    BY DEF GeometryOK
  <2> QED
    BY <1>1, <2>2, <2>4, <2>5
<1> QED
  BY <1>4, <1>5


-----------------------------------------------------------------------------
(* The pointer.                                                            *)

\* What comes of scaling a distance of d pixels out of x into l units.
LEMMA Scaled ==
  ASSUME NEW d \in Nat, NEW x \in Nat \ {0}, NEW l \in Nat \ {0}, NEW a \in Nat, d < x
  PROVE  LET v == ((a * x + d * l) * 8) \div x
         IN  v \in Int /\ 8 * a <= v /\ v < 8 * a + 8 * l
<1> DEFINE w == (a * x + d * l) * 8
           v == w \div x
<1>1. a * x \in Nat /\ d * l \in Nat /\ w \in Nat
  OBVIOUS
<1>2. v \in Int /\ x * v <= w /\ w < x * (v + 1)
  <2> HIDE DEF w
  <2> QED
    BY <1>1
<1>3. x * (8 * a) <= w
  <2>1. x * (8 * a) = (a * x) * 8
    OBVIOUS
  <2> QED
    BY <1>1, <2>1
<1>4. w < x * (8 * a + 8 * l)
  <2>1. d * l < x * l
    OBVIOUS
  <2>2. x * (8 * a + 8 * l) = (a * x) * 8 + (x * l) * 8 /\ x * l \in Nat
    OBVIOUS
  <2> QED
    BY <1>1, <2>1, <2>2
<1> HIDE DEF w, v
<1>5. 8 * a <= v
  <2> SUFFICES ASSUME v + 1 <= 8 * a
               PROVE  FALSE
    BY <1>2
  <2>1. x * (v + 1) <= x * (8 * a)
    BY <1>2
  <2> QED
    BY <1>1, <1>2, <1>3, <2>1
<1>6. v < 8 * a + 8 * l
  <2> SUFFICES ASSUME 8 * a + 8 * l <= v
               PROVE  FALSE
    BY <1>2
  <2>1. x * (8 * a + 8 * l) <= x * v
    BY <1>2
  <2> QED
    BY <1>1, <1>2, <1>4, <2>1
<1> QED
  BY <1>2, <1>5, <1>6 DEF v, w

\* The box around the tiles.
LEMMA BoxAround ==
  ASSUME NEW tt \in Seq(TileType), NEW i \in DOMAIN tt, NEW k \in Axis
  PROVE  /\ BoxFrom(tt, k) \in Int /\ BoxEnd(tt, k) \in Int
         /\ BoxFrom(tt, k) <= tt[i].at[k]
         /\ tt[i].at[k] + tt[i].size[k] <= BoxEnd(tt, k)
<1> DEFINE n == Len(tt)
           D == DOMAIN tt
           first == [j \in 1 .. n |-> tt[j].at[k]]
           last == [j \in 1 .. n |-> - (tt[j].at[k] + tt[j].size[k])]
           starts == {tt[j].at[k] : j \in D}
           ends == {tt[j].at[k] + tt[j].size[k] : j \in D}
<1>1. n \in Nat /\ D = 1 .. n /\ D \in SUBSET (1 .. n) /\ D # {}
  OBVIOUS
<1>5. \A j \in D : tt[j].at[k] \in Int /\ tt[j].at[k] + tt[j].size[k] \in Int
  BY TileParts
<1>2. first \in [1 .. n -> Int] /\ last \in [1 .. n -> Int]
  BY <1>1, <1>5
<1>3. PICK c \in D : \A j \in D : first[c] <= first[j]
  <2> HIDE DEF first, D, n
  <2> QED
    BY <1>1, <1>2, SmallestOf
<1>4. PICK e \in D : \A j \in D : last[e] <= last[j]
  <2> HIDE DEF last, D, n
  <2> QED
    BY <1>1, <1>2, SmallestOf
<1>6. tt[c].at[k] \in starts /\ \A j \in D : tt[c].at[k] <= tt[j].at[k]
  BY <1>1, <1>3
<1>7. \A j \in D : tt[j].at[k] + tt[j].size[k] <= tt[e].at[k] + tt[e].size[k]
  BY <1>1, <1>4, <1>5
<1>8. BoxFrom(tt, k) \in starts /\ \A j \in D : BoxFrom(tt, k) <= tt[j].at[k]
  BY <1>6 DEF BoxFrom
<1>9. /\ BoxEnd(tt, k) \in ends
      /\ \A j \in D : BoxEnd(tt, k) >= tt[j].at[k] + tt[j].size[k]
  BY <1>5, <1>7 DEF BoxEnd
<1> QED
  BY <1>5, <1>8, <1>9

\* A point of tile i on the canvas is sent as a point of tile i on the desktop.
LEMMA PointSent ==
  ASSUME NEW tt \in Seq(TileType), NEW off \in Offset(Len(tt)), NEW i \in DOMAIN tt,
         NEW p \in Nat \X Nat, Inside(p, off[i], tt[i].pixels)
  PROVE  Inside(rd_screen_pointer_motion(tt, off, i, p),
                Pair([k \in Axis |-> Resolution * (tt[i].at[k] - BoxFrom(tt, k))]),
                Pair([k \in Axis |-> Resolution * tt[i].size[k]]))
<1> DEFINE from(k) == BoxFrom(tt, k)
           ext(k) == (BoxEnd(tt, k) - from(k)) * Resolution
           v(k) == ((((tt[i].at[k] - from(k)) * tt[i].pixels[k]
                      + (p[k] - off[i][k]) * tt[i].size[k]) * Resolution))
                   \div tt[i].pixels[k]
           sent(k) == Larger(0, Smaller(v(k), ext(k) - 1))
           low(k) == Resolution * (tt[i].at[k] - from(k))
           wide(k) == Resolution * tt[i].size[k]
<1>1. ASSUME NEW k \in Axis
      PROVE  low(k) <= sent(k) /\ sent(k) < low(k) + wide(k)
  <2> DEFINE a == tt[i].at[k] - from(k)
             d == p[k] - off[i][k]
             x == tt[i].pixels[k]
             l == tt[i].size[k]
             e == BoxEnd(tt, k)
  <2>1. /\ tt[i].at[k] \in Int /\ l \in Nat \ {0} /\ x \in Nat
        /\ from(k) \in Int /\ e \in Int
        /\ from(k) <= tt[i].at[k] /\ tt[i].at[k] + l <= e
    BY TileParts, BoxAround
  <2>2. off[i][k] \in Nat /\ p[k] \in Nat
    <3>1. off[i] \in Nat \X Nat
      BY TileParts DEF Offset
    <3> QED
      BY <3>1 DEF Axis
  <2>3. off[i][k] <= p[k] /\ p[k] < off[i][k] + x
    BY DEF Inside
  <2>4. a \in Nat /\ d \in Nat /\ d < x /\ x \in Nat \ {0}
    <3>1. a \in Nat
      BY <2>1
    <3>2. d \in Nat /\ d < x /\ 0 < x
      <4> HIDE DEF x
      <4> QED
        BY <2>1, <2>2, <2>3
    <3> QED
      BY <2>1, <3>1, <3>2
  <2>5. v(k) = ((a * x + d * l) * 8) \div x /\ low(k) = 8 * a /\ wide(k) = 8 * l
    BY DEF Resolution
  <2> DEFINE q == e - from(k)
  <2>6. ext(k) = q * 8 /\ a + l <= q /\ q \in Int
    BY <2>1 DEF Resolution
  <2> HIDE DEF a, d, x, l, e, q
  <2>7. v(k) \in Int /\ 8 * a <= v(k) /\ v(k) < 8 * a + 8 * l
    BY <2>1, <2>4, <2>5, Scaled
  <2> HIDE DEF v, ext, from, low, wide
  <2>8. v(k) <= ext(k) - 1 /\ ext(k) \in Int /\ 0 <= v(k)
    <3> DEFINE V == v(k)
               W == ext(k)
    <3>1. V \in Int /\ 8 * a <= V /\ V < 8 * a + 8 * l /\ W = q * 8
      BY <2>6, <2>7
    <3>2. a \in Nat /\ l \in Nat /\ q \in Int /\ a + l <= q
      BY <2>1, <2>4, <2>6
    <3> HIDE DEF V, W
    <3>3. V <= W - 1 /\ W \in Int /\ 0 <= V
      BY <3>1, <3>2
    <3> QED
      BY <3>3 DEF V, W
  <2>9. sent(k) = v(k)
    BY <2>7, <2>8 DEF Larger, Smaller
  <2> QED
    BY <2>5, <2>7, <2>9
<1>2. rd_screen_pointer_motion(tt, off, i, p) = <<sent(1), sent(2)>>
  BY DEF rd_screen_pointer_motion, Pair, Axis
<1>3. Pair([k \in Axis |-> Resolution * (tt[i].at[k] - BoxFrom(tt, k))]) = <<low(1), low(2)>>
  BY DEF Pair, Axis
<1>4. Pair([k \in Axis |-> Resolution * tt[i].size[k]]) = <<wide(1), wide(2)>>
  BY DEF Pair, Axis
<1> HIDE DEF sent, low, wide
<1> QED
  BY <1>1, <1>2, <1>3, <1>4 DEF Inside, Axis


-----------------------------------------------------------------------------
(* Every arrangement.                                                      *)

LEMMA ExtentNat ==
  ASSUME NEW tt \in Seq(TileType), NEW off \in Offset(Len(tt)), NEW k \in Axis
  PROVE  /\ Extent(tt, off) = <<Extent(tt, off)[1], Extent(tt, off)[2]>>
         /\ Extent(tt, off)[k] \in Nat
         /\ \A i \in DOMAIN tt : off[i][k] + tt[i].pixels[k] <= Extent(tt, off)[k]
<1> DEFINE n == Len(tt)
           D == DOMAIN tt
           h == [i \in 1 .. n |-> off[i][k] + tt[i].pixels[k]]
           ends(a) == {off[i][a] + tt[i].pixels[a] : i \in D}
<1>1. n \in Nat /\ D = 1 .. n /\ D \in SUBSET (1 .. n)
  OBVIOUS
<1>2. \A i \in D : off[i][k] \in Nat /\ tt[i].pixels[k] \in Nat
  <2> SUFFICES ASSUME NEW j \in D
               PROVE  off[j][k] \in Nat /\ tt[j].pixels[k] \in Nat
    OBVIOUS
  <2>1. off[j] \in Nat \X Nat
    BY <1>1 DEF Offset
  <2> QED
    BY <2>1, TileParts DEF Axis
<1>3. h \in [1 .. n -> Int]
  BY <1>1, <1>2
<1>4. /\ Largest(0, {h[i] : i \in D}) \in Int /\ 0 <= Largest(0, {h[i] : i \in D})
      /\ \A j \in D : h[j] <= Largest(0, {h[i] : i \in D})
  <2>1. n \in Nat /\ D \in SUBSET (1 .. n) /\ 0 \in Int
    BY <1>1
  <2> HIDE DEF h, D, n
  <2> QED
    BY <1>3, <2>1, LargestOf
<1>5. {h[i] : i \in D} = ends(k)
  BY <1>1
<1>6. Extent(tt, off) = <<Largest(0, ends(1)), Largest(0, ends(2))>>
  BY DEF Extent, Pair, Axis
<1>7. Extent(tt, off)[k] = Largest(0, ends(k))
  <2> HIDE DEF ends
  <2> QED
    BY <1>6 DEF Axis
<1>8. \A i \in D : off[i][k] + tt[i].pixels[k] <= Largest(0, ends(k))
  BY <1>1, <1>4, <1>5
<1>9. Largest(0, ends(k)) \in Nat
  <2>1. Largest(0, ends(k)) \in Int /\ 0 <= Largest(0, ends(k))
    BY <1>4, <1>5
  <2> QED
    BY <2>1
<1> HIDE DEF ends
<1> QED
  BY <1>6, <1>7, <1>8, <1>9

\* The tiles of outputs that show something, side by side on the desktop, and
\* where screen_layout has put them.
ArrangeInv ==
  /\ tiles \in Seq(TileType)
  /\ \A i, j \in DOMAIN tiles : i < j =>
       Apart(tiles[i].at, tiles[i].size, tiles[j].at, tiles[j].size)
  /\ offset # <<>> => offset = Offsets(tiles)

LEMMA TileOK ==
  ASSUME NEW g, GeometryOK(g), NEW c \in Nat \X Nat
  PROVE  TileOf(g, c) \in TileType
<1>1. /\ output_pixels(g) \in Nat \X Nat
      /\ output_logical(g).at \in Int \X Int /\ output_logical(g).size \in Size
  BY GeometryParts DEF Size
<1> DEFINE px == IF c[1] > 0 THEN c ELSE output_pixels(g)
<1>2. px \in Nat \X Nat
  BY <1>1
<1> HIDE DEF px
<1> QED
  BY <1>1, <1>2 DEF TileOf, TileType, px

LEMMA ArrangeInvHolds == ArrangeSpec => []ArrangeInv
<1>1. ASSUME ArrangeInit
      PROVE  ArrangeInv
  <2>1. PICK a \in Arrangement : tiles = [i \in DOMAIN a |-> TileOf(a[i], <<0, 0>>)]
    BY <1>1 DEF ArrangeInit
  <2>2. PICK n \in 1 .. MaxOutputs : a \in [1 .. n -> Geometry]
    BY <2>1 DEF Arrangement
  <2>3. n \in Nat /\ <<0, 0>> \in Nat \X Nat
    BY <2>2, ArrangeAssumption
  <2>4. \A i \in 1 .. n : TileOf(a[i], <<0, 0>>) \in TileType
    BY <2>2, <2>3, TileOK, ArrangeAssumption
  <2>5. tiles = [i \in 1 .. n |-> TileOf(a[i], <<0, 0>>)]
    BY <2>1, <2>2
  <2>6. tiles \in Seq(TileType) /\ DOMAIN tiles = 1 .. n
    BY <2>3, <2>4, <2>5
  <2>7. ASSUME NEW i \in DOMAIN tiles, NEW j \in DOMAIN tiles, i < j
        PROVE  Apart(tiles[i].at, tiles[i].size, tiles[j].at, tiles[j].size)
    <3>1. Apart(output_logical(a[i]).at, output_logical(a[i]).size,
                output_logical(a[j]).at, output_logical(a[j]).size)
      BY <2>1, <2>2, <2>6, <2>7 DEF Arrangement
    <3>2. ASSUME NEW m \in DOMAIN tiles
          PROVE  tiles[m].at = output_logical(a[m]).at /\ tiles[m].size = output_logical(a[m]).size
      BY <2>5, <2>6 DEF TileOf
    <3> QED
      BY <3>1, <3>2
  <2> QED
    BY <1>1, <2>6, <2>7 DEF ArrangeInv, ArrangeInit
<1>2. ASSUME ArrangeInv, [ArrangeNext]_arrangeVars
      PROVE  ArrangeInv'
  BY <1>2 DEF ArrangeInv, ArrangeNext, Layout, arrangeVars
<1> QED
  BY <1>1, <1>2, PTL DEF ArrangeSpec

\* Outputs of any geometries, side by side on the desktop, have pixels of the
\* canvas of their own, and a point of the canvas is sent as a point of the
\* output it shows: whatever their number, order, scales and rotations
\* (screen_layout, rd_screen_pointer_motion).
THEOREM CanvasIsWhole == ArrangeSpec => []CanvasHolds
<1>1. ASSUME ArrangeInv
      PROVE  TilesApart
  <2> SUFFICES ASSUME offset # <<>>, NEW i \in DOMAIN tiles, NEW j \in DOMAIN tiles, i < j
               PROVE  Apart(offset[i], tiles[i].pixels, offset[j], tiles[j].pixels)
    BY DEF TilesApart
  <2>1. i # j
    <3>1. i \in Nat /\ j \in Nat
      BY <1>1 DEF ArrangeInv
    <3> QED
      BY <3>1
  <2> QED
    BY <1>1, <2>1, LaidApart DEF ArrangeInv
<1>2. ASSUME ArrangeInv
      PROVE  PointerFollows
  <2> SUFFICES ASSUME offset # <<>>,
                      NEW x \in 0 .. Extent(tiles, offset)[1] - 1,
                      NEW y \in 0 .. Extent(tiles, offset)[2] - 1,
                      Under(tiles, offset, <<x, y>>) # 0
               PROVE  LET i == Under(tiles, offset, <<x, y>>)
                      IN  Inside(rd_screen_pointer_motion(tiles, offset, i, <<x, y>>),
                            Pair([k \in Axis |->
                                    Resolution * (tiles[i].at[k] - BoxFrom(tiles, k))]),
                            Pair([k \in Axis |-> Resolution * tiles[i].size[k]]))
    BY DEF PointerFollows
  <2>1. tiles \in Seq(TileType) /\ offset \in Offset(Len(tiles))
    BY <1>2, AllSettled DEF ArrangeInv, Axis
  <2>2. <<x, y>> \in Nat \X Nat
    <3>1. Extent(tiles, offset)[1] \in Nat /\ Extent(tiles, offset)[2] \in Nat
      BY <2>1, ExtentNat DEF Axis
    <3> QED
      BY <3>1
  <2> DEFINE p == <<x, y>>
             hit == {i \in DOMAIN tiles : \A k \in Axis :
                       offset[i][k] <= p[k] /\ p[k] < offset[i][k] + tiles[i].pixels[k]}
             u == Under(tiles, offset, p)
  <2>3. hit # {} /\ u = CHOOSE i \in hit : \A j \in hit : i <= j
    BY DEF Under
  <2>4. \E i \in hit : \A j \in hit : i <= j
    <3>1. hit \in SUBSET Nat
      BY <2>1
    <3> HIDE DEF hit
    <3> QED
      BY <2>3, <3>1, LeastOf
  <2>5. u \in hit
    BY <2>3, <2>4
  <2>6. u \in DOMAIN tiles /\ Inside(p, offset[u], tiles[u].pixels)
    BY <2>5 DEF Inside
  <2> HIDE DEF u, p
  <2> QED
    BY <2>1, <2>2, <2>6, PointSent DEF u, p
<1>3. ArrangeInv => CanvasHolds
  BY <1>1, <1>2 DEF CanvasHolds
<1> QED
  BY <1>3, ArrangeInvHolds, PTL
=============================================================================
