-------------------------- MODULE CollabTextProofs --------------------------
(***************************************************************************)
(* The shared text, for any number of sites, of characters to start with,  *)
(* of edits and of characters to an edit.                                  *)
(*                                                                         *)
(* Its types hold however the clocks advance.  That the sites converge, and*)
(* never order two characters differently, holds under OneMoment; the run  *)
(* text_drift shows two sites that differ for good without it.             *)
(*                                                                         *)
(* A text is a function of what was inserted and of what was deleted, in   *)
(* whatever order a site learned it: each character is behind the one it   *)
(* was born behind, and between the two are only characters with greater   *)
(* names (Shape).  Two texts of that shape order alike the characters they *)
(* share, and two with the same facts are one text.  The invariant,        *)
(* SharedTextInv, says that every text has that shape (Texts), that a site *)
(* has the facts of the posts it received, of its own posts and of its own *)
(* edits (Informed), and that an edit refers only to what was posted before*)
(* it (Causal), so that Applied never drops an insertion and never has to  *)
(* remember a deletion.                                                    *)
(***************************************************************************)
EXTENDS CollabText, SequenceTheorems, WellFoundedInduction, TLAPS

-----------------------------------------------------------------------------
(* Counting and recursion.                                                 *)

LEMMA LeastOf ==
  ASSUME NEW S \in SUBSET Nat, S # {}
  PROVE  \E m \in S : \A n \in S : m <= n
<1>1. \E m \in S : \A n \in S : ~(<<n, m>> \in OpToRel(<, Nat))
  BY NatLessThanWellFounded, WFMin
<1>2. PICK m \in S : \A n \in S : ~(<<n, m>> \in OpToRel(<, Nat))
  BY <1>1
<1>3. \A n \in S : ~(n < m)
  BY <1>2 DEF OpToRel
<1> QED
  BY <1>3

\* Induction, for a property given as the set of numbers that have it.
LEMMA Inductive ==
  ASSUME NEW S, 0 \in S, \A n \in Nat : n \in S => n + 1 \in S
  PROVE  Nat \subseteq S
<1> DEFINE rest == Nat \ S
<1> SUFFICES ASSUME rest # {}
             PROVE  FALSE
  OBVIOUS
<1>1. PICK m \in rest : \A n \in rest : m <= n
  BY LeastOf
<1>2. m - 1 \in Nat /\ m - 1 \notin rest
  BY <1>1
<1> QED
  BY <1>1, <1>2

\* f is computed in n steps, from a, step k by G.
Computed(f, X, a, G, n) ==
  /\ f \in [0 .. n -> X]
  /\ f[0] = a /\ \A k \in 1 .. n : f[k] = G[<<k, f[k - 1]>>]

LEMMA StepByStep ==
  ASSUME NEW X, NEW a \in X, NEW G \in [Nat \X X -> X], NEW N \in Nat
  PROVE  \E f : Computed(f, X, a, G, N)
<1> DEFINE Steps(f, n) == f[0] = a /\ \A k \in 1 .. n : f[k] = G[<<k, f[k - 1]>>]
           S == {n \in Nat : \E f \in [0 .. n -> X] : Steps(f, n)}
<1>1. 0 \in S
  <2>1. Steps([k \in 0 .. 0 |-> a], 0)
    OBVIOUS
  <2> QED
    BY <2>1
<1>2. ASSUME NEW n \in Nat, n \in S
      PROVE  n + 1 \in S
  <2>1. PICK f \in [0 .. n -> X] : Steps(f, n)
    BY <1>2
  <2> DEFINE b == G[<<n + 1, f[n]>>]
             g == [k \in 0 .. n + 1 |-> IF k = n + 1 THEN b ELSE f[k]]
  <2>2. b \in X
    OBVIOUS
  <2>3. g \in [0 .. n + 1 -> X]
    BY <2>2
  <2>4. g[0] = a
    BY <2>1
  <2>5. ASSUME NEW k \in 1 .. n + 1
        PROVE  g[k] = G[<<k, g[k - 1]>>]
    <3>1. k - 1 \in 0 .. n /\ g[k - 1] = f[k - 1]
      OBVIOUS
    <3>2. CASE k = n + 1
      <4>1. g[k] = b /\ k - 1 = n
        BY <3>2
      <4> QED
        BY <3>1, <3>2, <4>1
    <3>3. CASE k \in 1 .. n
      BY <2>1, <3>1, <3>3
    <3> QED
      BY <3>2, <3>3
  <2>6. Steps(g, n + 1)
    BY <2>4, <2>5
  <2> HIDE DEF g
  <2> QED
    BY <2>3, <2>6
<1>3. N \in S
  BY <1>1, <1>2, Inductive
<1> QED
  BY <1>3 DEF Computed


\* A set of naturals with a bound has a greatest member.
LEMMA MaxOf ==
  ASSUME NEW S \in SUBSET Nat, S # {}, NEW u \in Nat, \A x \in S : x <= u
  PROVE  Max(S) \in S /\ \A x \in S : x <= Max(S)
<1> DEFINE U == {v \in Nat : \A x \in S : x <= v}
<1>1. PICK m \in U : \A v \in U : m <= v
  <2>1. U \in SUBSET Nat /\ u \in U
    OBVIOUS
  <2> QED
    BY <2>1, LeastOf
<1>2. m \in S
  <2> SUFFICES ASSUME m \notin S
               PROVE  FALSE
    OBVIOUS
  <2>1. PICK x \in S : TRUE
    OBVIOUS
  <2>2. m - 1 \in Nat
    BY <1>1, <2>1
  <2>3. \A y \in S : y <= m - 1
    BY <1>1
  <2>4. m - 1 \in U
    BY <2>2, <2>3
  <2> QED
    BY <1>1, <2>4
<1>3. \E x \in S : \A y \in S : x >= y
  BY <1>1, <1>2
<1> QED
  BY <1>3 DEF Max

LEMMA MinOf ==
  ASSUME NEW S \in SUBSET Nat, S # {}
  PROVE  Min(S) \in S /\ \A x \in S : Min(S) <= x
<1>1. \E x \in S : \A y \in S : x <= y
  BY LeastOf
<1> QED
  BY <1>1 DEF Min

\* The naturals of a sequence have a bound.
LEMMA Bounded ==
  ASSUME NEW n \in Nat, NEW h \in [1 .. n -> Nat]
  PROVE  \E u \in Nat : \A i \in 1 .. n : h[i] <= u
<1> DEFINE S == {k \in Nat : \E u \in Nat : \A i \in 1 .. n : i <= k => h[i] <= u}
<1>1. 0 \in S
  <2>1. \A i \in 1 .. n : i <= 0 => h[i] <= 0
    OBVIOUS
  <2> QED
    BY <2>1
<1>2. ASSUME NEW k \in Nat, k \in S
      PROVE  k + 1 \in S
  <2>1. PICK u \in Nat : \A i \in 1 .. n : i <= k => h[i] <= u
    BY <1>2
  <2>2. CASE k + 1 \in 1 .. n
    <3>1. h[k + 1] \in Nat
      BY <2>2
    <3> DEFINE v == u + h[k + 1]
    <3>2. v \in Nat /\ \A i \in 1 .. n : i <= k + 1 => h[i] <= v
      BY <2>1, <3>1
    <3> HIDE DEF v
    <3> QED
      BY <3>2
  <2>3. CASE k + 1 \notin 1 .. n
    <3>1. \A i \in 1 .. n : i <= k + 1 => h[i] <= u
      BY <2>1, <2>3
    <3> QED
      BY <3>1
  <2> QED
    BY <2>2, <2>3
<1>3. n \in S
  BY <1>1, <1>2, Inductive
<1> QED
  BY <1>3

-----------------------------------------------------------------------------
(* What the recursions of the module compute.                              *)

\* Each character takes a later time; all at one moment, the next one.
Ticking(ts, n, drift) == \A i \in 2 .. n : ts[i] = ts[i - 1] + 1 + drift[i]

LEMMA TicksAre ==
  ASSUME NEW now \in Nat, NEW n \in 1 .. MaxRun, NEW first \in Ahead,
         NEW drift \in [1 .. MaxRun -> Drift]
  PROVE  /\ Ticks(now, n, first, drift) \in [1 .. n -> Nat]
         /\ Ticks(now, n, first, drift)[1] = now + 1 + first
         /\ Ticking(Ticks(now, n, first, drift), n, drift)
<1> DEFINE a == now + 1 + first
           D == [i \in Nat |-> IF i \in 1 .. MaxRun THEN drift[i] ELSE 0]
           G == [p \in Nat \X Nat |-> IF p[1] = 1 THEN p[2] ELSE p[2] + 1 + D[p[1]]]
           ts == CHOOSE f : f = [i \in 1 .. n |->
                    IF i = 1 THEN now + 1 + first ELSE f[i - 1] + 1 + drift[i]]
<1>1. /\ n \in Nat /\ n >= 1 /\ MaxRun \in Nat /\ a \in Nat
      /\ \A i \in 1 .. n : i \in 1 .. MaxRun /\ drift[i] \in Nat
  <2>1. first \in Nat /\ drift \in [1 .. MaxRun -> Nat] /\ MaxRun \in Nat
    BY ClockAssumption, EditAssumption
  <2>2. n \in Nat /\ n >= 1 /\ n <= MaxRun
    BY <2>1
  <2> QED
    BY <2>1, <2>2
<1>2. G \in [Nat \X Nat -> Nat]
  <2>1. D \in [Nat -> Nat]
    BY <1>1, ClockAssumption
  <2> HIDE DEF D
  <2>2. ASSUME NEW p \in Nat \X Nat
        PROVE  (IF p[1] = 1 THEN p[2] ELSE p[2] + 1 + D[p[1]]) \in Nat
    <3>1. p[1] \in Nat /\ p[2] \in Nat /\ D[p[1]] \in Nat
      BY <2>1
    <3> QED
      BY <3>1
  <2> QED
    BY <2>2
<1>3. PICK g : Computed(g, Nat, a, G, n)
  <2> HIDE DEF G, a
  <2> QED
    BY <1>1, <1>2, StepByStep
<1>4. /\ g \in [0 .. n -> Nat] /\ g[0] = a
      /\ \A i \in 1 .. n : g[i] = G[<<i, g[i - 1]>>]
  BY <1>3 DEF Computed
<1>5. g[1] = a
  <2>1. g[1] = G[<<1, a>>]
    <3> HIDE DEF G, a
    <3>1. 1 \in 1 .. n /\ 1 - 1 = 0
      BY <1>1
    <3> QED
      BY <1>4, <3>1
  <2> HIDE DEF D, a
  <2> QED
    BY <1>1, <2>1
<1>6. ASSUME NEW i \in 2 .. n
      PROVE  g[i] = g[i - 1] + 1 + drift[i]
  <2>1. i \in 1 .. n /\ i \in Nat /\ i # 1 /\ i - 1 \in 0 .. n /\ g[i - 1] \in Nat
    BY <1>1, <1>4
  <2>2. D[i] = drift[i]
    BY <1>1, <2>1
  <2>3. G[<<i, g[i - 1]>>] = g[i - 1] + 1 + D[i]
    BY <2>1
  <2> QED
    BY <1>4, <2>1, <2>2, <2>3
<1> DEFINE h == [i \in 1 .. n |-> g[i]]
<1>7. h = [i \in 1 .. n |-> IF i = 1 THEN now + 1 + first ELSE h[i - 1] + 1 + drift[i]]
  <2>1. ASSUME NEW i \in 1 .. n
        PROVE  g[i] = IF i = 1 THEN now + 1 + first ELSE h[i - 1] + 1 + drift[i]
    <3>1. CASE i = 1
      BY <1>5, <3>1
    <3>2. CASE i # 1
      <4>1. i \in 2 .. n /\ i - 1 \in 1 .. n
        BY <1>1, <3>2
      <4> QED
        BY <1>6, <3>2, <4>1
    <3> QED
      BY <3>1, <3>2
  <2> QED
    BY <2>1
<1>8. ts = [i \in 1 .. n |-> IF i = 1 THEN now + 1 + first ELSE ts[i - 1] + 1 + drift[i]]
  <2> HIDE DEF h
  <2> QED
    BY <1>7
<1>9. Ticks(now, n, first, drift) = ts
  BY DEF Ticks
<1> HIDE DEF ts, h
<1>10. ts[1] = now + 1 + first /\ \A i \in 2 .. n : ts[i] = ts[i - 1] + 1 + drift[i]
  <2>1. 1 \in 1 .. n /\ \A i \in 2 .. n : i \in 1 .. n /\ i # 1
    BY <1>1
  <2> QED
    BY <1>8, <2>1
<1> DEFINE S == {k \in Nat : k + 1 \in 1 .. n => ts[k + 1] \in Nat}
<1>11. 0 \in S
  BY <1>1, <1>10
<1>12. ASSUME NEW k \in Nat, k \in S
       PROVE  k + 1 \in S
  <2>1. CASE (k + 1) + 1 \in 1 .. n
    <3>1. /\ k + 1 \in 1 .. n /\ (k + 1) + 1 \in 2 .. n /\ ((k + 1) + 1) - 1 = k + 1
      BY <1>1, <2>1
    <3>2. ts[(k + 1) + 1] = ts[k + 1] + 1 + drift[(k + 1) + 1]
      BY <1>10, <3>1
    <3>3. ts[k + 1] \in Nat /\ drift[(k + 1) + 1] \in Nat
      BY <1>1, <1>12, <2>1, <3>1
    <3> QED
      BY <3>2, <3>3
  <2>2. CASE (k + 1) + 1 \notin 1 .. n
    BY <2>2
  <2> QED
    BY <2>1, <2>2
<1>13. Nat \subseteq S
  BY <1>11, <1>12, Inductive
<1>14. ASSUME NEW i \in 1 .. n
       PROVE  ts[i] \in Nat
  <2>1. i - 1 \in Nat /\ (i - 1) + 1 = i
    BY <1>1
  <2>2. i - 1 \in S
    BY <1>13, <2>1
  <2> QED
    BY <2>1, <2>2
<1>15. ts \in [1 .. n -> Nat]
  BY <1>8, <1>14
<1> QED
  BY <1>9, <1>10, <1>15 DEF Ticking

-----------------------------------------------------------------------------
(* The order of a text.                                                    *)

LEMMA IdParts ==
  ASSUME NEW a \in Id
  PROVE  a[1] \in Nat /\ a[2] \in Nat /\ a = <<a[1], a[2]>>
<1>1. a[1] \in Nat /\ a[2] \in Site \cup {NoSite} /\ a = <<a[1], a[2]>>
  BY DEF Id
<1>2. Site \cup {NoSite} \subseteq Nat
  BY SiteAssumption DEF NoSite
<1> QED
  BY <1>1, <1>2

LEMMA Parts ==
  ASSUME NEW s \in Seq(Character), NEW i \in DOMAIN s
  PROVE  /\ s[i] \in Character /\ s[i].id \in Id /\ s[i].id[1] \in Nat
         /\ i \in Nat /\ 1 <= i /\ i <= Len(s)
<1>1. s[i] \in Character /\ i \in Nat /\ 1 <= i /\ i <= Len(s)
  OBVIOUS
<1>2. s[i].id \in Id
  BY <1>1 DEF Character
<1> QED
  BY <1>1, <1>2, IdParts

\* Where the characters come from: each is born behind another, or at the
\* start, which is earlier; it is born once.
BirthsOK(B) ==
  /\ \A b \in B : b.id \in Id /\ b.par \in Id /\ b.par[1] < b.id[1]
  /\ \A b, c \in B : b.id = c.id \/ b.ch = c.ch => b = c

\* Between a character and the one it was born behind are greater ones only.
Behind(its, i, par) ==
  \E j \in 0 .. i - 1 :
    /\ par = IF j = 0 THEN Start ELSE its[j].id
    /\ \A m \in j + 1 .. i - 1 : Greater(its[m].id, its[i].id)

Shape(its, B) ==
  /\ \A i \in DOMAIN its : \E b \in B :
       b.id = its[i].id /\ b.ch = its[i].ch /\ Behind(its, i, b.par)
  /\ \A i, j \in DOMAIN its : its[i].id = its[j].id => i = j

\* i and j are in this order in s, and the other way round in t.
Reversed(s, t, i, j, k, l) ==
  /\ i \in DOMAIN s /\ j \in DOMAIN s /\ k \in DOMAIN t /\ l \in DOMAIN t
  /\ i < j /\ k < l /\ s[i].id = t[l].id /\ s[j].id = t[k].id

\* Then the first is greater, or the one that the second was born behind is
\* out of order as well.
LEMMA ReversedBefore ==
  ASSUME NEW B, BirthsOK(B), NEW s \in Seq(Character), NEW t \in Seq(Character),
         Shape(s, B), Shape(t, B),
         NEW i, NEW j, NEW k, NEW l, Reversed(s, t, i, j, k, l)
  PROVE  \/ Greater(s[i].id, s[j].id)
         \/ \E m, n : Reversed(s, t, i, m, n, l) /\ s[m].id[1] < s[j].id[1]
<1>1. /\ DOMAIN s = 1 .. Len(s) /\ DOMAIN t = 1 .. Len(t) /\ Len(s) \in Nat /\ Len(t) \in Nat
      /\ i \in DOMAIN s /\ j \in DOMAIN s /\ k \in DOMAIN t /\ l \in DOMAIN t
      /\ i < j /\ k < l /\ s[i].id = t[l].id /\ s[j].id = t[k].id
      /\ i \in Nat /\ j \in Nat /\ k \in Nat /\ l \in Nat
  BY DEF Reversed
<1>2. PICK b \in B : b.id = s[j].id /\ Behind(s, j, b.par)
  BY <1>1 DEF Shape
<1>3. PICK c \in B : c.id = t[k].id /\ Behind(t, k, c.par)
  BY <1>1 DEF Shape
<1>4. b = c
  BY <1>1, <1>2, <1>3 DEF BirthsOK
<1>5. PICK m \in 0 .. j - 1 :
        /\ b.par = IF m = 0 THEN Start ELSE s[m].id
        /\ \A h \in m + 1 .. j - 1 : Greater(s[h].id, s[j].id)
  BY <1>2 DEF Behind
<1>6. PICK n \in 0 .. k - 1 : b.par = IF n = 0 THEN Start ELSE t[n].id
  BY <1>3, <1>4 DEF Behind
<1>7. CASE m < i
  <2>1. i \in m + 1 .. j - 1
    BY <1>1, <1>7
  <2> QED
    BY <1>5, <2>1
<1>8. CASE ~(m < i)
  <2>1. m \in DOMAIN s /\ m # 0 /\ b.par = s[m].id
    BY <1>1, <1>5, <1>8
  <2>2. PICK d \in B : d.id = s[m].id
    BY <2>1 DEF Shape
  <2>3. s[m].id \in Id /\ s[m].id[1] > 0
    BY <2>1, <2>2 DEF BirthsOK, Id
  <2>4. n # 0
    BY <1>6, <2>1, <2>3 DEF Start
  <2>5. n \in DOMAIN t /\ t[n].id = s[m].id /\ n < l
    BY <1>1, <1>6, <2>1, <2>4
  <2>6. s[m].id[1] < s[j].id[1]
    BY <1>2, <2>1 DEF BirthsOK
  <2>7. m # i
    BY <1>1, <2>5 DEF Shape
  <2>8. i < m
    BY <1>1, <1>8, <2>7
  <2>9. Reversed(s, t, i, m, n, l)
    BY <1>1, <2>1, <2>5, <2>8 DEF Reversed
  <2> QED
    BY <2>6, <2>9
<1> QED
  BY <1>7, <1>8

\* No two texts order two characters differently.
LEMMA OneOrder ==
  ASSUME NEW B, BirthsOK(B), NEW s \in Seq(Character), NEW t \in Seq(Character),
         Shape(s, B), Shape(t, B)
  PROVE  \A i, j, k, l : ~Reversed(s, t, i, j, k, l)
<1> DEFINE Measure(i, j) == s[i].id[1] + s[j].id[1]
           S == {v \in Nat : \E i, j, k, l : Reversed(s, t, i, j, k, l) /\ v = Measure(i, j)}
<1> SUFFICES ASSUME NEW i, NEW j, NEW k, NEW l, Reversed(s, t, i, j, k, l)
             PROVE  FALSE
  OBVIOUS
<1>1. ASSUME NEW e \in DOMAIN s
      PROVE  s[e].id[1] \in Nat
  BY Parts
<1>2. ASSUME NEW a, NEW b, NEW c, NEW d, Reversed(s, t, a, b, c, d)
      PROVE  Measure(a, b) \in S
  <2>1. s[a].id[1] \in Nat /\ s[b].id[1] \in Nat
    BY <1>1, <1>2 DEF Reversed
  <2> QED
    BY <1>2, <2>1
<1>3. PICK v \in S : \A w \in S : v <= w
  <2>1. S \in SUBSET Nat /\ S # {}
    BY <1>2
  <2> HIDE DEF S
  <2> QED
    BY <2>1, LeastOf
<1>4. PICK a, b, c, d : Reversed(s, t, a, b, c, d) /\ v = Measure(a, b)
  OBVIOUS
<1>5. /\ a \in DOMAIN s /\ b \in DOMAIN s /\ c \in DOMAIN t /\ d \in DOMAIN t
      /\ a < b /\ c < d /\ s[a].id = t[d].id /\ s[b].id = t[c].id
      /\ s[a].id[1] \in Nat /\ s[b].id[1] \in Nat
  BY <1>1, <1>4 DEF Reversed
<1>6. Reversed(t, s, c, d, a, b)
  BY <1>5 DEF Reversed
<1>7. ASSUME NEW m, NEW n, Reversed(s, t, a, m, n, d), s[m].id[1] < s[b].id[1]
      PROVE  FALSE
  <2>1. m \in DOMAIN s /\ Measure(a, m) \in S
    BY <1>2, <1>7 DEF Reversed
  <2>2. s[m].id[1] \in Nat /\ v <= Measure(a, m)
    BY <1>1, <1>3, <2>1
  <2> QED
    BY <1>4, <1>5, <1>7, <2>2, SMTT(30)
<1>8. ASSUME NEW m, NEW n, Reversed(t, s, c, m, n, b), t[m].id[1] < t[d].id[1]
      PROVE  FALSE
  <2>1. Reversed(s, t, n, b, c, m) /\ n \in DOMAIN s /\ s[n].id = t[m].id
    BY <1>8 DEF Reversed
  <2>2. s[n].id[1] \in Nat /\ v <= Measure(n, b)
    BY <1>1, <1>2, <1>3, <2>1
  <2> QED
    BY <1>4, <1>5, <1>8, <2>1, <2>2, SMTT(30)
<1>9. Greater(s[a].id, s[b].id)
  <2> HIDE DEF Measure
  <2> QED
    BY <1>4, <1>7, ReversedBefore
<1>10. Greater(t[c].id, t[d].id)
  <2> HIDE DEF Measure
  <2> QED
    BY <1>6, <1>8, ReversedBefore
<1>11. s[a].id \in Id /\ s[b].id \in Id
  BY <1>5, Parts
<1>12. /\ s[a].id[1] \in Nat /\ s[b].id[1] \in Nat
       /\ s[a].id[2] \in Nat /\ s[b].id[2] \in Nat
  BY <1>11, IdParts
<1>13. Greater(s[b].id, s[a].id)
  BY <1>5, <1>10
<1> QED
  BY <1>9, <1>12, <1>13 DEF Greater

\* Texts with the same characters have them at the same places.
LEMMA SamePlaces ==
  ASSUME NEW B, BirthsOK(B), NEW s \in Seq(Character), NEW t \in Seq(Character),
         Shape(s, B), Shape(t, B),
         \A i \in DOMAIN s : Knows(t, s[i].id), \A i \in DOMAIN t : Knows(s, t[i].id)
  PROVE  \A n \in DOMAIN s : n \in DOMAIN t /\ s[n].id = t[n].id
<1> DEFINE S == {n \in DOMAIN s : ~(n \in DOMAIN t /\ s[n].id = t[n].id)}
<1> SUFFICES ASSUME S # {}
             PROVE  FALSE
  OBVIOUS
<1>1. DOMAIN s = 1 .. Len(s) /\ DOMAIN t = 1 .. Len(t) /\ Len(s) \in Nat /\ Len(t) \in Nat
  OBVIOUS
<1>2. PICK n \in S : \A m \in S : n <= m
  <2>1. S \in SUBSET Nat
    BY <1>1
  <2> HIDE DEF S
  <2> QED
    BY <2>1, LeastOf
<1>3. n \in DOMAIN s /\ n \in Nat
  BY <1>1, <1>2
<1>4. \A m \in DOMAIN s : m < n => m \in DOMAIN t /\ s[m].id = t[m].id
  BY <1>1, <1>2
<1>5. PICK k \in DOMAIN t : t[k].id = s[n].id
  BY <1>3 DEF Knows
<1>6. ~(k < n)
  <2> SUFFICES ASSUME k < n
               PROVE  FALSE
    OBVIOUS
  <2>1. k \in DOMAIN s /\ s[k].id = t[k].id
    BY <1>1, <1>3, <1>4
  <2> QED
    BY <1>1, <1>3, <1>5, <2>1 DEF Shape
<1>7. n \in DOMAIN t /\ k # n
  BY <1>1, <1>2, <1>3, <1>5, <1>6
<1>8. PICK m \in DOMAIN s : s[m].id = t[n].id
  BY <1>7 DEF Knows
<1>9. ~(m < n)
  <2> SUFFICES ASSUME m < n
               PROVE  FALSE
    OBVIOUS
  <2>1. t[m].id = t[n].id /\ m \in DOMAIN t
    BY <1>4, <1>8
  <2> QED
    BY <1>1, <1>7, <2>1 DEF Shape
<1>10. m # n
  BY <1>2, <1>7, <1>8
<1>11. Reversed(s, t, n, m, n, k)
  <2>1. m \in Nat /\ k \in Nat
    BY <1>1
  <2> QED
    BY <1>3, <1>5, <1>6, <1>7, <1>8, <1>9, <1>10, <2>1 DEF Reversed
<1> QED
  BY <1>11, OneOrder

\* ... and if they agree on what is deleted, they are the same text.
LEMMA SameText ==
  ASSUME NEW B, BirthsOK(B), NEW s \in Seq(Character), NEW t \in Seq(Character),
         Shape(s, B), Shape(t, B),
         \A i \in DOMAIN s : Knows(t, s[i].id), \A i \in DOMAIN t : Knows(s, t[i].id),
         \A i \in DOMAIN s, j \in DOMAIN t :
           s[i].id = t[j].id => s[i].deleted = t[j].deleted
  PROVE  s = t
<1>1. \A n \in DOMAIN s : n \in DOMAIN t /\ s[n].id = t[n].id
  BY SamePlaces
<1>2. \A n \in DOMAIN t : n \in DOMAIN s
  BY SamePlaces
<1>3. DOMAIN s = 1 .. Len(s) /\ DOMAIN t = 1 .. Len(t) /\ Len(s) \in Nat /\ Len(t) \in Nat
  OBVIOUS
<1>4. Len(s) = Len(t)
  <2>1. Len(s) > 0 => Len(s) <= Len(t)
    BY <1>1, <1>3
  <2>2. Len(t) > 0 => Len(t) <= Len(s)
    BY <1>2, <1>3
  <2>3. Len(s) \in Nat /\ Len(t) \in Nat
    OBVIOUS
  <2> QED
    BY <2>1, <2>2, <2>3
<1>5. ASSUME NEW n \in DOMAIN s
      PROVE  s[n] = t[n]
  <2>1. n \in DOMAIN t /\ s[n].id = t[n].id /\ s[n].deleted = t[n].deleted
    BY <1>1
  <2>2. PICK b \in B : b.id = s[n].id /\ b.ch = s[n].ch
    BY DEF Shape
  <2>3. PICK c \in B : c.id = t[n].id /\ c.ch = t[n].ch
    BY <2>1 DEF Shape
  <2>4. s[n].ch = t[n].ch
    BY <2>1, <2>2, <2>3 DEF BirthsOK
  <2>5. s[n] \in Character /\ t[n] \in Character
    BY <2>1
  <2> QED
    BY <2>1, <2>4, <2>5 DEF Character
<1> QED
  BY <1>3, <1>4, <1>5, SeqEqual

-----------------------------------------------------------------------------
(* Where an insertion goes.                                                *)

LEMMA GreaterIsTotal ==
  ASSUME NEW a \in Id, NEW b \in Id
  PROVE  a = b \/ Greater(a, b) \/ Greater(b, a)
<1>1. /\ a[1] \in Nat /\ a[2] \in Nat /\ a = <<a[1], a[2]>>
      /\ b[1] \in Nat /\ b[2] \in Nat /\ b = <<b[1], b[2]>>
  BY IdParts
<1> QED
  BY <1>1 DEF Greater

LEMMA GreaterIsTransitive ==
  ASSUME NEW a \in Id, NEW b \in Id, NEW c \in Id, Greater(a, b), Greater(b, c)
  PROVE  Greater(a, c)
<1>1. /\ a[1] \in Nat /\ a[2] \in Nat /\ b[1] \in Nat /\ b[2] \in Nat
      /\ c[1] \in Nat /\ c[2] \in Nat
  BY IdParts
<1> QED
  BY <1>1 DEF Greater

LEMMA FoundAt ==
  ASSUME NEW its \in Seq(Character), NEW id, Knows(its, id)
  PROVE  Find(its, id) \in DOMAIN its /\ its[Find(its, id)].id = id
BY DEF Knows, Find

LEMMA PlaceAt ==
  ASSUME NEW its \in Seq(Character), NEW id, NEW prev \in 0 .. Len(its)
  PROVE  /\ Place(its, prev, id) \in prev .. Len(its)
         /\ \A i \in prev + 1 .. Place(its, prev, id) : Greater(its[i].id, id)
         /\ \/ Place(its, prev, id) = Len(its)
            \/ ~Greater(its[Place(its, prev, id) + 1].id, id)
<1> DEFINE S == {p \in prev .. Len(its) : p = Len(its) \/ ~Greater(its[p + 1].id, id)}
<1>1. Len(its) \in Nat /\ prev \in Nat /\ prev <= Len(its)
  OBVIOUS
<1>2. PICK p \in S : \A q \in S : p <= q
  <2>1. S \in SUBSET Nat /\ Len(its) \in S
    BY <1>1
  <2> HIDE DEF S
  <2> QED
    BY <2>1, LeastOf
<1>3. ASSUME NEW i \in prev + 1 .. p
      PROVE  Greater(its[i].id, id)
  <2>1. i - 1 \in prev .. Len(its) /\ i - 1 < p /\ (i - 1) + 1 = i /\ i - 1 # Len(its)
    BY <1>1, <1>2
  <2>2. i - 1 \notin S
    <3>1. p \in Nat /\ i - 1 \in Nat /\ ~(p <= i - 1)
      BY <1>1, <2>1
    <3> QED
      BY <1>2, <3>1
  <2> QED
    BY <2>1, <2>2
<1>4. \E q \in prev .. Len(its) :
        /\ \A i \in prev + 1 .. q : Greater(its[i].id, id)
        /\ q = Len(its) \/ ~Greater(its[q + 1].id, id)
  BY <1>2, <1>3
<1> QED
  BY <1>4 DEF Place

LEMMA SplicedAt ==
  ASSUME NEW its \in Seq(Character), NEW run \in Seq(Character), NEW at \in 0 .. Len(its)
  PROVE  LET new == Spliced(its, at, run)
             n == Len(run)
         IN  /\ new \in Seq(Character) /\ Len(new) = Len(its) + n
             /\ \A i \in 1 .. at : new[i] = its[i]
             /\ \A k \in 1 .. n : new[at + k] = run[k]
             /\ \A i \in at + 1 .. Len(its) : new[i + n] = its[i]
<1> DEFINE a == SubSeq(its, 1, at)
           c == SubSeq(its, at + 1, Len(its))
           n == Len(run)
<1>1. at \in Nat /\ Len(its) \in Nat /\ at <= Len(its) /\ n \in Nat
  OBVIOUS
<1>2. /\ a \in Seq(Character) /\ Len(a) = at
      /\ \A i \in 1 .. at : a[i] = its[i]
  <2>1. \A i \in 1 .. at : its[i] \in Character
    BY <1>1
  <2>2. /\ a \in Seq(Character) /\ Len(a) = IF 1 <= at THEN at - 1 + 1 ELSE 0
        /\ \A i \in 1 .. at - 1 + 1 : a[i] = its[1 + i - 1]
    <3> HIDE DEF a
    <3> QED
      BY <1>1, <2>1, SubSeqProperties DEF a
  <2> QED
    BY <1>1, <2>2
<1>3. /\ c \in Seq(Character) /\ Len(c) = Len(its) - at
      /\ \A i \in 1 .. Len(its) - at : c[i] = its[at + i]
  <2>1. \A i \in at + 1 .. Len(its) : its[i] \in Character
    BY <1>1
  <2>2. /\ c \in Seq(Character)
        /\ Len(c) = IF at + 1 <= Len(its) THEN Len(its) - (at + 1) + 1 ELSE 0
        /\ \A i \in 1 .. Len(its) - (at + 1) + 1 : c[i] = its[at + 1 + i - 1]
    <3> HIDE DEF c
    <3> QED
      BY <1>1, <2>1, SubSeqProperties DEF c
  <2> QED
    BY <1>1, <2>2
<1> HIDE DEF a, c
<1>4. /\ a \o run \in Seq(Character) /\ Len(a \o run) = at + n
      /\ \A i \in 1 .. at + n : (a \o run)[i] = IF i <= at THEN a[i] ELSE run[i - at]
  BY <1>1, <1>2, ConcatProperties
<1> DEFINE r == a \o run
           new == r \o c
<1>5. /\ new \in Seq(Character) /\ Len(new) = Len(its) + n
      /\ \A i \in 1 .. Len(its) + n :
           new[i] = IF i <= at + n THEN r[i] ELSE c[i - (at + n)]
  <2>1. r \in Seq(Character) /\ Len(r) = at + n
    BY <1>4
  <2> HIDE DEF r
  <2>2. /\ r \o c \in Seq(Character) /\ Len(r \o c) = Len(r) + Len(c)
        /\ \A i \in 1 .. Len(r) + Len(c) :
             (r \o c)[i] = IF i <= Len(r) THEN r[i] ELSE c[i - Len(r)]
    BY <1>3, <2>1, ConcatProperties
  <2>3. Len(r) + Len(c) = Len(its) + n
    BY <1>1, <1>3, <2>1
  <2> QED
    BY <2>1, <2>2, <2>3
<1>6. Spliced(its, at, run) = new
  BY DEF Spliced, a, c
<1> HIDE DEF new, r
<1>7. \A i \in 1 .. at + n : r[i] = IF i <= at THEN a[i] ELSE run[i - at]
  BY <1>4 DEF r
<1>8. ASSUME NEW i \in 1 .. at
      PROVE  new[i] = its[i]
  BY <1>1, <1>2, <1>5, <1>7, SMTT(30)
<1>9. ASSUME NEW k \in 1 .. n
      PROVE  new[at + k] = run[k]
  <2>1. /\ at + k \in 1 .. at + n /\ at + k \in 1 .. Len(its) + n
        /\ ~(at + k <= at) /\ (at + k) - at = k /\ at + k <= at + n
    BY <1>1
  <2>2. r[at + k] = run[k]
    BY <1>7, <2>1
  <2> QED
    BY <1>5, <2>1, <2>2
<1>10. ASSUME NEW i \in at + 1 .. Len(its)
       PROVE  new[i + n] = its[i]
  <2>1. /\ i + n \in 1 .. Len(its) + n /\ ~(i + n <= at + n)
        /\ (i + n) - (at + n) = i - at /\ i - at \in 1 .. Len(its) - at
        /\ at + (i - at) = i
    BY <1>1
  <2> QED
    BY <1>3, <1>5, <2>1
<1> QED
  BY <1>5, <1>6, <1>8, <1>9, <1>10

\* A new run was born behind the character at prev, and goes behind what was
\* put there under greater names.
Fits(B, its, run, prev, at) ==
  /\ \A i \in prev + 1 .. at : Greater(its[i].id, run[1].id)
  /\ at = Len(its) \/ Greater(run[1].id, its[at + 1].id)
  /\ \A k \in DOMAIN run : \E b \in B :
       /\ b.id = run[k].id /\ b.ch = run[k].ch
       /\ b.par = IF k = 1 THEN (IF prev = 0 THEN Start ELSE its[prev].id)
                           ELSE run[k - 1].id
  /\ \A k \in DOMAIN run : k # 1 => Greater(run[k].id, run[1].id)
  /\ \A k \in DOMAIN run : ~Knows(its, run[k].id)
  /\ \A k, m \in DOMAIN run : run[k].id = run[m].id => k = m

\* It leaves the order of a text as it should be.
LEMMA SplicedShape ==
  ASSUME NEW B, BirthsOK(B), NEW its \in Seq(Character), Shape(its, B),
         NEW run \in Seq(Character), Len(run) >= 1,
         NEW prev \in 0 .. Len(its), NEW at \in prev .. Len(its),
         Fits(B, its, run, prev, at)
  PROVE  Shape(Spliced(its, at, run), B)
<1> DEFINE new == Spliced(its, at, run)
           n == Len(run)
<1>1. /\ at \in Nat /\ prev \in Nat /\ Len(its) \in Nat /\ n \in Nat /\ n >= 1
      /\ prev <= at /\ at <= Len(its) /\ DOMAIN its = 1 .. Len(its) /\ DOMAIN run = 1 .. n
  OBVIOUS
<1>2. /\ new \in Seq(Character) /\ Len(new) = Len(its) + n
      /\ DOMAIN new = 1 .. Len(its) + n
      /\ \A i \in 1 .. at : new[i] = its[i]
      /\ \A k \in 1 .. n : new[at + k] = run[k]
      /\ \A i \in at + 1 .. Len(its) : new[i + n] = its[i]
  <2>1. at \in 0 .. Len(its)
    BY <1>1
  <2> HIDE DEF new
  <2>2. /\ new \in Seq(Character) /\ Len(new) = Len(its) + n
        /\ \A i \in 1 .. at : new[i] = its[i]
        /\ \A k \in 1 .. n : new[at + k] = run[k]
        /\ \A i \in at + 1 .. Len(its) : new[i + n] = its[i]
    BY <2>1, SplicedAt DEF new
  <2> QED
    BY <2>2
<1> HIDE DEF new, n
<1>4. ASSUME NEW i \in DOMAIN its
      PROVE  \E b \in B : b.id = its[i].id /\ b.ch = its[i].ch /\ Behind(its, i, b.par)
  BY DEF Shape
<1>5. ASSUME NEW i \in Nat, i \in 1 .. at
      PROVE  \E b \in B : b.id = new[i].id /\ b.ch = new[i].ch /\ Behind(new, i, b.par)
  <2>1. i \in DOMAIN its /\ i <= at
    BY <1>1, <1>5
  <2>2. PICK b \in B : b.id = its[i].id /\ b.ch = its[i].ch /\ Behind(its, i, b.par)
    BY <1>4, <2>1
  <2>3. PICK j \in 0 .. i - 1 :
          /\ b.par = IF j = 0 THEN Start ELSE its[j].id
          /\ \A m \in j + 1 .. i - 1 : Greater(its[m].id, its[i].id)
    BY <2>2 DEF Behind
  <2>4. j \in Nat /\ j < i
    OBVIOUS
  <2>5. new[i] = its[i]
    BY <1>2, <1>5
  <2>6. ASSUME NEW m \in Nat, 1 <= m, m < i
        PROVE  new[m] = its[m]
    <3>1. m \in 1 .. at
      BY <1>1, <2>1, <2>6
    <3> QED
      BY <1>2, <3>1
  <2>7. b.par = IF j = 0 THEN Start ELSE new[j].id
    BY <2>3, <2>4, <2>6
  <2>8. ASSUME NEW m \in j + 1 .. i - 1
        PROVE  Greater(new[m].id, new[i].id)
    <3>1. m \in Nat /\ 1 <= m /\ m < i
      BY <2>4
    <3> QED
      BY <2>3, <2>5, <2>6, <3>1
  <2>9. Behind(new, i, b.par)
    BY <2>7, <2>8 DEF Behind
  <2> QED
    BY <2>2, <2>5, <2>9
<1>6. ASSUME NEW k \in Nat, k \in 1 .. n, NEW i \in Nat, i = at + k
      PROVE  \E b \in B : b.id = new[i].id /\ b.ch = new[i].ch /\ Behind(new, i, b.par)
  <2>1. k \in DOMAIN run /\ new[i] = run[k]
    BY <1>1, <1>2, <1>6
  <2>2. PICK b \in B : /\ b.id = run[k].id /\ b.ch = run[k].ch
                       /\ b.par = IF k = 1 THEN (IF prev = 0 THEN Start ELSE its[prev].id)
                                           ELSE run[k - 1].id
    BY <2>1 DEF Fits
  <2>3. CASE k = 1
    <3>1. prev \in 0 .. i - 1
      BY <1>1, <1>6, <2>3
    <3>2. prev # 0 => new[prev] = its[prev]
      BY <1>1, <1>2
    <3>3. b.par = IF prev = 0 THEN Start ELSE new[prev].id
      BY <2>2, <2>3, <3>2
    <3>4. ASSUME NEW m \in prev + 1 .. i - 1
          PROVE  Greater(new[m].id, new[i].id)
      <4>1. m \in prev + 1 .. at /\ m \in 1 .. at
        BY <1>1, <1>6, <2>3
      <4> QED
        BY <1>2, <2>1, <2>3, <4>1 DEF Fits
    <3>5. Behind(new, i, b.par)
      BY <3>1, <3>3, <3>4 DEF Behind
    <3> QED
      BY <2>1, <2>2, <3>5
  <2>4. CASE k # 1
    <3>1. /\ i - 1 \in 0 .. i - 1 /\ i - 1 # 0 /\ i - 1 = at + (k - 1)
          /\ k - 1 \in 1 .. n
      BY <1>1, <1>6, <2>4
    <3>2. b.par = new[i - 1].id
      BY <1>2, <2>2, <2>4, <3>1
    <3>3. \A m \in (i - 1) + 1 .. i - 1 : FALSE
      OBVIOUS
    <3>4. Behind(new, i, b.par)
      BY <3>1, <3>2, <3>3 DEF Behind
    <3> QED
      BY <2>1, <2>2, <3>4
  <2> QED
    BY <2>3, <2>4
<1>7. ASSUME NEW o \in Nat, o \in at + 1 .. Len(its), NEW i \in Nat, i = o + n
      PROVE  \E b \in B : b.id = new[i].id /\ b.ch = new[i].ch /\ Behind(new, i, b.par)
  <2>1. o \in DOMAIN its /\ new[i] = its[o] /\ at < o /\ o <= Len(its)
    BY <1>1, <1>2, <1>7
  <2>2. PICK b \in B : b.id = its[o].id /\ b.ch = its[o].ch /\ Behind(its, o, b.par)
    BY <1>4, <2>1
  <2>3. PICK j \in 0 .. o - 1 :
          /\ b.par = IF j = 0 THEN Start ELSE its[j].id
          /\ \A m \in j + 1 .. o - 1 : Greater(its[m].id, its[o].id)
    BY <2>2 DEF Behind
  <2>4. j \in Nat /\ j < o
    OBVIOUS
  \* What stood between them is still greater ...
  <2>5. ASSUME NEW m \in Nat, m \in j + 1 .. o - 1
        PROVE  /\ m <= at => Greater(new[m].id, new[i].id)
               /\ m > at => Greater(new[m + n].id, new[i].id)
    <3>1. Greater(its[m].id, new[i].id)
      BY <2>1, <2>3, <2>5
    <3>2. m <= at => new[m] = its[m]
      BY <1>1, <1>2, <2>4, <2>5
    <3>3. m > at => new[m + n] = its[m]
      BY <1>1, <1>2, <2>1, <2>4, <2>5
    <3> QED
      BY <3>1, <3>2, <3>3
  \* ... and the run is, if it came between them.
  <2>6. ASSUME NEW k \in Nat, k \in 1 .. n, j <= at
        PROVE  Greater(new[at + k].id, new[i].id)
    <3>1. k \in DOMAIN run /\ 1 \in DOMAIN run /\ at + 1 \in DOMAIN its /\ new[at + k] = run[k]
      BY <1>1, <1>2, <2>1, <2>6
    <3>2. run[k].id \in Id /\ run[1].id \in Id /\ its[at + 1].id \in Id /\ its[o].id \in Id
      BY <2>1, <3>1, Parts
    <3>3. Greater(run[1].id, its[at + 1].id)
      <4>1. at < Len(its)
        BY <1>1, <2>1
      <4>2. ASSUME at = Len(its)
            PROVE  FALSE
        BY <1>1, <4>1, <4>2
      <4> QED
        BY <4>2 DEF Fits
    <3>4. at + 1 = o \/ Greater(its[at + 1].id, its[o].id)
      BY <1>1, <2>1, <2>3, <2>4, <2>6
    <3>5. Greater(run[1].id, its[o].id)
      BY <3>2, <3>3, <3>4, GreaterIsTransitive
    <3>6. k # 1 => Greater(run[k].id, run[1].id)
      BY <3>1 DEF Fits
    <3>7. Greater(run[k].id, its[o].id)
      BY <3>2, <3>5, <3>6, GreaterIsTransitive
    <3> QED
      BY <2>1, <3>1, <3>7
  <2>7. CASE j <= at
    <3>1. j \in 0 .. i - 1
      BY <1>1, <1>7, <2>4
    <3>2. j # 0 => new[j] = its[j]
      BY <1>1, <1>2, <2>4, <2>7
    <3>3. b.par = IF j = 0 THEN Start ELSE new[j].id
      BY <2>3, <3>2
    <3>4. ASSUME NEW m \in j + 1 .. i - 1
          PROVE  Greater(new[m].id, new[i].id)
      <4>1. m \in Nat /\ j < m /\ m < o + n
        BY <1>1, <1>7, <2>4
      <4>2. CASE m <= at
        <5>1. m \in j + 1 .. o - 1
          BY <1>1, <2>1, <2>4, <4>1, <4>2
        <5> QED
          BY <2>5, <4>1, <4>2, <5>1
      <4>3. CASE at < m /\ m <= at + n
        <5>1. m - at \in Nat /\ m - at \in 1 .. n /\ at + (m - at) = m
          BY <1>1, <4>1, <4>3
        <5> QED
          BY <2>6, <2>7, <5>1
      <4>4. CASE m > at + n
        <5>1. m - n \in Nat /\ m - n \in j + 1 .. o - 1 /\ m - n > at /\ (m - n) + n = m
          BY <1>1, <2>4, <2>7, <4>1, <4>4
        <5> QED
          BY <2>5, <5>1
      <4> QED
        BY <1>1, <4>1, <4>2, <4>3, <4>4
    <3>5. Behind(new, i, b.par)
      BY <3>1, <3>3, <3>4 DEF Behind
    <3> QED
      BY <2>1, <2>2, <3>5
  <2>8. CASE j > at
    <3>1. j + n \in 0 .. i - 1 /\ j + n # 0
      BY <1>1, <1>7, <2>4, <2>8
    <3>2. new[j + n] = its[j]
      BY <1>1, <1>2, <2>1, <2>4, <2>8
    <3>3. b.par = new[j + n].id
      BY <1>1, <2>3, <2>4, <2>8, <3>2
    <3>4. ASSUME NEW m \in (j + n) + 1 .. i - 1
          PROVE  Greater(new[m].id, new[i].id)
      <4>1. m - n \in Nat /\ m - n \in j + 1 .. o - 1 /\ m - n > at /\ (m - n) + n = m
        BY <1>1, <1>7, <2>4, <2>8
      <4> QED
        BY <2>5, <4>1
    <3>5. Behind(new, i, b.par)
      BY <3>1, <3>3, <3>4 DEF Behind
    <3> QED
      BY <2>1, <2>2, <3>5
  <2> QED
    BY <1>1, <2>4, <2>7, <2>8
<1>8. ASSUME NEW i \in DOMAIN new
      PROVE  \E b \in B : b.id = new[i].id /\ b.ch = new[i].ch /\ Behind(new, i, b.par)
  <2>1. i \in Nat /\ i \in 1 .. Len(its) + n
    BY <1>1, <1>2
  <2>2. CASE i \in 1 .. at
    BY <1>5, <2>1, <2>2
  <2>3. CASE i - at \in 1 .. n
    <3>1. i - at \in Nat /\ i = at + (i - at)
      BY <1>1, <2>1, <2>3
    <3> QED
      BY <1>6, <2>1, <2>3, <3>1
  <2>4. CASE i - n \in at + 1 .. Len(its)
    <3>1. i - n \in Nat /\ i = (i - n) + n
      BY <1>1, <2>1, <2>4
    <3> QED
      BY <1>7, <2>1, <2>4, <3>1
  <2> QED
    BY <1>1, <2>1, <2>2, <2>3, <2>4
\* The places of a character that is in the new text.
<1>9. ASSUME NEW i \in DOMAIN new
      PROVE  \/ i \in 1 .. at /\ new[i] = its[i] /\ i \in DOMAIN its
             \/ \E k \in DOMAIN run : i = at + k /\ new[i] = run[k]
             \/ \E o \in DOMAIN its : o > at /\ i = o + n /\ new[i] = its[o]
  <2>1. i \in Nat /\ i \in 1 .. Len(its) + n
    BY <1>1, <1>2
  <2>2. CASE i \in 1 .. at
    BY <1>1, <1>2, <2>2
  <2>3. CASE i - at \in 1 .. n
    <3>1. i = at + (i - at)
      BY <1>1, <2>1, <2>3
    <3> QED
      BY <1>1, <1>2, <2>3, <3>1
  <2>4. CASE i - n \in at + 1 .. Len(its)
    <3>1. i = (i - n) + n /\ i - n > at
      BY <1>1, <2>1, <2>4
    <3>2. i - n \in DOMAIN its /\ new[(i - n) + n] = its[i - n]
      BY <1>1, <1>2, <2>4
    <3> QED
      BY <3>1, <3>2
  <2> QED
    BY <1>1, <2>1, <2>2, <2>3, <2>4
<1>10. ASSUME NEW i \in DOMAIN new, NEW j \in DOMAIN new, new[i].id = new[j].id
       PROVE  i = j
  <2>1. \A k \in DOMAIN run, o \in DOMAIN its : run[k].id # its[o].id
    BY DEF Fits, Knows
  <2>2. \A a, b \in DOMAIN its : its[a].id = its[b].id => a = b
    BY DEF Shape
  <2>3. \A a, b \in DOMAIN run : run[a].id = run[b].id => a = b
    BY DEF Fits
  <2>4. \A a \in DOMAIN its : a \in Nat
    BY <1>1
  <2>5. CASE \E k \in DOMAIN run : i = at + k /\ new[i] = run[k]
    BY <1>9, <1>10, <2>1, <2>3, <2>5
  <2>6. CASE i \in 1 .. at /\ new[i] = its[i] /\ i \in DOMAIN its
    BY <1>1, <1>9, <1>10, <2>1, <2>2, <2>4, <2>6
  <2>7. CASE \E o \in DOMAIN its : o > at /\ i = o + n /\ new[i] = its[o]
    BY <1>1, <1>9, <1>10, <2>1, <2>2, <2>4, <2>7
  <2> QED
    BY <1>9, <2>5, <2>6, <2>7
<1> QED
  BY <1>8, <1>10 DEF Shape, new

-----------------------------------------------------------------------------
(* Operations, and the types of what they make of a text.                  *)

Operation == Insertion \cup Deletion
TextType == [items : Seq(Character), seen : SUBSET Id, clock : Nat]

\* The k-th name of an insertion.
Name(op, k) == <<op.id[1] + k - 1, op.id[2]>>

LEMMA InsertionParts ==
  ASSUME NEW op \in Insertion
  PROVE  /\ op.k = "i" /\ op.after \in Id /\ op.id \in Id /\ op.c \in Seq(Char)
         /\ op.id[1] \in Nat /\ op.id[2] \in Site /\ op.id[2] \in Nat /\ op.id[2] # NoSite
         /\ op.id = <<op.id[1], op.id[2]>>
         /\ Len(op.c) \in Nat /\ DOMAIN op.c = 1 .. Len(op.c)
         /\ op.after[1] \in Nat
<1>1. op.k = "i" /\ op.after \in Id /\ op.id \in Nat \X Site /\ op.c \in Seq(Char)
  BY DEF Insertion
<1>2. op.id[1] \in Nat /\ op.id[2] \in Site /\ op.id = <<op.id[1], op.id[2]>>
  BY <1>1
<1>3. op.id \in Id
  BY <1>1, <1>2 DEF Id
<1>4. op.id[2] \in Nat /\ op.id[2] # NoSite
  BY <1>2, SiteAssumption DEF NoSite
<1>5. op.after[1] \in Nat
  BY <1>1, IdParts
<1> QED
  BY <1>1, <1>2, <1>3, <1>4, <1>5

LEMMA NamesAre ==
  ASSUME NEW op \in Insertion, NEW k \in DOMAIN op.c
  PROVE  /\ k \in Nat /\ 1 <= k /\ k <= Len(op.c)
         /\ Name(op, k) \in Id /\ Name(op, k)[1] = op.id[1] + k - 1
         /\ Name(op, k)[2] = op.id[2] /\ Name(op, k)[1] \in Nat
         /\ op.c[k] \in Int
         /\ Names(op)[k] = Name(op, k)
<1>1. k \in Nat /\ 1 <= k /\ k <= Len(op.c) /\ op.c[k] \in Int
  BY InsertionParts DEF Char
<1>2. op.id[1] + k - 1 \in Nat /\ op.id[2] \in Site
  BY <1>1, InsertionParts
<1>3. Name(op, k) \in Id
  BY <1>2 DEF Name, Id
<1>4. Names(op)[k] = Name(op, k)
  BY DEF Names, Name
<1> QED
  BY <1>1, <1>2, <1>3, <1>4 DEF Name

LEMMA NamesInOrder ==
  ASSUME NEW op \in Insertion
  PROVE  /\ Names(op) \in [DOMAIN op.c -> Id]
         /\ Range(Names(op)) = {Name(op, k) : k \in DOMAIN op.c}
<1>1. DOMAIN Names(op) = DOMAIN op.c /\ Names(op) = [k \in DOMAIN op.c |-> Names(op)[k]]
  BY DEF Names
<1>2. \A k \in DOMAIN op.c : Names(op)[k] = Name(op, k) /\ Name(op, k) \in Id
  BY NamesAre
<1>3. Names(op) \in [DOMAIN op.c -> Id]
  BY <1>1, <1>2
<1>4. Range(Names(op)) = {Name(op, k) : k \in DOMAIN op.c}
  BY <1>1, <1>2 DEF Range
<1> QED
  BY <1>3, <1>4

\* observe(): the clock moves past what was seen, and never back.
LEMMA ObservedIs ==
  ASSUME NEW now \in Nat, NEW n \in Nat, NEW ids \in [1 .. n -> Id]
  PROVE  /\ Observed(now, ids) \in Nat /\ now <= Observed(now, ids)
         /\ \A i \in 1 .. n : ids[i][1] <= Observed(now, ids)
         /\ \A u \in Nat : now <= u /\ (\A i \in 1 .. n : ids[i][1] <= u)
                             => Observed(now, ids) <= u
<1> DEFINE S == {now} \cup {id[1] : id \in Range(ids)}
           h == [i \in 1 .. n |-> ids[i][1]]
<1>1. \A i \in 1 .. n : ids[i][1] \in Nat
  <2>1. ASSUME NEW i \in 1 .. n
        PROVE  ids[i][1] \in Nat
    <3>1. ids[i] \in Id
      OBVIOUS
    <3> QED
      BY <3>1, IdParts
  <2> QED
    BY <2>1
<1>2. PICK u \in Nat : \A i \in 1 .. n : ids[i][1] <= u
  <2>1. h \in [1 .. n -> Nat]
    BY <1>1
  <2>2. \A i \in 1 .. n : h[i] = ids[i][1]
    OBVIOUS
  <2> HIDE DEF h
  <2>3. PICK v \in Nat : \A i \in 1 .. n : h[i] <= v
    BY <2>1, Bounded
  <2> QED
    BY <2>2, <2>3
<1>3. S = {now} \cup {ids[i][1] : i \in 1 .. n}
  BY DEF Range
<1> HIDE DEF S
<1>4. S \in SUBSET Nat /\ S # {}
  BY <1>1, <1>3
<1>5. u + now \in Nat /\ \A x \in S : x <= u + now
  BY <1>1, <1>2, <1>3
<1>6. Max(S) \in S /\ \A x \in S : x <= Max(S)
  BY <1>4, <1>5, MaxOf
<1>7. Observed(now, ids) = Max(S)
  BY DEF Observed, S
<1> QED
  BY <1>3, <1>4, <1>6, <1>7

LEMMA InsertedType ==
  ASSUME NEW text \in TextType, NEW op \in Insertion
  PROVE  Inserted(text, op) \in TextType /\ text.clock <= Inserted(text, op).clock
<1> DEFINE its == text.items
           prev == IF op.after = Start THEN 0 ELSE Find(its, op.after)
           ids == Names(op)
           run == [i \in DOMAIN ids |->
                    [id |-> ids[i], ch |-> op.c[i], deleted |-> ids[i] \in text.seen]]
           drop == Knows(its, op.id) \/ (op.after # Start /\ ~Knows(its, op.after))
           new == [items |-> Spliced(its, Place(its, prev, op.id), run),
                   seen |-> text.seen \ Range(ids),
                   clock |-> Observed(text.clock, ids)]
<1>1. its \in Seq(Character) /\ text.seen \in SUBSET Id /\ text.clock \in Nat
  BY DEF TextType
<1>2. Inserted(text, op) = IF drop THEN text ELSE new
  BY DEF Inserted
<1>3. ids \in [1 .. Len(op.c) -> Id] /\ Len(op.c) \in Nat
  BY NamesInOrder, InsertionParts
<1>4. run \in Seq(Character)
  <2>1. \A i \in 1 .. Len(op.c) : op.c[i] \in Char
    BY InsertionParts
  <2> HIDE DEF ids
  <2>2. DOMAIN ids = 1 .. Len(op.c)
    BY <1>3
  <2>3. \A i \in 1 .. Len(op.c) :
          [id |-> ids[i], ch |-> op.c[i], deleted |-> ids[i] \in text.seen] \in Character
    BY <1>3, <2>1 DEF Character
  <2>4. run \in [1 .. Len(op.c) -> Character]
    BY <2>2, <2>3
  <2> QED
    BY <1>3, <2>4
<1>5. CASE drop
  BY <1>1, <1>2, <1>5
<1>6. CASE ~drop
  <2>1. prev \in 0 .. Len(its)
    <3>1. CASE op.after = Start
      BY <1>1, <3>1
    <3>2. CASE op.after # Start
      <4>1. Knows(its, op.after)
        BY <1>6, <3>2
      <4> QED
        BY <1>1, <3>2, <4>1, FoundAt
    <3> QED
      BY <3>1, <3>2
  <2> HIDE DEF its, prev, run, ids, drop
  <2>2. Place(its, prev, op.id) \in 0 .. Len(its)
    <3>1. Place(its, prev, op.id) \in prev .. Len(its)
      BY <1>1, <2>1, PlaceAt
    <3> QED
      BY <1>1, <2>1, <3>1
  <2>3. Spliced(its, Place(its, prev, op.id), run) \in Seq(Character)
    BY <1>1, <1>4, <2>2, SplicedAt
  <2>4. Observed(text.clock, ids) \in Nat /\ text.clock <= Observed(text.clock, ids)
    BY <1>1, <1>3, ObservedIs
  <2>5. new \in TextType
    BY <1>1, <2>3, <2>4 DEF TextType
  <2> QED
    BY <1>2, <1>6, <2>4, <2>5
<1> QED
  BY <1>5, <1>6

LEMMA DeletedType ==
  ASSUME NEW text \in TextType, NEW op \in Deletion
  PROVE  /\ Deleted(text, op) \in TextType /\ Deleted(text, op).clock = text.clock
         /\ DOMAIN Deleted(text, op).items = DOMAIN text.items
         /\ \A i \in DOMAIN text.items :
              /\ Deleted(text, op).items[i].id = text.items[i].id
              /\ Deleted(text, op).items[i].ch = text.items[i].ch
              /\ Deleted(text, op).items[i].deleted =
                   (text.items[i].deleted \/ text.items[i].id \in op.ids)
         /\ Deleted(text, op).seen = text.seen \cup {id \in op.ids : ~Knows(text.items, id)}
<1> DEFINE its == text.items
           Mark(i) == IF its[i].id \in op.ids THEN [its[i] EXCEPT !.deleted = TRUE] ELSE its[i]
           new == [i \in DOMAIN its |-> Mark(i)]
<1>1. its \in Seq(Character) /\ text.seen \in SUBSET Id /\ text.clock \in Nat
      /\ op.ids \in SUBSET Id
  BY DEF TextType, Deletion
<1>2. ASSUME NEW i \in DOMAIN its
      PROVE  /\ Mark(i) \in Character /\ Mark(i).id = its[i].id /\ Mark(i).ch = its[i].ch
             /\ Mark(i).deleted = (its[i].deleted \/ its[i].id \in op.ids)
  <2>1. its[i] \in Character
    BY <1>1
  <2>2. CASE its[i].id \in op.ids
    BY <2>1, <2>2 DEF Character
  <2>3. CASE its[i].id \notin op.ids
    BY <2>1, <2>3 DEF Character
  <2> QED
    BY <2>2, <2>3
<1>3. new \in Seq(Character)
  <2>1. Len(its) \in Nat /\ DOMAIN its = 1 .. Len(its)
    BY <1>1
  <2> HIDE DEF Mark, its
  <2>2. new \in [1 .. Len(its) -> Character]
    BY <1>2, <2>1
  <2> QED
    BY <2>1, <2>2
<1>4. Deleted(text, op) = [items |-> new, clock |-> text.clock,
         seen |-> text.seen \cup {id \in op.ids : ~Knows(its, id)}]
  BY DEF Deleted
<1>5. /\ Deleted(text, op).items = new /\ Deleted(text, op).clock = text.clock
      /\ Deleted(text, op).seen = text.seen \cup {id \in op.ids : ~Knows(its, id)}
  BY <1>4
<1>6. Deleted(text, op) \in TextType
  <2> HIDE DEF new, its
  <2> QED
    BY <1>1, <1>3, <1>4 DEF TextType
<1>7. DOMAIN new = DOMAIN its /\ \A i \in DOMAIN its : new[i] = Mark(i)
  OBVIOUS
<1> HIDE DEF new, Mark
<1> QED
  BY <1>2, <1>5, <1>6, <1>7

LEMMA AppliedType ==
  ASSUME NEW text \in TextType, NEW op \in Operation
  PROVE  Applied(text, op) \in TextType /\ text.clock <= Applied(text, op).clock
<1>1. CASE op \in Insertion
  <2>1. op.k = "i"
    BY <1>1, InsertionParts
  <2> QED
    BY <1>1, <2>1, InsertedType DEF Applied
<1>2. CASE op \in Deletion
  <2>1. op.k = "d" /\ text.clock \in Nat
    BY <1>2 DEF Deletion, TextType
  <2> QED
    BY <1>2, <2>1, DeletedType DEF Applied
<1> QED
  BY <1>1, <1>2 DEF Operation

-----------------------------------------------------------------------------
(* What insertions bring into the world.                                   *)

SeedBirth(i) == [id |-> <<i, NoSite>>, ch |-> -i, par |-> <<i - 1, NoSite>>]
Birth(op, k) ==
  [id |-> Name(op, k), ch |-> op.c[k],
   par |-> IF k = 1 THEN op.after ELSE Name(op, k - 1)]

\* The characters of the initial text and of the insertions M.
Born(M) == {SeedBirth(i) : i \in 1 .. Initial}
           \cup UNION {{Birth(op, k) : k \in DOMAIN op.c} : op \in M}

Apart(a, m, b, n) == a + m <= b \/ b + n <= a

\* Insertions as the sites make them: later than what they follow, no two with
\* the same names or characters.
WellMade(M) ==
  /\ M \subseteq Insertion
  /\ \A op \in M :
       /\ Len(op.c) >= 1 /\ op.id[1] > Initial /\ op.after[1] < op.id[1]
       /\ op.c[1] >= 1 /\ \A k \in DOMAIN op.c : op.c[k] = op.c[1] + k - 1
  /\ \A op, o \in M : op # o =>
       /\ op.id[2] = o.id[2] => Apart(op.id[1], Len(op.c), o.id[1], Len(o.c))
       /\ Apart(op.c[1], Len(op.c), o.c[1], Len(o.c))

LEMMA BornOf ==
  ASSUME NEW M, NEW b \in Born(M)
  PROVE  \/ \E i \in 1 .. Initial : b = SeedBirth(i)
         \/ \E op \in M : \E k \in DOMAIN op.c : b = Birth(op, k)
BY DEF Born

LEMMA InBorn ==
  ASSUME NEW M, NEW op \in M, NEW k \in DOMAIN op.c
  PROVE  Birth(op, k) \in Born(M)
BY DEF Born

\* What is known of a character of an insertion.
LEMMA MadeParts ==
  ASSUME NEW M, WellMade(M), NEW op \in M, NEW k \in DOMAIN op.c
  PROVE  /\ op \in Insertion /\ k \in Nat /\ 1 <= k /\ k <= Len(op.c) /\ Len(op.c) \in Nat
         /\ op.id[1] \in Nat /\ op.id[1] > Initial /\ op.after[1] < op.id[1]
         /\ Name(op, k) \in Id /\ Name(op, k)[1] = op.id[1] + k - 1
         /\ Name(op, k)[2] = op.id[2] /\ op.id[2] \in Nat /\ op.id[2] # NoSite
         /\ op.c[1] \in Int /\ op.c[1] >= 1 /\ op.c[k] = op.c[1] + k - 1
<1>1. /\ op \in Insertion /\ Len(op.c) >= 1 /\ op.id[1] > Initial
      /\ op.after[1] < op.id[1] /\ op.c[1] >= 1 /\ op.c[k] = op.c[1] + k - 1
  BY DEF WellMade
<1>2. /\ op.id[1] \in Nat /\ op.id[2] \in Nat /\ op.id[2] # NoSite /\ Len(op.c) \in Nat
      /\ DOMAIN op.c = 1 .. Len(op.c)
  BY <1>1, InsertionParts
<1>3. 1 \in DOMAIN op.c
  BY <1>1, <1>2
<1>4. op.c[1] \in Int
  BY <1>1, <1>3, NamesAre
<1>5. /\ k \in Nat /\ 1 <= k /\ k <= Len(op.c) /\ Name(op, k) \in Id
      /\ Name(op, k)[1] = op.id[1] + k - 1 /\ Name(op, k)[2] = op.id[2]
  BY <1>1, NamesAre
<1> QED
  BY <1>1, <1>2, <1>4, <1>5

LEMMA FirstName ==
  ASSUME NEW op \in Insertion, Len(op.c) >= 1
  PROVE  1 \in DOMAIN op.c /\ Name(op, 1) = op.id
<1>1. /\ op.id[1] \in Nat /\ op.id = <<op.id[1], op.id[2]>>
      /\ Len(op.c) \in Nat /\ DOMAIN op.c = 1 .. Len(op.c)
  BY InsertionParts
<1>2. op.id[1] + 1 - 1 = op.id[1]
  BY <1>1
<1> QED
  BY <1>1, <1>2 DEF Name

LEMMA NotApart ==
  ASSUME NEW a \in Int, NEW b \in Int, NEW m \in Nat, NEW n \in Nat,
         NEW k \in Nat, 1 <= k, k <= m, NEW l \in Nat, 1 <= l, l <= n,
         a + k - 1 = b + l - 1
  PROVE  ~Apart(a, m, b, n)
BY DEF Apart

LEMMA SameOffset ==
  ASSUME NEW a \in Int, NEW k \in Int, NEW l \in Int, a + k - 1 = a + l - 1
  PROVE  k = l
OBVIOUS

\* A name, and a character, is given once.
LEMMA NamesDiffer ==
  ASSUME NEW M, WellMade(M), NEW op \in M, NEW k \in DOMAIN op.c,
         NEW o \in M, NEW m \in DOMAIN o.c,
         Name(op, k) = Name(o, m) \/ op.c[k] = o.c[m]
  PROVE  op = o /\ k = m
<1>1. /\ k \in Nat /\ 1 <= k /\ k <= Len(op.c) /\ Len(op.c) \in Nat
      /\ op.id[1] \in Nat /\ op.c[1] \in Int
      /\ Name(op, k)[1] = op.id[1] + k - 1 /\ Name(op, k)[2] = op.id[2]
      /\ op.c[k] = op.c[1] + k - 1
  BY MadeParts
<1>2. /\ m \in Nat /\ 1 <= m /\ m <= Len(o.c) /\ Len(o.c) \in Nat
      /\ o.id[1] \in Nat /\ o.c[1] \in Int
      /\ Name(o, m)[1] = o.id[1] + m - 1 /\ Name(o, m)[2] = o.id[2]
      /\ o.c[m] = o.c[1] + m - 1
  BY MadeParts
<1>3. op = o
  <2> SUFFICES ASSUME op # o
               PROVE  FALSE
    OBVIOUS
  <2>1. /\ op.id[2] = o.id[2] => Apart(op.id[1], Len(op.c), o.id[1], Len(o.c))
        /\ Apart(op.c[1], Len(op.c), o.c[1], Len(o.c))
    BY DEF WellMade
  <2>2. CASE Name(op, k) = Name(o, m)
    <3>1. Apart(op.id[1], Len(op.c), o.id[1], Len(o.c))
      BY <1>1, <1>2, <2>1, <2>2
    <3>2. op.id[1] + k - 1 = o.id[1] + m - 1
      BY <1>1, <1>2, <2>2
    <3>3. op.id[1] \in Int /\ o.id[1] \in Int
      <4>1. \A x \in Nat : x \in Int
        OBVIOUS
      <4> QED
        BY <1>1, <1>2, <4>1, Zenon
    <3> QED
      BY <1>1, <1>2, <3>1, <3>2, <3>3, NotApart
  <2>3. CASE op.c[k] = o.c[m]
    <3>1. op.c[1] + k - 1 = o.c[1] + m - 1
      BY <1>1, <1>2, <2>3
    <3> QED
      BY <1>1, <1>2, <2>1, <3>1, NotApart
  <2> QED
    BY <2>2, <2>3
<1>4. k = m
  <2>1. CASE Name(op, k) = Name(o, m)
    <3>1. op.id[1] + k - 1 = op.id[1] + m - 1
      BY <1>1, <1>2, <1>3, <2>1
    <3>2. op.id[1] \in Int /\ k \in Int /\ m \in Int
      <4>1. \A x \in Nat : x \in Int
        OBVIOUS
      <4> QED
        BY <1>1, <1>2, <4>1, Zenon
    <3> QED
      BY <3>1, <3>2, SameOffset
  <2>2. CASE op.c[k] = o.c[m]
    <3>1. op.c[1] + k - 1 = op.c[1] + m - 1
      BY <1>1, <1>2, <1>3, <2>2
    <3>2. op.c[1] \in Int /\ k \in Int /\ m \in Int
      BY <1>1, <1>2
    <3> QED
      BY <3>1, <3>2, SameOffset
  <2> QED
    BY <2>1, <2>2
<1> QED
  BY <1>3, <1>4

LEMMA SeedParts ==
  ASSUME NEW i \in 1 .. Initial
  PROVE  /\ i \in Nat /\ 1 <= i /\ i <= Initial
         /\ SeedBirth(i).id = <<i, NoSite>> /\ SeedBirth(i).ch = -i
         /\ SeedBirth(i).par = <<i - 1, NoSite>>
         /\ <<i, NoSite>> \in Id /\ <<i - 1, NoSite>> \in Id
<1>1. i \in Nat /\ 1 <= i /\ i <= Initial /\ i - 1 \in Nat
  BY EditAssumption
<1>2. NoSite \in Site \cup {NoSite}
  OBVIOUS
<1>3. <<i, NoSite>> \in Id /\ <<i - 1, NoSite>> \in Id
  BY <1>1, <1>2 DEF Id
<1>4. /\ SeedBirth(i).id = <<i, NoSite>> /\ SeedBirth(i).ch = -i
      /\ SeedBirth(i).par = <<i - 1, NoSite>>
  BY DEF SeedBirth
<1> QED
  BY <1>1, <1>3, <1>4

LEMMA BornParts ==
  ASSUME NEW M, WellMade(M), NEW b \in Born(M)
  PROVE  b.id \in Id /\ b.par \in Id /\ b.par[1] < b.id[1]
<1>1. ASSUME NEW i \in 1 .. Initial, b = SeedBirth(i)
      PROVE  b.id \in Id /\ b.par \in Id /\ b.par[1] < b.id[1]
  <2>1. /\ i \in Nat /\ b.id = <<i, NoSite>> /\ b.par = <<i - 1, NoSite>>
        /\ b.id \in Id /\ b.par \in Id
    BY <1>1, SeedParts
  <2>2. b.id[1] = i /\ b.par[1] = i - 1
    BY <2>1
  <2> QED
    BY <2>1, <2>2
<1>2. ASSUME NEW op \in M, NEW k \in DOMAIN op.c, b = Birth(op, k)
      PROVE  b.id \in Id /\ b.par \in Id /\ b.par[1] < b.id[1]
  <2>1. /\ op \in Insertion /\ k \in Nat /\ 1 <= k /\ k <= Len(op.c) /\ op.id[1] \in Nat
        /\ op.after[1] < op.id[1] /\ Name(op, k) \in Id /\ Name(op, k)[1] = op.id[1] + k - 1
    BY MadeParts
  <2>2. b.id = Name(op, k) /\ b.par = IF k = 1 THEN op.after ELSE Name(op, k - 1)
    BY <1>2 DEF Birth
  <2>3. CASE k = 1
    <3>1. b.par = op.after /\ op.after \in Id /\ op.after[1] \in Nat
      BY <2>1, <2>2, <2>3, InsertionParts
    <3>2. b.id[1] = op.id[1]
      BY <2>1, <2>2, <2>3
    <3> QED
      BY <2>1, <2>2, <3>1, <3>2
  <2>4. CASE k # 1
    <3>1. k - 1 \in DOMAIN op.c
      BY <2>1, <2>4, InsertionParts
    <3>2. Name(op, k - 1) \in Id /\ Name(op, k - 1)[1] = op.id[1] + (k - 1) - 1
      BY <3>1, MadeParts
    <3> QED
      BY <2>1, <2>2, <2>4, <3>2
  <2> QED
    BY <2>3, <2>4
<1> QED
  BY <1>1, <1>2, BornOf

LEMMA BornOK ==
  ASSUME NEW M, WellMade(M)
  PROVE  BirthsOK(Born(M))
<1>1. ASSUME NEW b \in Born(M), NEW c \in Born(M), b.id = c.id \/ b.ch = c.ch
      PROVE  b = c
  <2>1. ASSUME NEW i \in 1 .. Initial, b = SeedBirth(i),
               NEW j \in 1 .. Initial, c = SeedBirth(j)
        PROVE  b = c
    <3>1. /\ i \in Nat /\ b.id = <<i, NoSite>> /\ b.ch = -i
          /\ j \in Nat /\ c.id = <<j, NoSite>> /\ c.ch = -j
      BY <2>1, SeedParts
    <3>2. b.id[1] = i /\ c.id[1] = j
      BY <3>1
    <3>3. i = j
      BY <1>1, <3>1, <3>2
    <3> QED
      BY <2>1, <3>3
  <2>2. ASSUME NEW i \in 1 .. Initial, NEW op \in M, NEW k \in DOMAIN op.c,
               NEW d, NEW e, d = SeedBirth(i), e = Birth(op, k), d.id = e.id \/ d.ch = e.ch
        PROVE  FALSE
    <3>1. /\ i \in Nat /\ 1 <= i /\ d.id = <<i, NoSite>> /\ d.ch = -i
      BY <2>2, SeedParts
    <3>2. /\ Name(op, k)[2] = op.id[2] /\ op.id[2] # NoSite /\ k \in Nat /\ 1 <= k
          /\ op.c[1] \in Int /\ op.c[1] >= 1 /\ op.c[k] = op.c[1] + k - 1
      BY MadeParts
    <3>3. e.id = Name(op, k) /\ e.ch = op.c[k]
      BY <2>2 DEF Birth
    <3>4. d.id[2] = NoSite /\ e.id[2] = op.id[2]
      BY <3>1, <3>2, <3>3
    <3>5. d.ch \in Int /\ d.ch < 0 /\ e.ch \in Int /\ e.ch > 0
      BY <3>1, <3>2, <3>3
    <3>6. d.id # e.id
      BY <3>2, <3>4
    <3>7. d.ch # e.ch
      <4> SUFFICES ASSUME d.ch = e.ch
                   PROVE  FALSE
        OBVIOUS
      <4> QED
        BY <3>5
    <3> QED
      BY <2>2, <3>6, <3>7
  <2>3. ASSUME NEW op \in M, NEW k \in DOMAIN op.c, b = Birth(op, k),
               NEW o \in M, NEW m \in DOMAIN o.c, c = Birth(o, m)
        PROVE  b = c
    <3>1. b.id = Name(op, k) /\ b.ch = op.c[k] /\ c.id = Name(o, m) /\ c.ch = o.c[m]
      BY <2>3 DEF Birth
    <3>2. op = o /\ k = m
      BY <1>1, <3>1, NamesDiffer
    <3> QED
      BY <2>3, <3>2
  <2>4. \/ \E i \in 1 .. Initial : b = SeedBirth(i)
        \/ \E op \in M : \E k \in DOMAIN op.c : b = Birth(op, k)
    BY BornOf
  <2>5. \/ \E i \in 1 .. Initial : c = SeedBirth(i)
        \/ \E op \in M : \E k \in DOMAIN op.c : c = Birth(op, k)
    BY BornOf
  <2> QED
    BY <1>1, <2>1, <2>2, <2>3, <2>4, <2>5
<1>2. \A b \in Born(M) : b.id \in Id /\ b.par \in Id /\ b.par[1] < b.id[1]
  BY BornParts
<1> QED
  BY <1>1, <1>2 DEF BirthsOK

-----------------------------------------------------------------------------
(* What a text holds, and what operations tell it.                         *)

Ids(its) == {its[i].id : i \in DOMAIN its}
Dead(its) == {its[i].id : i \in {j \in DOMAIN its : its[j].deleted}}

\* The characters of S are there, those of D are deleted.
Marks(S, D) == {<<id, "in">> : id \in S} \cup {<<id, "dead">> : id \in D}
Facts(its) == Marks(Ids(its), Dead(its))

Gives(op) == IF op.k = "i" THEN {Name(op, k) : k \in DOMAIN op.c} ELSE {}
Kills(op) == IF op.k = "i" THEN {} ELSE op.ids
Needs(op) == IF op.k = "i" THEN {op.after} \ {Start} ELSE op.ids
Tells(op) == Marks(Gives(op), Kills(op))

\* All that an operation refers to is there.
Ready(op, facts) == \A id \in Needs(op) : <<id, "in">> \in facts

\* A text holds all characters of an insertion, or none.
Whole(its, M) ==
  \A op \in M : \A k \in DOMAIN op.c : Name(op, k) \in Ids(its) <=> op.id \in Ids(its)

Sound(text, M) ==
  /\ text \in TextType
  /\ Shape(text.items, Born(M)) /\ Whole(text.items, M)
  /\ text.seen = {}
  /\ \A i \in DOMAIN text.items : text.items[i].id[1] <= text.clock

LEMMA KnowsIds ==
  ASSUME NEW its, NEW id
  PROVE  Knows(its, id) <=> id \in Ids(its)
BY DEF Knows, Ids

LEMMA MarksIn ==
  ASSUME NEW S, NEW D, NEW id
  PROVE  /\ <<id, "in">> \in Marks(S, D) <=> id \in S
         /\ <<id, "dead">> \in Marks(S, D) <=> id \in D
BY DEF Marks

LEMMA MarksOfUnion ==
  ASSUME NEW S, NEW D, NEW T, NEW E
  PROVE  Marks(S \cup T, D \cup E) = Marks(S, D) \cup Marks(T, E)
BY DEF Marks

\* Only places and what is there matter for the order.
LEMMA ShapeOfIds ==
  ASSUME NEW B, NEW its, NEW new, DOMAIN new = DOMAIN its, Shape(its, B),
         NEW n \in Nat, DOMAIN its = 1 .. n,
         \A i \in DOMAIN its : new[i].id = its[i].id /\ new[i].ch = its[i].ch
  PROVE  Shape(new, B)
<1>1. ASSUME NEW i \in DOMAIN its, NEW par, Behind(its, i, par)
      PROVE  Behind(new, i, par)
  <2>1. PICK j \in 0 .. i - 1 :
          /\ par = IF j = 0 THEN Start ELSE its[j].id
          /\ \A m \in j + 1 .. i - 1 : Greater(its[m].id, its[i].id)
    BY <1>1 DEF Behind
  <2>2. i \in Nat /\ i <= n /\ j \in Nat /\ j < i
    OBVIOUS
  <2>3. par = IF j = 0 THEN Start ELSE new[j].id
    <3>1. j # 0 => j \in DOMAIN its
      BY <2>2
    <3> QED
      BY <2>1, <3>1
  <2>4. ASSUME NEW m \in j + 1 .. i - 1
        PROVE  Greater(new[m].id, new[i].id)
    <3>1. m \in DOMAIN its
      BY <2>2
    <3> QED
      BY <2>1, <3>1
  <2> QED
    BY <2>3, <2>4 DEF Behind
<1>2. ASSUME NEW i \in DOMAIN its
      PROVE  \E b \in B : b.id = new[i].id /\ b.ch = new[i].ch /\ Behind(new, i, b.par)
  <2>1. PICK b \in B : b.id = its[i].id /\ b.ch = its[i].ch /\ Behind(its, i, b.par)
    BY DEF Shape
  <2> QED
    BY <1>1, <2>1
<1>3. \A i, j \in DOMAIN its : its[i].id = its[j].id => i = j
  BY DEF Shape
<1> QED
  BY <1>2, <1>3 DEF Shape

LEMMA ShapeGrows ==
  ASSUME NEW B, NEW C, B \subseteq C, NEW its, Shape(its, B)
  PROVE  Shape(its, C)
BY DEF Shape

\* The characters an insertion makes of its names.
RunOf(op) ==
  [k \in DOMAIN op.c |-> [id |-> Name(op, k), ch |-> op.c[k], deleted |-> FALSE]]

LEMMA RunParts ==
  ASSUME NEW op \in Insertion
  PROVE  /\ RunOf(op) \in Seq(Character) /\ Len(RunOf(op)) = Len(op.c)
         /\ DOMAIN RunOf(op) = DOMAIN op.c
         /\ \A k \in DOMAIN op.c :
              /\ RunOf(op)[k].id = Name(op, k) /\ RunOf(op)[k].ch = op.c[k]
              /\ RunOf(op)[k].deleted = FALSE
<1>1. Len(op.c) \in Nat /\ DOMAIN op.c = 1 .. Len(op.c)
  BY InsertionParts
<1>2. \A k \in DOMAIN op.c :
        [id |-> Name(op, k), ch |-> op.c[k], deleted |-> FALSE] \in Character
  BY NamesAre DEF Character, Char
<1>3. RunOf(op) \in [1 .. Len(op.c) -> Character]
  BY <1>1, <1>2 DEF RunOf
<1>4. RunOf(op) \in Seq(Character) /\ Len(RunOf(op)) = Len(op.c)
  BY <1>1, <1>3
<1> QED
  BY <1>4 DEF RunOf

\* Where the characters of a spliced text come from.
LEMMA SplicedIds ==
  ASSUME NEW its \in Seq(Character), NEW run \in Seq(Character), NEW at \in 0 .. Len(its)
  PROVE  /\ Ids(Spliced(its, at, run)) = Ids(its) \cup Ids(run)
         /\ Dead(Spliced(its, at, run)) = Dead(its) \cup Dead(run)
<1> DEFINE new == Spliced(its, at, run)
           n == Len(run)
<1>1. /\ at \in Nat /\ Len(its) \in Nat /\ n \in Nat /\ at <= Len(its)
      /\ DOMAIN its = 1 .. Len(its) /\ DOMAIN run = 1 .. n
  OBVIOUS
<1>2. /\ new \in Seq(Character) /\ Len(new) = Len(its) + n
      /\ \A i \in 1 .. at : new[i] = its[i]
      /\ \A k \in 1 .. n : new[at + k] = run[k]
      /\ \A i \in at + 1 .. Len(its) : new[i + n] = its[i]
  <2> HIDE DEF new
  <2> QED
    BY SplicedAt DEF new
<1> HIDE DEF new, n
<1>3. DOMAIN new = 1 .. Len(its) + n
  BY <1>1, <1>2
<1>4. ASSUME NEW i \in DOMAIN new
      PROVE  (\E j \in DOMAIN its : new[i] = its[j]) \/ (\E k \in DOMAIN run : new[i] = run[k])
  <2>1. i \in Nat /\ i \in 1 .. Len(its) + n
    BY <1>1, <1>3
  <2>2. CASE i \in 1 .. at
    <3>1. i \in DOMAIN its /\ new[i] = its[i]
      BY <1>1, <1>2, <2>1, <2>2
    <3> QED
      BY <3>1
  <2>3. CASE i - at \in 1 .. n
    <3>1. i = at + (i - at)
      BY <1>1, <2>1
    <3> QED
      BY <1>1, <1>2, <2>3, <3>1
  <2>4. CASE i - n \in at + 1 .. Len(its)
    <3>1. i = (i - n) + n /\ i - n \in DOMAIN its
      BY <1>1, <2>1, <2>4
    <3> QED
      BY <1>2, <2>4, <3>1
  <2> QED
    BY <1>1, <2>1, <2>2, <2>3, <2>4
<1>5. ASSUME NEW j \in DOMAIN its
      PROVE  \E i \in DOMAIN new : new[i] = its[j]
  <2>1. j \in Nat /\ 1 <= j /\ j <= Len(its)
    BY <1>1
  <2>2. CASE j <= at
    <3>1. j \in DOMAIN new /\ j \in 1 .. at
      BY <1>1, <1>3, <2>1, <2>2
    <3> QED
      BY <1>2, <3>1
  <2>3. CASE ~(j <= at)
    <3>1. j + n \in DOMAIN new /\ j \in at + 1 .. Len(its)
      BY <1>1, <1>3, <2>1, <2>3
    <3> QED
      BY <1>2, <3>1
  <2> QED
    BY <2>2, <2>3
<1>6. ASSUME NEW k \in DOMAIN run
      PROVE  \E i \in DOMAIN new : new[i] = run[k]
  <2>1. at + k \in DOMAIN new /\ k \in 1 .. n
    BY <1>1, <1>3
  <2> QED
    BY <1>2, <2>1
<1>7. Ids(new) = Ids(its) \cup Ids(run)
  BY <1>4, <1>5, <1>6 DEF Ids
<1>8. Dead(new) = Dead(its) \cup Dead(run)
  <2>1. ASSUME NEW id \in Dead(new)
        PROVE  id \in Dead(its) \cup Dead(run)
    <3>1. PICK i \in DOMAIN new : new[i].deleted /\ new[i].id = id
      BY DEF Dead
    <3> QED
      BY <1>4, <3>1 DEF Dead
  <2>2. ASSUME NEW id \in Dead(its)
        PROVE  id \in Dead(new)
    <3>1. PICK j \in DOMAIN its : its[j].deleted /\ its[j].id = id
      BY DEF Dead
    <3> QED
      BY <1>5, <3>1 DEF Dead
  <2>3. ASSUME NEW id \in Dead(run)
        PROVE  id \in Dead(new)
    <3>1. PICK k \in DOMAIN run : run[k].deleted /\ run[k].id = id
      BY DEF Dead
    <3> QED
      BY <1>6, <3>1 DEF Dead
  <2> QED
    BY <2>1, <2>2, <2>3
<1> QED
  BY <1>7, <1>8 DEF new

\* An insertion that a text does not hold yet.
LEMMA RunSpliced ==
  ASSUME NEW M, WellMade(M), NEW op \in M,
         NEW its \in Seq(Character), Shape(its, Born(M)), Whole(its, M), op.id \notin Ids(its),
         NEW prev \in 0 .. Len(its), NEW at \in prev .. Len(its),
         op.after = IF prev = 0 THEN Start ELSE its[prev].id,
         \A i \in prev + 1 .. at : Greater(its[i].id, op.id),
         at = Len(its) \/ Greater(op.id, its[at + 1].id)
  PROVE  LET new == Spliced(its, at, RunOf(op))
         IN  /\ new \in Seq(Character) /\ Shape(new, Born(M)) /\ Whole(new, M)
             /\ Ids(new) = Ids(its) \cup Gives(op) /\ Dead(new) = Dead(its)
<1> DEFINE run == RunOf(op)
           new == Spliced(its, at, run)
<1>1. op \in Insertion /\ Len(op.c) >= 1
  BY DEF WellMade
<1>2. /\ run \in Seq(Character) /\ Len(run) = Len(op.c) /\ DOMAIN run = DOMAIN op.c
      /\ \A k \in DOMAIN op.c :
           run[k].id = Name(op, k) /\ run[k].ch = op.c[k] /\ run[k].deleted = FALSE
  BY <1>1, RunParts
<1>3. 1 \in DOMAIN op.c /\ Name(op, 1) = op.id
  BY <1>1, FirstName
<1> HIDE DEF run
<1>4. at \in 0 .. Len(its)
  <2>1. prev \in Nat /\ Len(its) \in Nat
    OBVIOUS
  <2> QED
    BY <2>1
<1>5. Fits(Born(M), its, run, prev, at)
  <2>1. ASSUME NEW k \in DOMAIN run
        PROVE  \E b \in Born(M) :
                 /\ b.id = run[k].id /\ b.ch = run[k].ch
                 /\ b.par = IF k = 1 THEN (IF prev = 0 THEN Start ELSE its[prev].id)
                                     ELSE run[k - 1].id
    <3>1. k \in DOMAIN op.c /\ k \in Nat /\ 1 <= k /\ k <= Len(op.c)
      BY <1>1, <1>2, NamesAre
    <3>2. Birth(op, k) \in Born(M)
      BY <3>1, InBorn
    <3>3. Birth(op, k).id = run[k].id /\ Birth(op, k).ch = run[k].ch
      BY <1>2, <3>1 DEF Birth
    <3>4. Birth(op, k).par = IF k = 1 THEN op.after ELSE Name(op, k - 1)
      BY DEF Birth
    <3>5. k # 1 => run[k - 1].id = Name(op, k - 1)
      <4>1. k # 1 => k - 1 \in DOMAIN op.c
        BY <1>1, <3>1, InsertionParts
      <4> QED
        BY <1>2, <4>1
    <3> QED
      BY <3>2, <3>3, <3>4, <3>5
  <2>2. ASSUME NEW k \in DOMAIN run, k # 1
        PROVE  Greater(run[k].id, run[1].id)
    <3>1. k \in DOMAIN op.c /\ run[k].id = Name(op, k) /\ run[1].id = op.id
      BY <1>2, <1>3
    <3>2. k \in Nat /\ 1 <= k /\ op.id[1] \in Nat /\ Name(op, k)[1] = op.id[1] + k - 1
      BY <3>1, MadeParts
    <3>3. /\ k \in Nat /\ 1 <= k /\ op.id[1] \in Nat /\ Name(op, k)[1] = op.id[1] + k - 1
          /\ run[k].id = Name(op, k) /\ run[1].id = op.id
      BY <3>1, <3>2
    <3>4. Name(op, k)[1] > op.id[1]
      BY <2>2, <3>3
    <3> QED
      BY <3>3, <3>4 DEF Greater
  <2>3. ASSUME NEW k \in DOMAIN run
        PROVE  ~Knows(its, run[k].id)
    BY <1>2, KnowsIds DEF Whole
  <2>4. ASSUME NEW k \in DOMAIN run, NEW m \in DOMAIN run, run[k].id = run[m].id
        PROVE  k = m
    BY <1>2, <2>4, NamesDiffer
  <2>5. run[1].id = op.id
    BY <1>2, <1>3
  <2> QED
    BY <2>1, <2>2, <2>3, <2>4, <2>5 DEF Fits
<1>6. Shape(new, Born(M))
  <2>1. BirthsOK(Born(M)) /\ Len(run) >= 1
    BY <1>1, <1>2, BornOK
  <2> QED
    BY <1>2, <1>5, <2>1, SplicedShape
<1>7. new \in Seq(Character)
  BY <1>2, <1>4, SplicedAt
<1>8. Ids(run) = Gives(op) /\ Dead(run) = {}
  <2>1. op.k = "i"
    BY <1>1, InsertionParts
  <2> QED
    BY <1>2, <2>1 DEF Ids, Dead, Gives
<1>9. Ids(new) = Ids(its) \cup Gives(op) /\ Dead(new) = Dead(its)
  <2>1. Ids(new) = Ids(its) \cup Ids(run) /\ Dead(new) = Dead(its) \cup Dead(run)
    BY <1>2, <1>4, SplicedIds
  <2> QED
    BY <1>8, <2>1
<1>10. Whole(new, M)
  <2> HIDE DEF new
  <2>1. Gives(op) = {Name(op, k) : k \in DOMAIN op.c}
    BY <1>1, InsertionParts DEF Gives
  <2>2. ASSUME NEW o \in M, NEW k \in DOMAIN o.c
        PROVE  Name(o, k) \in Ids(new) <=> o.id \in Ids(new)
    <3>1. Name(o, k) \in Ids(its) <=> o.id \in Ids(its)
      BY DEF Whole
    <3>2. 1 \in DOMAIN o.c /\ Name(o, 1) = o.id
      BY FirstName DEF WellMade
    <3>3. CASE o = op
      BY <1>9, <2>1, <3>2, <3>3
    <3>4. CASE o # op
      <4>1. \A m \in DOMAIN o.c : Name(o, m) \notin Gives(op)
        BY <2>1, <3>4, NamesDiffer
      <4> QED
        BY <1>9, <3>1, <3>2, <4>1
    <3> QED
      BY <3>3, <3>4
  <2> QED
    BY <2>2 DEF Whole
<1> QED
  BY <1>6, <1>7, <1>9, <1>10 DEF run

\* A delivered insertion, behind a character that is there.
LEMMA InsertedSound ==
  ASSUME NEW M, WellMade(M), NEW op \in M, NEW text, Sound(text, M),
         Ready(op, Facts(text.items))
  PROVE  /\ Sound(Inserted(text, op), M)
         /\ Facts(Inserted(text, op).items) = Facts(text.items) \cup Tells(op)
<1> DEFINE its == text.items
           prev == IF op.after = Start THEN 0 ELSE Find(its, op.after)
           ids == Names(op)
           run == [i \in DOMAIN ids |->
                    [id |-> ids[i], ch |-> op.c[i], deleted |-> ids[i] \in text.seen]]
           drop == Knows(its, op.id) \/ (op.after # Start /\ ~Knows(its, op.after))
           at == Place(its, prev, op.id)
           new == [items |-> Spliced(its, at, run),
                   seen |-> text.seen \ Range(ids),
                   clock |-> Observed(text.clock, ids)]
<1>1. /\ text \in TextType /\ Shape(its, Born(M)) /\ Whole(its, M) /\ text.seen = {}
      /\ \A i \in DOMAIN its : its[i].id[1] <= text.clock
  BY DEF Sound
<1>2. its \in Seq(Character) /\ text.clock \in Nat
  BY <1>1 DEF TextType
<1>3. op \in Insertion /\ Len(op.c) >= 1 /\ op.k = "i"
  BY InsertionParts DEF WellMade
<1>4. Inserted(text, op) = IF drop THEN text ELSE new
  BY DEF Inserted
<1>5. op.after # Start => Knows(its, op.after)
  <2>1. op.after # Start => op.after \in Needs(op)
    BY <1>3 DEF Needs
  <2>2. op.after # Start => op.after \in Ids(its)
    BY <2>1, MarksIn DEF Ready, Facts
  <2> QED
    BY <2>2, KnowsIds
<1>6. Gives(op) = {Name(op, k) : k \in DOMAIN op.c} /\ Kills(op) = {}
  BY <1>3 DEF Gives, Kills
<1>7. CASE op.id \in Ids(its)
  <2>1. Inserted(text, op) = text
    BY <1>4, <1>7, KnowsIds
  <2>2. Gives(op) \subseteq Ids(its)
    BY <1>1, <1>6, <1>7 DEF Whole
  <2>3. Marks(Ids(its) \cup Gives(op), Dead(its) \cup Kills(op)) = Facts(its)
    <3>1. Ids(its) \cup Gives(op) = Ids(its) /\ Dead(its) \cup Kills(op) = Dead(its)
      BY <1>6, <2>2
    <3> QED
      BY <3>1 DEF Facts
  <2> QED
    BY <2>1, <2>3, MarksOfUnion DEF Facts, Tells
<1>8. CASE op.id \notin Ids(its)
  <2>1. Inserted(text, op) = new
    BY <1>4, <1>5, <1>8, KnowsIds
  <2>2. /\ prev \in 0 .. Len(its)
        /\ op.after = IF prev = 0 THEN Start ELSE its[prev].id
    <3>1. CASE op.after = Start
      BY <1>2, <3>1
    <3>2. CASE op.after # Start
      <4>1. prev \in DOMAIN its /\ its[prev].id = op.after
        BY <1>2, <1>5, <3>2, FoundAt
      <4>2. prev \in 0 .. Len(its) /\ prev # 0
        BY <1>2, <4>1
      <4> QED
        BY <4>1, <4>2
    <3> QED
      BY <3>1, <3>2
  <2>3. run = RunOf(op)
    <3>1. \A k \in DOMAIN op.c : ids[k] = Name(op, k) /\ ids[k] \notin text.seen
      BY <1>1, <1>3, NamesAre
    <3>2. DOMAIN ids = DOMAIN op.c
      BY DEF Names
    <3>3. ASSUME NEW k \in DOMAIN op.c
          PROVE  [id |-> ids[k], ch |-> op.c[k], deleted |-> ids[k] \in text.seen]
                   = [id |-> Name(op, k), ch |-> op.c[k], deleted |-> FALSE]
      <4>1. (ids[k] \in text.seen) = FALSE
        BY <3>1
      <4> HIDE DEF ids
      <4> QED
        BY <3>1, <4>1
    <3> HIDE DEF ids
    <3>4. RunOf(op) = [k \in DOMAIN op.c |->
                         [id |-> ids[k], ch |-> op.c[k], deleted |-> ids[k] \in text.seen]]
      BY <3>3 DEF RunOf
    <3> QED
      BY <3>2, <3>4
  <2> HIDE DEF its, prev, run
  <2>4. /\ at \in prev .. Len(its)
        /\ \A i \in prev + 1 .. at : Greater(its[i].id, op.id)
        /\ at = Len(its) \/ ~Greater(its[at + 1].id, op.id)
    BY <1>2, <2>2, PlaceAt
  <2>5. at = Len(its) \/ Greater(op.id, its[at + 1].id)
    <3> SUFFICES ASSUME at # Len(its)
                 PROVE  Greater(op.id, its[at + 1].id)
      OBVIOUS
    <3>1. at + 1 \in DOMAIN its
      <4>1. at \in Nat /\ at < Len(its) /\ Len(its) \in Nat
        BY <1>2, <2>2, <2>4
      <4> QED
        BY <1>2, <4>1
    <3>2. its[at + 1].id \in Id /\ its[at + 1].id # op.id
      BY <1>2, <1>8, <3>1, Parts DEF Ids
    <3> QED
      BY <1>3, <2>4, <3>2, GreaterIsTotal, InsertionParts
  <2>6. /\ Spliced(its, at, RunOf(op)) \in Seq(Character)
        /\ Shape(Spliced(its, at, RunOf(op)), Born(M))
        /\ Whole(Spliced(its, at, RunOf(op)), M)
        /\ Ids(Spliced(its, at, RunOf(op))) = Ids(its) \cup Gives(op)
        /\ Dead(Spliced(its, at, RunOf(op))) = Dead(its)
    <3> HIDE DEF at
    <3> QED
      BY <1>1, <1>2, <1>8, <2>2, <2>4, <2>5, RunSpliced
  <2>7. /\ new.items = Spliced(its, at, RunOf(op)) /\ new.seen = {}
        /\ new.clock = Observed(text.clock, ids)
    BY <1>1, <2>3
  <2>8. /\ text.clock <= Observed(text.clock, ids) /\ Observed(text.clock, ids) \in Nat
        /\ \A k \in DOMAIN op.c : Name(op, k)[1] <= Observed(text.clock, ids)
    <3>1. /\ ids \in [1 .. Len(op.c) -> Id] /\ Len(op.c) \in Nat /\ DOMAIN op.c = 1 .. Len(op.c)
          /\ \A k \in DOMAIN op.c : ids[k] = Name(op, k)
      BY <1>3, NamesInOrder, InsertionParts, NamesAre
    <3> HIDE DEF ids
    <3> QED
      BY <1>2, <3>1, ObservedIs
  <2>9. ASSUME NEW i \in DOMAIN new.items
        PROVE  new.items[i].id[1] <= new.clock
    <3>1. new.items[i].id \in Ids(its) \cup Gives(op)
      BY <2>6, <2>7 DEF Ids
    <3>2. CASE new.items[i].id \in Gives(op)
      BY <1>6, <2>7, <2>8, <3>2
    <3>3. CASE new.items[i].id \in Ids(its)
      <4>1. PICK j \in DOMAIN its : its[j].id = new.items[i].id
        BY <3>3 DEF Ids
      <4>2. its[j].id[1] <= text.clock /\ its[j].id[1] \in Nat
        BY <1>1, <1>2, Parts
      <4> QED
        BY <1>2, <2>7, <2>8, <4>1, <4>2
    <3> QED
      BY <3>1, <3>2, <3>3
  <2>10. new \in TextType
    <3>1. text.seen \ Range(ids) \in SUBSET Id
      BY <1>1
    <3> HIDE DEF ids, at
    <3> QED
      BY <2>3, <2>6, <2>8, <3>1 DEF TextType
  <2>11. Sound(new, M)
    <3> HIDE DEF new
    <3> QED
      BY <2>6, <2>7, <2>9, <2>10 DEF Sound
  <2>12. Facts(new.items) = Facts(its) \cup Tells(op)
    <3>1. Ids(new.items) = Ids(its) \cup Gives(op) /\ Dead(new.items) = Dead(its) \cup Kills(op)
      BY <1>6, <2>6, <2>7
    <3> HIDE DEF new
    <3> QED
      BY <3>1, MarksOfUnion DEF Facts, Tells
  <2> HIDE DEF new
  <2> QED
    BY <2>1, <2>11, <2>12 DEF its
<1> QED
  BY <1>7, <1>8

\* A delivered deletion of characters that are there.
LEMMA DeletedSound ==
  ASSUME NEW M, NEW op \in Deletion, NEW text, Sound(text, M),
         Ready(op, Facts(text.items))
  PROVE  /\ Sound(Deleted(text, op), M)
         /\ Facts(Deleted(text, op).items) = Facts(text.items) \cup Tells(op)
<1> DEFINE its == text.items
           new == Deleted(text, op)
<1>1. /\ text \in TextType /\ Shape(its, Born(M)) /\ Whole(its, M) /\ text.seen = {}
      /\ \A i \in DOMAIN its : its[i].id[1] <= text.clock
  BY DEF Sound
<1>2. /\ its \in Seq(Character) /\ Len(its) \in Nat /\ DOMAIN its = 1 .. Len(its)
  BY <1>1 DEF TextType
<1>3. /\ new \in TextType /\ new.clock = text.clock /\ DOMAIN new.items = DOMAIN its
      /\ \A i \in DOMAIN its : /\ new.items[i].id = its[i].id /\ new.items[i].ch = its[i].ch
                               /\ new.items[i].deleted = (its[i].deleted \/ its[i].id \in op.ids)
      /\ new.seen = text.seen \cup {id \in op.ids : ~Knows(its, id)}
  BY <1>1, DeletedType
<1>4. op.k # "i"
  BY DEF Deletion
<1>5. op.ids \subseteq Ids(its)
  <2>1. \A id \in op.ids : <<id, "in">> \in Facts(its)
    BY <1>4 DEF Ready, Needs
  <2> QED
    BY <2>1, MarksIn DEF Facts
<1> HIDE DEF new, its
<1>6. new.seen = {}
  BY <1>1, <1>3, <1>5, KnowsIds
<1>7. Shape(new.items, Born(M))
  BY <1>1, <1>2, <1>3, ShapeOfIds
<1>8. Ids(new.items) = Ids(its)
  BY <1>3 DEF Ids
<1>9. Dead(new.items) = Dead(its) \cup op.ids
  <2>1. ASSUME NEW id \in Dead(new.items)
        PROVE  id \in Dead(its) \cup op.ids
    <3>1. PICK i \in DOMAIN its : new.items[i].deleted /\ new.items[i].id = id
      BY <1>3 DEF Dead
    <3>2. its[i].id = id /\ (its[i].deleted \/ its[i].id \in op.ids)
      BY <1>3, <3>1
    <3> QED
      BY <3>2 DEF Dead
  <2>2. ASSUME NEW id \in Dead(its) \cup op.ids
        PROVE  id \in Dead(new.items)
    <3>1. PICK i \in DOMAIN its : its[i].id = id /\ (its[i].deleted \/ its[i].id \in op.ids)
      <4>1. CASE id \in Dead(its)
        BY <4>1 DEF Dead
      <4>2. CASE id \in op.ids
        BY <1>5, <4>2 DEF Ids
      <4> QED
        BY <4>1, <4>2
    <3>2. i \in DOMAIN new.items /\ new.items[i].id = id /\ new.items[i].deleted
      BY <1>3, <3>1
    <3> QED
      BY <3>2 DEF Dead
  <2> QED
    BY <2>1, <2>2
<1>10. Facts(new.items) = Facts(its) \cup Tells(op)
  <2>1. Gives(op) = {} /\ Kills(op) = op.ids
    BY <1>4 DEF Gives, Kills
  <2>2. Ids(new.items) = Ids(its) \cup Gives(op) /\ Dead(new.items) = Dead(its) \cup Kills(op)
    BY <1>8, <1>9, <2>1
  <2> QED
    BY <2>2, MarksOfUnion DEF Facts, Tells
<1>11. Whole(new.items, M)
  BY <1>1, <1>8 DEF Whole
<1>12. \A i \in DOMAIN new.items : new.items[i].id[1] <= new.clock
  BY <1>1, <1>3
<1>13. Sound(new, M)
  BY <1>3, <1>6, <1>7, <1>11, <1>12 DEF Sound
<1> QED
  BY <1>10, <1>13 DEF new, its

LEMMA AppliedSound ==
  ASSUME NEW M, WellMade(M), NEW op \in Operation, op.k = "i" => op \in M,
         NEW text, Sound(text, M), Ready(op, Facts(text.items))
  PROVE  /\ Sound(Applied(text, op), M)
         /\ Facts(Applied(text, op).items) = Facts(text.items) \cup Tells(op)
<1>1. CASE op.k = "i"
  BY <1>1, InsertedSound DEF Applied
<1>2. CASE op.k # "i"
  <2>1. op \in Deletion
    BY <1>2, InsertionParts DEF Operation
  <2> QED
    BY <1>2, <2>1, DeletedSound DEF Applied
<1> QED
  BY <1>1, <1>2

-----------------------------------------------------------------------------
(* Several operations in a row.                                            *)

ToldBy(ops, n) == UNION {Tells(ops[i]) : i \in 1 .. n}
Told(ops) == ToldBy(ops, Len(ops))

\* Each refers to what is there by then.
Follows(ops, facts) == \A i \in DOMAIN ops : Ready(ops[i], facts \cup ToldBy(ops, i - 1))

Insertions(ops) == {op \in Range(ops) : op.k = "i"}

\* texts are what n of the operations make of a text, one after the other.
Steps(texts, text, ops) ==
  /\ texts \in [0 .. Len(ops) -> TextType]
  /\ texts[0] = text
  /\ \A i \in 1 .. Len(ops) : texts[i] = Applied(texts[i - 1], ops[i])

LEMMA MergedSteps ==
  ASSUME NEW text \in TextType, NEW ops \in Seq(Operation)
  PROVE  \E texts : Steps(texts, text, ops) /\ Merged(text, ops) = texts[Len(ops)]
<1> DEFINE n == Len(ops)
           G == [p \in Nat \X TextType |->
                   IF p[1] \in 1 .. n THEN Applied(p[2], ops[p[1]]) ELSE p[2]]
           ts == CHOOSE f : f = [i \in 0 .. n |->
                    IF i = 0 THEN text ELSE Applied(f[i - 1], ops[i])]
<1>1. n \in Nat /\ DOMAIN ops = 1 .. n /\ \A i \in 1 .. n : ops[i] \in Operation
  OBVIOUS
<1>2. G \in [Nat \X TextType -> TextType]
  <2>1. ASSUME NEW p \in Nat \X TextType
        PROVE  (IF p[1] \in 1 .. n THEN Applied(p[2], ops[p[1]]) ELSE p[2]) \in TextType
    <3>1. p[2] \in TextType
      OBVIOUS
    <3>2. CASE p[1] \in 1 .. n
      <4>1. ops[p[1]] \in Operation
        BY <1>1, <3>2
      <4> QED
        BY <3>1, <3>2, <4>1, AppliedType
    <3> QED
      BY <3>1, <3>2
  <2> QED
    BY <2>1
<1>3. PICK g : Computed(g, TextType, text, G, n)
  <2> HIDE DEF G, n
  <2> QED
    BY <1>1, <1>2, StepByStep
<1>4. /\ g \in [0 .. n -> TextType] /\ g[0] = text
      /\ \A i \in 1 .. n : g[i] = G[<<i, g[i - 1]>>]
  BY <1>3 DEF Computed
<1>5. ASSUME NEW i \in 1 .. n
      PROVE  g[i] = Applied(g[i - 1], ops[i])
  <2>1. i \in Nat /\ i - 1 \in 0 .. n /\ g[i - 1] \in TextType
    BY <1>1, <1>4
  <2>2. G[<<i, g[i - 1]>>] = Applied(g[i - 1], ops[i])
    BY <2>1
  <2> QED
    BY <1>4, <2>2
<1>6. g = [i \in 0 .. n |-> IF i = 0 THEN text ELSE Applied(g[i - 1], ops[i])]
  <2>1. ASSUME NEW i \in 0 .. n
        PROVE  g[i] = IF i = 0 THEN text ELSE Applied(g[i - 1], ops[i])
    <3>1. CASE i = 0
      BY <1>4, <3>1
    <3>2. CASE i # 0
      <4>1. i \in 1 .. n
        BY <1>1, <3>2
      <4> QED
        BY <1>5, <3>2, <4>1
    <3> QED
      BY <3>1, <3>2
  <2>2. g = [i \in 0 .. n |-> g[i]]
    BY <1>4
  <2> HIDE DEF n
  <2> QED
    BY <2>1, <2>2
<1>7. ts = [i \in 0 .. n |-> IF i = 0 THEN text ELSE Applied(ts[i - 1], ops[i])]
  <2> HIDE DEF n
  <2> QED
    BY <1>6
<1>8. Merged(text, ops) = ts[n]
  BY DEF Merged
<1> HIDE DEF ts
<1>9. ts[0] = text /\ \A i \in 1 .. n : ts[i] = Applied(ts[i - 1], ops[i])
  <2>1. 0 \in 0 .. n /\ \A i \in 1 .. n : i \in 0 .. n /\ i # 0
    BY <1>1
  <2> HIDE DEF n
  <2> QED
    BY <1>7, <2>1
<1> DEFINE S == {k \in Nat : k \in 0 .. n => ts[k] \in TextType}
<1>10. 0 \in S
  BY <1>9
<1>11. ASSUME NEW k \in Nat, k \in S
       PROVE  k + 1 \in S
  <2>1. CASE k + 1 \in 0 .. n
    <3>1. k + 1 \in 1 .. n /\ k \in 0 .. n /\ (k + 1) - 1 = k
      BY <1>1, <2>1
    <3>2. ts[k] \in TextType /\ ops[k + 1] \in Operation
      BY <1>1, <1>11, <3>1
    <3>3. ts[k + 1] \in TextType
      BY <1>9, <3>1, <3>2, AppliedType
    <3> QED
      BY <3>3
  <2>2. CASE k + 1 \notin 0 .. n
    BY <2>2
  <2> QED
    BY <2>1, <2>2
<1>12. Nat \subseteq S
  <2> HIDE DEF S
  <2> QED
    BY <1>10, <1>11, Inductive
<1>13. ts \in [0 .. n -> TextType]
  <2>1. ASSUME NEW i \in 0 .. n
        PROVE  ts[i] \in TextType
    <3>1. i \in Nat
      BY <1>1
    <3> QED
      BY <1>12, <3>1
  <2> HIDE DEF n, S
  <2> QED
    BY <1>7, <2>1
<1> QED
  BY <1>8, <1>9, <1>13 DEF Steps

\* The steps lead from text to text, so what each keeps, all keep: Q[k] says
\* that it holds of the text after k operations.
LEMMA MergedType ==
  ASSUME NEW text \in TextType, NEW ops \in Seq(Operation)
  PROVE  Merged(text, ops) \in TextType /\ text.clock <= Merged(text, ops).clock
<1>1. PICK texts : Steps(texts, text, ops) /\ Merged(text, ops) = texts[Len(ops)]
  BY MergedSteps
<1>2. /\ Len(ops) \in Nat /\ \A i \in 1 .. Len(ops) : ops[i] \in Operation
  OBVIOUS
<1>3. /\ \A i \in 0 .. Len(ops) : texts[i] \in TextType
      /\ texts[0] = text
      /\ \A i \in 1 .. Len(ops) : texts[i] = Applied(texts[i - 1], ops[i])
  BY <1>1 DEF Steps
<1> DEFINE S == {k \in Nat : k \in 0 .. Len(ops) => text.clock <= texts[k].clock}
<1>4. 0 \in S
  BY <1>3 DEF TextType
<1>5. ASSUME NEW k \in Nat, k \in S
      PROVE  k + 1 \in S
  <2>1. CASE k + 1 \in 0 .. Len(ops)
    <3>1. k + 1 \in 1 .. Len(ops) /\ k \in 0 .. Len(ops) /\ (k + 1) - 1 = k
      BY <1>2, <2>1
    <3>2. texts[k].clock <= texts[k + 1].clock
      BY <1>2, <1>3, <3>1, AppliedType
    <3>3. text.clock \in Nat /\ texts[k].clock \in Nat /\ texts[k + 1].clock \in Nat
      BY <1>3, <2>1, <3>1 DEF TextType
    <3> QED
      BY <1>5, <3>1, <3>2, <3>3
  <2>2. CASE k + 1 \notin 0 .. Len(ops)
    BY <2>2
  <2> QED
    BY <2>1, <2>2
<1>6. Len(ops) \in S
  <2> HIDE DEF S
  <2> QED
    BY <1>2, <1>4, <1>5, Inductive
<1> QED
  BY <1>1, <1>2, <1>3, <1>6

LEMMA ReadyGrows ==
  ASSUME NEW op, NEW facts, NEW more, facts \subseteq more, Ready(op, facts)
  PROVE  Ready(op, more)
BY DEF Ready

LEMMA ToldMore ==
  ASSUME NEW ops, NEW n \in Nat
  PROVE  /\ ToldBy(ops, 0) = {}
         /\ ToldBy(ops, n + 1) = ToldBy(ops, n) \cup Tells(ops[n + 1])
<1>1. 1 .. n + 1 = (1 .. n) \cup {n + 1} /\ 1 .. 0 = {}
  OBVIOUS
<1> QED
  BY <1>1 DEF ToldBy

\* A post that refers to nothing a text does not hold adds what it says.
LEMMA MergedSound ==
  ASSUME NEW M, WellMade(M), NEW ops \in Seq(Operation), Insertions(ops) \subseteq M,
         NEW text, Sound(text, M), Follows(ops, Facts(text.items))
  PROVE  /\ Sound(Merged(text, ops), M)
         /\ Facts(Merged(text, ops).items) = Facts(text.items) \cup Told(ops)
<1>1. text \in TextType
  BY DEF Sound
<1>2. PICK texts : Steps(texts, text, ops) /\ Merged(text, ops) = texts[Len(ops)]
  BY <1>1, MergedSteps
<1>3. /\ Len(ops) \in Nat /\ DOMAIN ops = 1 .. Len(ops)
      /\ \A i \in 1 .. Len(ops) : ops[i] \in Operation
  OBVIOUS
<1>4. ASSUME NEW i \in 1 .. Len(ops), ops[i].k = "i"
      PROVE  ops[i] \in M
  BY <1>3, <1>4 DEF Insertions, Range
<1>5. /\ texts[0] = text
      /\ \A i \in 1 .. Len(ops) : texts[i] = Applied(texts[i - 1], ops[i])
  BY <1>2 DEF Steps
<1> DEFINE Fine(k) == /\ Sound(texts[k], M)
                      /\ Facts(texts[k].items) = Facts(text.items) \cup ToldBy(ops, k)
           S == {k \in Nat : k \in 0 .. Len(ops) => Fine(k)}
<1>6. 0 \in S
  BY <1>5, ToldMore
<1>7. ASSUME NEW k \in Nat, k \in S
      PROVE  k + 1 \in S
  <2>1. CASE k + 1 \in 0 .. Len(ops)
    <3>1. k + 1 \in 1 .. Len(ops) /\ k \in 0 .. Len(ops) /\ (k + 1) - 1 = k
      BY <1>3, <2>1
    <3>2. Fine(k)
      BY <1>7, <3>1
    <3>3. Ready(ops[k + 1], Facts(texts[k].items))
      <4>1. Ready(ops[k + 1], Facts(text.items) \cup ToldBy(ops, (k + 1) - 1))
        BY <1>3, <3>1 DEF Follows
      <4> QED
        BY <3>1, <3>2, <4>1
    <3>4. ops[k + 1] \in Operation /\ (ops[k + 1].k = "i" => ops[k + 1] \in M)
      BY <1>3, <1>4, <3>1
    <3>5. texts[k + 1] = Applied(texts[k], ops[k + 1])
      BY <1>5, <3>1
    <3>6. /\ Sound(texts[k + 1], M)
          /\ Facts(texts[k + 1].items) = Facts(texts[k].items) \cup Tells(ops[k + 1])
      BY <3>2, <3>3, <3>4, <3>5, AppliedSound
    <3>7. Fine(k + 1)
      BY <3>2, <3>6, ToldMore
    <3> HIDE DEF Fine
    <3> QED
      BY <3>7
  <2>2. CASE k + 1 \notin 0 .. Len(ops)
    BY <2>2
  <2> QED
    BY <2>1, <2>2
<1> HIDE DEF Fine
<1>8. Len(ops) \in S
  <2> HIDE DEF S
  <2> QED
    BY <1>3, <1>6, <1>7, Inductive
<1>9. Fine(Len(ops))
  BY <1>3, <1>8
<1> QED
  BY <1>2, <1>9 DEF Fine, Told

LEMMA FollowsGrows ==
  ASSUME NEW ops, NEW facts, NEW more, facts \subseteq more, Follows(ops, facts)
  PROVE  Follows(ops, more)
<1>1. ASSUME NEW i \in DOMAIN ops
      PROVE  Ready(ops[i], more \cup ToldBy(ops, i - 1))
  <2>1. Ready(ops[i], facts \cup ToldBy(ops, i - 1))
    BY DEF Follows
  <2>2. facts \cup ToldBy(ops, i - 1) \subseteq more \cup ToldBy(ops, i - 1)
    OBVIOUS
  <2> QED
    BY <2>1, <2>2, ReadyGrows
<1> QED
  BY <1>1 DEF Follows

\* One post after another.
LEMMA InARow ==
  ASSUME NEW p \in Seq(Operation), NEW q \in Seq(Operation)
  PROVE  /\ p \o q \in Seq(Operation)
         /\ Told(p \o q) = Told(p) \cup Told(q)
         /\ Insertions(p \o q) = Insertions(p) \cup Insertions(q)
         /\ \A facts : Follows(p, facts) /\ Follows(q, facts \cup Told(p))
                         => Follows(p \o q, facts)
<1> DEFINE r == p \o q
           m == Len(p)
           n == Len(q)
<1>1. /\ m \in Nat /\ n \in Nat /\ DOMAIN p = 1 .. m /\ DOMAIN q = 1 .. n
  OBVIOUS
<1>2. /\ r \in Seq(Operation) /\ Len(r) = m + n /\ DOMAIN r = 1 .. m + n
      /\ \A i \in 1 .. m + n : r[i] = IF i <= m THEN p[i] ELSE q[i - m]
  BY ConcatProperties
<1> HIDE DEF r, m, n
<1>3. /\ \A i \in 1 .. m : i \in 1 .. m + n /\ r[i] = p[i]
      /\ \A i \in 1 .. n : m + i \in 1 .. m + n /\ r[m + i] = q[i]
  <2>1. ASSUME NEW i \in 1 .. m
        PROVE  i \in 1 .. m + n /\ r[i] = p[i]
    BY <1>1, <1>2
  <2>2. ASSUME NEW i \in 1 .. n
        PROVE  m + i \in 1 .. m + n /\ r[m + i] = q[i]
    <3>1. m + i \in 1 .. m + n /\ ~(m + i <= m) /\ (m + i) - m = i
      BY <1>1
    <3> QED
      BY <1>2, <3>1
  <2> QED
    BY <2>1, <2>2
<1>4. ASSUME NEW i \in 1 .. m + n
      PROVE  i \in 1 .. m \/ \E j \in 1 .. n : i = m + j
  <2>1. CASE i <= m
    BY <1>1, <2>1
  <2>2. CASE ~(i <= m)
    <3>1. i - m \in 1 .. n /\ i = m + (i - m)
      BY <1>1, <2>2
    <3> QED
      BY <3>1
  <2> QED
    BY <2>1, <2>2
<1>5. ASSUME NEW j \in 0 .. m
      PROVE  ToldBy(r, j) = ToldBy(p, j)
  <2>1. \A i \in 1 .. j : r[i] = p[i]
    BY <1>1, <1>3
  <2> QED
    BY <2>1 DEF ToldBy
<1>6. ASSUME NEW j \in 0 .. n
      PROVE  ToldBy(r, m + j) = ToldBy(p, m) \cup ToldBy(q, j)
  <2>1. ASSUME NEW f \in ToldBy(r, m + j)
        PROVE  f \in ToldBy(p, m) \cup ToldBy(q, j)
    <3>1. PICK i \in 1 .. m + j : f \in Tells(r[i])
      BY DEF ToldBy
    <3>2. CASE i <= m
      <4>1. i \in 1 .. m
        BY <1>1, <3>2
      <4> QED
        BY <1>3, <3>1, <4>1 DEF ToldBy
    <3>3. CASE ~(i <= m)
      <4>1. i - m \in 1 .. j /\ i - m \in 1 .. n /\ i = m + (i - m)
        BY <1>1, <3>3
      <4>2. r[i] = q[i - m]
        BY <1>3, <4>1
      <4> QED
        BY <3>1, <4>1, <4>2 DEF ToldBy
    <3> QED
      BY <3>2, <3>3
  <2>2. ASSUME NEW f \in ToldBy(p, m)
        PROVE  f \in ToldBy(r, m + j)
    <3>1. PICK i \in 1 .. m : f \in Tells(p[i])
      BY DEF ToldBy
    <3>2. i \in 1 .. m + j /\ r[i] = p[i]
      BY <1>1, <1>3
    <3> QED
      BY <3>1, <3>2 DEF ToldBy
  <2>3. ASSUME NEW f \in ToldBy(q, j)
        PROVE  f \in ToldBy(r, m + j)
    <3>1. PICK i \in 1 .. j : f \in Tells(q[i])
      BY DEF ToldBy
    <3>2. i \in 1 .. n /\ m + i \in 1 .. m + j
      BY <1>1
    <3>3. r[m + i] = q[i]
      BY <1>3, <3>2
    <3> QED
      BY <3>1, <3>2, <3>3 DEF ToldBy
  <2> QED
    BY <2>1, <2>2, <2>3
<1>7. Told(r) = Told(p) \cup Told(q)
  <2>1. n \in 0 .. n
    BY <1>1
  <2> QED
    BY <1>2, <1>6, <2>1 DEF Told, m, n
<1>8. Range(r) = Range(p) \cup Range(q)
  <2>1. ASSUME NEW x \in Range(r)
        PROVE  x \in Range(p) \cup Range(q)
    <3>1. PICK i \in 1 .. m + n : x = r[i]
      BY <1>2 DEF Range
    <3> QED
      BY <1>1, <1>3, <1>4, <3>1 DEF Range
  <2>2. ASSUME NEW x \in Range(p)
        PROVE  x \in Range(r)
    BY <1>1, <1>2, <1>3 DEF Range
  <2>3. ASSUME NEW x \in Range(q)
        PROVE  x \in Range(r)
    <3>1. PICK i \in 1 .. n : x = q[i]
      BY <1>1 DEF Range
    <3>2. m + i \in DOMAIN r /\ r[m + i] = x
      BY <1>2, <1>3, <3>1
    <3> QED
      BY <3>2 DEF Range
  <2> QED
    BY <2>1, <2>2, <2>3
<1>9. Insertions(r) = Insertions(p) \cup Insertions(q)
  BY <1>8 DEF Insertions
<1>10. ASSUME NEW facts, Follows(p, facts), Follows(q, facts \cup Told(p)), NEW i \in DOMAIN r
       PROVE  Ready(r[i], facts \cup ToldBy(r, i - 1))
  <2>1. CASE i \in 1 .. m
    <3>1. i - 1 \in 0 .. m
      BY <1>1, <2>1
    <3>2. Ready(p[i], facts \cup ToldBy(p, i - 1))
      BY <1>1, <1>10, <2>1 DEF Follows
    <3> QED
      BY <1>3, <1>5, <2>1, <3>1, <3>2
  <2>2. ASSUME NEW j \in 1 .. n, i = m + j
        PROVE  Ready(r[i], facts \cup ToldBy(r, i - 1))
    <3>1. j - 1 \in 0 .. n /\ i - 1 = m + (j - 1)
      BY <1>1, <2>2
    <3>2. Ready(q[j], (facts \cup Told(p)) \cup ToldBy(q, j - 1))
      BY <1>1, <1>10 DEF Follows
    <3>3. ToldBy(r, i - 1) = Told(p) \cup ToldBy(q, j - 1)
      BY <1>6, <3>1 DEF Told, m
    <3>4. (facts \cup Told(p)) \cup ToldBy(q, j - 1) = facts \cup ToldBy(r, i - 1)
      BY <3>3
    <3> QED
      BY <1>3, <2>2, <3>2, <3>4
  <2> QED
    BY <1>2, <1>4, <2>1, <2>2
<1>11. \A facts : Follows(p, facts) /\ Follows(q, facts \cup Told(p)) => Follows(r, facts)
  BY <1>10 DEF Follows
<1> QED
  BY <1>2, <1>7, <1>9, <1>11 DEF r

LEMMA NoneYet ==
  /\ <<>> \in Seq(Operation) /\ Told(<<>>) = {} /\ Insertions(<<>>) = {}
  /\ \A facts : Follows(<<>>, facts)
<1>1. DOMAIN <<>> = {} /\ Len(<<>>) = 0 /\ Range(<<>>) = {}
  BY DEF Range
<1>2. Told(<<>>) = {}
  BY <1>1, ToldMore DEF Told
<1> QED
  BY <1>1, <1>2 DEF Insertions, Follows

LEMMA OneMore ==
  ASSUME NEW ops \in Seq(Operation), NEW op \in Operation
  PROVE  /\ Append(ops, op) \in Seq(Operation)
         /\ Told(Append(ops, op)) = Told(ops) \cup Tells(op)
         /\ Insertions(Append(ops, op)) = Insertions(ops) \cup {o \in {op} : o.k = "i"}
         /\ \A facts : Follows(ops, facts) /\ Ready(op, facts \cup Told(ops))
                         => Follows(Append(ops, op), facts)
<1> DEFINE q == <<op>>
<1>1. q \in Seq(Operation) /\ Append(ops, op) = ops \o q
  OBVIOUS
<1>2. Len(q) = 1 /\ DOMAIN q = {1} /\ q[1] = op /\ Range(q) = {op}
  <2>1. Len(q) = 1 /\ DOMAIN q = 1 .. 1 /\ q[1] = op
    OBVIOUS
  <2>2. 1 .. 1 = {1}
    OBVIOUS
  <2>3. DOMAIN q = {1}
    BY <2>1, <2>2
  <2> HIDE DEF q
  <2>4. Range(q) = {op}
    BY <2>1, <2>3 DEF Range
  <2> QED
    BY <2>1, <2>3, <2>4
<1> HIDE DEF q
<1>3. Told(q) = Tells(op) /\ ToldBy(q, 0) = {}
  <2>1. ToldBy(q, 0 + 1) = ToldBy(q, 0) \cup Tells(q[0 + 1]) /\ ToldBy(q, 0) = {}
    BY ToldMore
  <2>2. ToldBy(q, 1) = ToldBy(q, 0) \cup Tells(q[1])
    BY <2>1
  <2>3. ToldBy(q, 1) = Tells(op)
    BY <1>2, <2>1, <2>2
  <2> QED
    BY <1>2, <2>1, <2>3 DEF Told
<1>4. Insertions(q) = {o \in {op} : o.k = "i"}
  BY <1>2 DEF Insertions
<1>5. ASSUME NEW facts, Ready(op, facts)
      PROVE  Follows(q, facts)
  <2>1. \A i \in DOMAIN q : i = 1 /\ q[i] = op /\ ToldBy(q, i - 1) = {}
    BY <1>2, <1>3
  <2>2. \A i \in DOMAIN q : Ready(q[i], facts \cup ToldBy(q, i - 1))
    BY <1>5, <2>1
  <2> QED
    BY <2>2 DEF Follows
<1> QED
  BY <1>1, <1>3, <1>4, <1>5, InARow

-----------------------------------------------------------------------------
(* All posts of the session, one after the other.                          *)

ToldAll(seqs, n) == UNION {Told(seqs[i]) : i \in 1 .. n}
InsertedAll(seqs, n) == UNION {Insertions(seqs[i]) : i \in 1 .. n}

LEMMA AllMore ==
  ASSUME NEW seqs, NEW n \in Nat
  PROVE  /\ ToldAll(seqs, 0) = {} /\ InsertedAll(seqs, 0) = {}
         /\ ToldAll(seqs, n + 1) = ToldAll(seqs, n) \cup Told(seqs[n + 1])
         /\ InsertedAll(seqs, n + 1) = InsertedAll(seqs, n) \cup Insertions(seqs[n + 1])
<1>1. 1 .. n + 1 = (1 .. n) \cup {n + 1} /\ 1 .. 0 = {}
  OBVIOUS
<1> QED
  BY <1>1 DEF ToldAll, InsertedAll

FollowAll(seqs, facts) == \A i \in DOMAIN seqs : Follows(seqs[i], facts \cup ToldAll(seqs, i - 1))

LEMMA FlattenSteps ==
  ASSUME NEW seqs \in Seq(Seq(Operation)), Len(seqs) # 0
  PROVE  \E f : /\ FlattenSeq(seqs) = f[Len(seqs)]
                /\ f[1] = seqs[1]
                /\ \A i \in 2 .. Len(seqs) : f[i] = f[i - 1] \o seqs[i]
<1> DEFINE n == Len(seqs)
           G == [p \in Nat \X Seq(Operation) |->
                   IF p[1] \in 1 .. n THEN p[2] \o seqs[p[1]] ELSE p[2]]
           ts == CHOOSE f : f = [i \in 1 .. n |-> IF i = 1 THEN seqs[i] ELSE f[i - 1] \o seqs[i]]
<1>1. /\ n \in Nat /\ n >= 1 /\ \A i \in 1 .. n : seqs[i] \in Seq(Operation)
  OBVIOUS
<1>2. G \in [Nat \X Seq(Operation) -> Seq(Operation)]
  <2>1. ASSUME NEW p \in Nat \X Seq(Operation)
        PROVE  (IF p[1] \in 1 .. n THEN p[2] \o seqs[p[1]] ELSE p[2]) \in Seq(Operation)
    <3>1. p[2] \in Seq(Operation)
      OBVIOUS
    <3>2. CASE p[1] \in 1 .. n
      <4>1. seqs[p[1]] \in Seq(Operation)
        BY <1>1, <3>2
      <4> QED
        BY <3>1, <3>2, <4>1, InARow
    <3> QED
      BY <3>1, <3>2
  <2> QED
    BY <2>1
<1>3. <<>> \in Seq(Operation)
  OBVIOUS
<1>4. PICK g : Computed(g, Seq(Operation), <<>>, G, n)
  <2> HIDE DEF G, n
  <2> QED
    BY <1>1, <1>2, <1>3, StepByStep
<1>5. /\ g \in [0 .. n -> Seq(Operation)] /\ g[0] = <<>>
      /\ \A i \in 1 .. n : g[i] = G[<<i, g[i - 1]>>]
  BY <1>4 DEF Computed
<1>6. ASSUME NEW i \in 1 .. n
      PROVE  g[i] = g[i - 1] \o seqs[i]
  <2>1. i \in Nat /\ i - 1 \in 0 .. n /\ g[i - 1] \in Seq(Operation)
    <3> HIDE DEF G
    <3>1. i \in Nat /\ i - 1 \in 0 .. n
      BY <1>1
    <3> HIDE DEF n
    <3> QED
      BY <1>5, <3>1
  <2>2. G[<<i, g[i - 1]>>] = g[i - 1] \o seqs[i]
    BY <2>1
  <2> QED
    BY <1>5, <2>2
<1>7. g[1] = seqs[1]
  <2>1. 1 \in 1 .. n /\ 1 - 1 = 0
    BY <1>1
  <2>2. g[1] = <<>> \o seqs[1]
    BY <1>5, <1>6, <2>1
  <2> QED
    BY <1>1, <2>1, <2>2, ConcatEmptySeq
<1> DEFINE h == [i \in 1 .. n |-> g[i]]
<1>8. h = [i \in 1 .. n |-> IF i = 1 THEN seqs[i] ELSE h[i - 1] \o seqs[i]]
  <2>1. ASSUME NEW i \in 1 .. n
        PROVE  g[i] = IF i = 1 THEN seqs[i] ELSE h[i - 1] \o seqs[i]
    <3>1. CASE i = 1
      BY <1>7, <3>1
    <3>2. CASE i # 1
      <4>1. i - 1 \in 1 .. n
        BY <1>1, <3>2
      <4>2. h[i - 1] = g[i - 1]
        BY <4>1
      <4> QED
        BY <1>6, <3>2, <4>2
    <3> QED
      BY <3>1, <3>2
  <2> QED
    BY <2>1
<1>9. ts = [i \in 1 .. n |-> IF i = 1 THEN seqs[i] ELSE ts[i - 1] \o seqs[i]]
  <2> HIDE DEF h, n
  <2> QED
    BY <1>8
<1>10. FlattenSeq(seqs) = ts[n]
  BY DEF FlattenSeq
<1> HIDE DEF ts
<1>11. ts[1] = seqs[1] /\ \A i \in 2 .. n : ts[i] = ts[i - 1] \o seqs[i]
  <2>1. 1 \in 1 .. n /\ \A i \in 2 .. n : i \in 1 .. n /\ i # 1
    BY <1>1
  <2> HIDE DEF n
  <2> QED
    BY <1>9, <2>1
<1> QED
  BY <1>10, <1>11

LEMMA FlattenType ==
  ASSUME NEW seqs \in Seq(Seq(Operation))
  PROVE  FlattenSeq(seqs) \in Seq(Operation)
<1>1. CASE Len(seqs) = 0
  <2>1. seqs = <<>>
    BY <1>1
  <2> QED
    BY <1>1, <2>1 DEF FlattenSeq
<1>2. CASE Len(seqs) # 0
  <2> DEFINE n == Len(seqs)
  <2>1. PICK f : /\ FlattenSeq(seqs) = f[n] /\ f[1] = seqs[1]
                 /\ \A i \in 2 .. n : f[i] = f[i - 1] \o seqs[i]
    BY <1>2, FlattenSteps
  <2>2. n \in Nat /\ n >= 1 /\ \A i \in 1 .. n : seqs[i] \in Seq(Operation)
    BY <1>2
  <2> HIDE DEF n
  <2> DEFINE S == {k \in Nat : k + 1 \in 1 .. n => f[k + 1] \in Seq(Operation)}
  <2>3. 0 \in S
    BY <2>1, <2>2
  <2>4. ASSUME NEW k \in Nat, k \in S
        PROVE  k + 1 \in S
    <3>1. CASE (k + 1) + 1 \in 1 .. n
      <4>1. k + 1 \in 1 .. n /\ (k + 1) + 1 \in 2 .. n /\ ((k + 1) + 1) - 1 = k + 1
        BY <2>2, <3>1
      <4>2. f[k + 1] \in Seq(Operation) /\ seqs[(k + 1) + 1] \in Seq(Operation)
        BY <2>2, <2>4, <3>1, <4>1
      <4>3. f[(k + 1) + 1] = f[k + 1] \o seqs[(k + 1) + 1]
        BY <2>1, <4>1
      <4>4. f[(k + 1) + 1] \in Seq(Operation)
        BY <4>2, <4>3, InARow
      <4> QED
        BY <4>4
    <3>2. CASE (k + 1) + 1 \notin 1 .. n
      BY <3>2
    <3> QED
      BY <3>1, <3>2
  <2>5. n - 1 \in S
    <3>1. n - 1 \in Nat
      BY <2>2
    <3> HIDE DEF S
    <3> QED
      BY <2>3, <2>4, <3>1, Inductive
  <2> QED
    BY <2>1, <2>2, <2>5
<1> QED
  BY <1>1, <1>2

LEMMA Flattened ==
  ASSUME NEW seqs \in Seq(Seq(Operation)), NEW facts, FollowAll(seqs, facts)
  PROVE  /\ FlattenSeq(seqs) \in Seq(Operation)
         /\ Told(FlattenSeq(seqs)) = ToldAll(seqs, Len(seqs))
         /\ Insertions(FlattenSeq(seqs)) = InsertedAll(seqs, Len(seqs))
         /\ Follows(FlattenSeq(seqs), facts)
<1>1. CASE Len(seqs) = 0
  <2>1. seqs = <<>>
    BY <1>1
  <2>2. FlattenSeq(seqs) = <<>>
    BY <1>1, <2>1 DEF FlattenSeq
  <2> QED
    BY <1>1, <2>2, NoneYet, AllMore
<1>2. CASE Len(seqs) # 0
  <2> DEFINE n == Len(seqs)
  <2>1. PICK f : /\ FlattenSeq(seqs) = f[n] /\ f[1] = seqs[1]
                 /\ \A i \in 2 .. n : f[i] = f[i - 1] \o seqs[i]
    BY <1>2, FlattenSteps
  <2>2. /\ n \in Nat /\ n >= 1 /\ \A i \in 1 .. n : seqs[i] \in Seq(Operation)
        /\ DOMAIN seqs = 1 .. n
    BY <1>2
  <2> HIDE DEF n
  <2> DEFINE Fine(k) == /\ f[k] \in Seq(Operation) /\ Told(f[k]) = ToldAll(seqs, k)
                        /\ Insertions(f[k]) = InsertedAll(seqs, k)
                        /\ Follows(f[k], facts)
             S == {k \in Nat : k + 1 \in 1 .. n => Fine(k + 1)}
  <2>3. 0 \in S
    <3>1. 0 + 1 = 1 /\ 1 \in 1 .. n /\ 1 - 1 = 0
      BY <2>2
    <3>2. ToldAll(seqs, 1) = Told(seqs[1]) /\ InsertedAll(seqs, 1) = Insertions(seqs[1])
      <4>1. /\ ToldAll(seqs, 0) = {} /\ InsertedAll(seqs, 0) = {}
            /\ ToldAll(seqs, 0 + 1) = ToldAll(seqs, 0) \cup Told(seqs[0 + 1])
            /\ InsertedAll(seqs, 0 + 1) = InsertedAll(seqs, 0) \cup Insertions(seqs[0 + 1])
        BY AllMore
      <4> QED
        BY <3>1, <4>1
    <3>3. Follows(seqs[1], facts)
      <4>1. Follows(seqs[1], facts \cup ToldAll(seqs, 1 - 1))
        BY <2>2, <3>1 DEF FollowAll
      <4>2. facts \cup ToldAll(seqs, 1 - 1) = facts
        BY <3>1, AllMore
      <4> QED
        BY <4>1, <4>2
    <3>4. Fine(1)
      BY <2>1, <2>2, <3>1, <3>2, <3>3
    <3> HIDE DEF Fine
    <3> QED
      BY <3>1, <3>4
  <2>4. ASSUME NEW k \in Nat, k \in S
        PROVE  k + 1 \in S
    <3>1. CASE (k + 1) + 1 \in 1 .. n
      <4> DEFINE j == k + 1
      <4>1. /\ j \in 1 .. n /\ j \in Nat /\ j + 1 \in 2 .. n /\ j + 1 \in 1 .. n
            /\ (j + 1) - 1 = j
        BY <2>2, <3>1
      <4>2. Fine(j)
        BY <2>4, <4>1
      <4> HIDE DEF j
      <4>3. f[j + 1] = f[j] \o seqs[j + 1] /\ seqs[j + 1] \in Seq(Operation)
        <5>1. f[j + 1] = f[(j + 1) - 1] \o seqs[j + 1]
          BY <2>1, <4>1
        <5> QED
          BY <2>2, <4>1, <5>1
      <4>4. Follows(seqs[j + 1], facts \cup Told(f[j]))
        <5>1. Follows(seqs[j + 1], facts \cup ToldAll(seqs, (j + 1) - 1))
          BY <2>2, <4>1 DEF FollowAll
        <5> QED
          BY <4>1, <4>2, <5>1
      <4>5. /\ ToldAll(seqs, j + 1) = ToldAll(seqs, j) \cup Told(seqs[j + 1])
            /\ InsertedAll(seqs, j + 1) = InsertedAll(seqs, j) \cup Insertions(seqs[j + 1])
        BY <4>1, AllMore
      <4>6. /\ f[j + 1] \in Seq(Operation)
            /\ Told(f[j + 1]) = Told(f[j]) \cup Told(seqs[j + 1])
            /\ Insertions(f[j + 1]) = Insertions(f[j]) \cup Insertions(seqs[j + 1])
            /\ Follows(f[j + 1], facts)
        <5>1. f[j] \in Seq(Operation) /\ Follows(f[j], facts)
          BY <4>2
        <5> DEFINE p == f[j]
                   q == seqs[j + 1]
        <5>2. /\ p \in Seq(Operation) /\ q \in Seq(Operation) /\ f[j + 1] = p \o q
              /\ Follows(p, facts) /\ Follows(q, facts \cup Told(p))
          BY <4>3, <4>4, <5>1
        <5> HIDE DEF Fine, S, p, q
        <5>3. /\ p \o q \in Seq(Operation) /\ Told(p \o q) = Told(p) \cup Told(q)
              /\ Insertions(p \o q) = Insertions(p) \cup Insertions(q)
              /\ Follows(p \o q, facts)
          BY <5>2, InARow
        <5> QED
          BY <5>2, <5>3 DEF p, q
      <4>7. Fine(j + 1)
        BY <4>2, <4>5, <4>6
      <4> HIDE DEF Fine
      <4> QED
        BY <4>7 DEF j
    <3>2. CASE (k + 1) + 1 \notin 1 .. n
      BY <3>2
    <3> QED
      BY <3>1, <3>2
  <2>5. n - 1 \in S
    <3>1. n - 1 \in Nat
      BY <2>2
    <3> HIDE DEF S
    <3> QED
      BY <2>3, <2>4, <3>1, Inductive
  <2>6. Fine(n)
    <3>1. (n - 1) + 1 = n /\ n \in 1 .. n
      BY <2>2
    <3> HIDE DEF Fine
    <3> QED
      BY <2>5, <3>1
  <2> QED
    BY <2>1, <2>6 DEF n
<1> QED
  BY <1>1, <1>2

-----------------------------------------------------------------------------
(* A new insertion changes nothing for the texts that do not hold it yet.  *)

LEMMA TextGrows ==
  ASSUME NEW M, NEW op \in Insertion, Len(op.c) >= 1, NEW its,
         Shape(its, Born(M)), Whole(its, M),
         \A k \in DOMAIN op.c : Name(op, k) \notin Ids(its)
  PROVE  Shape(its, Born(M \cup {op})) /\ Whole(its, M \cup {op})
<1>1. Born(M) \subseteq Born(M \cup {op})
  BY DEF Born
<1>2. op.id \notin Ids(its)
  BY FirstName
<1> QED
  BY <1>1, <1>2, ShapeGrows DEF Whole

-----------------------------------------------------------------------------
(* The type invariant, with what keeps it: a session has a snapshot, and    *)
(* every insertion brings at most MaxRun characters.                        *)

Typed ==
  /\ TypeOK
  /\ seen_deletes \in [Site -> SUBSET Id]
  /\ Host \in members => snapshot # <<>>
  /\ chars <= edits * MaxRun

LEMMA TypedParts ==
  ASSUME Typed
  PROVE  /\ items \in [Site -> Seq(Character)] /\ seen_deletes \in [Site -> SUBSET Id]
         /\ clock \in [Site -> Nat] /\ outgoing \in [Site -> Seq(Operation)]
         /\ members \subseteq Site /\ snapshot \in Seq(Seq(Character)) /\ Len(snapshot) <= 1
         /\ log \in Seq([from : Site, ops : Seq(Operation)])
         /\ got \in [Site -> 0 .. Len(log)]
         /\ edits \in Nat /\ edits <= MaxEdit /\ chars \in Nat /\ chars <= edits * MaxRun
         /\ Len(log) \in Nat /\ DOMAIN log = 1 .. Len(log)
         /\ Host \in members => snapshot # <<>>
<1>1. /\ edits \in Nat /\ edits <= MaxEdit /\ chars \in Nat
  <2>1. edits \in 0 .. MaxEdit /\ chars \in 0 .. MaxEdit * MaxRun
    BY DEF Typed, TypeOK
  <2>2. MaxEdit \in Nat /\ MaxRun \in Nat
    BY EditAssumption
  <2> QED
    BY <2>1, <2>2
<1> QED
  BY <1>1 DEF Typed, TypeOK, Operation

LEMMA TimesGrows ==
  ASSUME NEW e \in Nat, NEW n \in Nat, e <= n, NEW m \in Nat
  PROVE  e * m <= n * m /\ (e + 1) * m = e * m + m /\ e * m \in Nat /\ n * m \in Nat
<1>1. n - e \in Nat /\ (n - e) * m \in Nat
  OBVIOUS
<1>2. n * m = e * m + (n - e) * m
  OBVIOUS
<1>3. (e + 1) * m = e * m + m /\ e * m \in Nat
  OBVIOUS
<1> QED
  BY <1>1, <1>2, <1>3

LEMMA CountsAre ==
  ASSUME NEW e \in Nat, e <= MaxEdit, NEW c \in Nat, c <= e * MaxRun
  PROVE  e \in 0 .. MaxEdit /\ c \in 0 .. MaxEdit * MaxRun
<1>1. MaxEdit \in Nat /\ MaxRun \in Nat
  BY EditAssumption
<1>2. e * MaxRun <= MaxEdit * MaxRun /\ e * MaxRun \in Nat /\ MaxEdit * MaxRun \in Nat
  BY <1>1, TimesGrows
<1> DEFINE a == e * MaxRun
           b == MaxEdit * MaxRun
<1>3. a <= b /\ a \in Nat /\ b \in Nat /\ c <= a
  BY <1>2
<1> HIDE DEF a, b
<1>4. c \in 0 .. b
  BY <1>3
<1> QED
  BY <1>1, <1>4 DEF b

\* ... of the next state.
LEMMA TypedNext ==
  ASSUME items' \in [Site -> Seq(Character)], seen_deletes' \in [Site -> SUBSET Id],
         clock' \in [Site -> Nat], outgoing' \in [Site -> Seq(Operation)],
         members' \subseteq Site, snapshot' \in Seq(Seq(Character)), Len(snapshot') <= 1,
         log' \in Seq([from : Site, ops : Seq(Operation)]), got' \in [Site -> 0 .. Len(log')],
         edits' \in Nat, edits' <= MaxEdit, chars' \in Nat, chars' <= edits' * MaxRun,
         Host \in members' => snapshot' # <<>>
  PROVE  Typed'
<1>1. edits' \in 0 .. MaxEdit /\ chars' \in 0 .. MaxEdit * MaxRun
  BY CountsAre
<1> QED
  BY <1>1 DEF Typed, TypeOK, Operation

LEMMA PostParts ==
  ASSUME Typed, NEW i \in DOMAIN log
  PROVE  log[i].ops \in Seq(Operation) /\ log[i].from \in Site
<1> DEFINE Post == [from : Site, ops : Seq(Operation)]
<1>1. log \in Seq(Post) /\ i \in 1 .. Len(log)
  BY TypedParts
<1> HIDE DEF Post
<1>2. log[i] \in Post
  BY <1>1
<1> QED
  BY <1>2 DEF Post

-----------------------------------------------------------------------------
(* What the actions do.                                                    *)

\* A site inserts `run` behind the first `at` characters, and will post `op`.
Inserts(s, at, n, ts, op, run) ==
  /\ at \in 0 .. Len(items[s]) /\ n \in 1 .. MaxRun
  /\ ts \in [1 .. n -> Nat] /\ clock[s] < ts[1]
  /\ op \in Insertion /\ op.id = <<ts[1], s>> /\ Len(op.c) = n
  /\ op.after = IF at = 0 THEN Start ELSE items[s][at].id
  /\ \A k \in 1 .. n : op.c[k] = chars + k
  /\ run \in Seq(Character) /\ Len(run) = n
  /\ \A k \in 1 .. n : run[k] = [id |-> <<ts[k], s>>, ch |-> op.c[k], deleted |-> FALSE]
  /\ items' = [items EXCEPT ![s] = Spliced(@, at, run)]
  /\ clock' = [clock EXCEPT ![s] = ts[n]]
  /\ outgoing' = [outgoing EXCEPT ![s] = Append(@, op)]
  /\ chars' = chars + n /\ edits' = edits + 1 /\ edits + 1 <= MaxEdit
  /\ UNCHANGED <<seen_deletes, session>>

\* The wall clock does not advance between the characters of a run, or no run
\* has two.
OneMoment == Drift \subseteq {0} \/ MaxRun = 1

LEMMA InsertIs ==
  ASSUME Typed, NEW s \in Site, Insert(s)
  PROVE  \E at, n, ts, op, run :
           /\ Inserts(s, at, n, ts, op, run)
           /\ OneMoment => \A k \in 1 .. n : ts[k] = ts[1] + k - 1
<1>1. PICK at \in Places(items[s]), n \in 1 .. MaxRun, first \in Ahead,
           drift \in [1 .. MaxRun -> Drift] :
        /\ LET ts == Ticks(clock[s], n, first, drift)
               run == [i \in 1 .. n |->
                         [id |-> <<ts[i], s>>, ch |-> chars + i, deleted |-> FALSE]]
               after == IF at = 0 THEN Start ELSE items[s][at].id
           IN  /\ items' = [items EXCEPT ![s] = Spliced(@, at, run)]
               /\ clock' = [clock EXCEPT ![s] = ts[n]]
               /\ outgoing' = [outgoing EXCEPT ![s] = Append(@,
                    [k |-> "i", after |-> after, id |-> run[1].id,
                     c |-> [i \in 1 .. n |-> chars + i]])]
        /\ chars' = chars + n
  BY DEF Insert
<1> DEFINE ts == Ticks(clock[s], n, first, drift)
           run == [i \in 1 .. n |->
                     [id |-> <<ts[i], s>>, ch |-> chars + i, deleted |-> FALSE]]
           after == IF at = 0 THEN Start ELSE items[s][at].id
           op == [k |-> "i", after |-> after, id |-> run[1].id,
                  c |-> [i \in 1 .. n |-> chars + i]]
<1>2. /\ items[s] \in Seq(Character) /\ Len(items[s]) \in Nat /\ clock[s] \in Nat
      /\ DOMAIN items[s] = 1 .. Len(items[s])
      /\ chars \in Nat /\ MaxRun \in Nat /\ edits \in Nat
      /\ n \in Nat /\ n >= 1 /\ n <= MaxRun /\ 1 \in 1 .. n
  <2>1. items[s] \in Seq(Character) /\ clock[s] \in Nat /\ chars \in Nat /\ edits \in Nat
    BY TypedParts
  <2>2. MaxRun \in Nat
    BY EditAssumption
  <2>3. n \in Nat /\ n >= 1 /\ n <= MaxRun
    BY <2>2
  <2> QED
    BY <2>1, <2>2, <2>3
<1>3. at \in 0 .. Len(items[s])
  BY <1>2 DEF Places, Visible
<1>4. /\ ts \in [1 .. n -> Nat] /\ ts[1] = clock[s] + 1 + first
      /\ \A i \in 2 .. n : ts[i] = ts[i - 1] + 1 + drift[i]
  <2>1. Ticking(ts, n, drift) /\ ts \in [1 .. n -> Nat] /\ ts[1] = clock[s] + 1 + first
    BY <1>2, TicksAre
  <2> QED
    BY <2>1 DEF Ticking
<1>5. clock[s] < ts[1]
  <2>1. first \in Nat
    BY ClockAssumption
  <2> HIDE DEF ts
  <2> QED
    BY <1>2, <1>4, <2>1
<1> HIDE DEF ts
<1>6. after \in Id
  <2>1. CASE at = 0
    BY <2>1 DEF Start, Id
  <2>2. CASE at # 0
    <3>1. at \in DOMAIN items[s]
      BY <1>2, <1>3, <2>2
    <3> QED
      BY <1>2, <2>2, <3>1, Parts
  <2> QED
    BY <2>1, <2>2
<1> HIDE DEF after
<1>7. run[1].id = <<ts[1], s>>
  BY <1>2
<1>8. op \in Insertion /\ Len(op.c) = n /\ \A k \in 1 .. n : op.c[k] = chars + k
  <2> DEFINE c == [i \in 1 .. n |-> chars + i]
  <2>1. c \in Seq(Char) /\ Len(c) = n /\ \A k \in 1 .. n : c[k] = chars + k
    BY <1>2 DEF Char
  <2>2. ts[1] \in Nat
    BY <1>2, <1>4
  <2>3. op = [k |-> "i", after |-> after, id |-> <<ts[1], s>>, c |-> c]
    BY <1>7
  <2> HIDE DEF op, c, run
  <2> QED
    BY <1>6, <2>1, <2>2, <2>3 DEF Insertion
<1>9. ASSUME NEW k \in 1 .. n
      PROVE  /\ run[k] = [id |-> <<ts[k], s>>, ch |-> op.c[k], deleted |-> FALSE]
             /\ run[k] \in Character
  <2>1. run[k] = [id |-> <<ts[k], s>>, ch |-> op.c[k], deleted |-> FALSE]
    BY <1>8
  <2>2. <<ts[k], s>> \in Id
    BY <1>4 DEF Id
  <2>3. op.c[k] \in Char
    BY <1>2, <1>8 DEF Char
  <2> HIDE DEF op, run
  <2> QED
    BY <2>1, <2>2, <2>3 DEF Character
<1>10. run \in Seq(Character) /\ Len(run) = n
  <2>1. run \in [1 .. n -> Character]
    <3>1. run = [k \in 1 .. n |-> run[k]]
      OBVIOUS
    <3> HIDE DEF run
    <3> QED
      BY <1>9, <3>1
  <2> HIDE DEF run
  <2> QED
    BY <1>2, <2>1
<1>11. edits + 1 <= MaxEdit
  <2>1. MaxEdit \in Nat /\ MaxEarly \in 0 .. MaxEdit
    BY EditAssumption
  <2>2. MaxEarly \in Nat /\ MaxEarly <= MaxEdit
    BY <2>1
  <2>3. edits < MaxEdit \/ edits < MaxEarly
    BY DEF Insert, Edits
  <2> QED
    BY <1>2, <2>1, <2>2, <2>3
<1>12. /\ items' = [items EXCEPT ![s] = Spliced(@, at, run)]
       /\ clock' = [clock EXCEPT ![s] = ts[n]]
       /\ outgoing' = [outgoing EXCEPT ![s] = Append(@, op)]
       /\ chars' = chars + n /\ edits' = edits + 1
       /\ UNCHANGED <<seen_deletes, session>>
  BY <1>1 DEF Insert, ts, after
<1>13. op.id = <<ts[1], s>> /\ op.after = after
  BY <1>7
<1>14. Inserts(s, at, n, ts, op, run)
  <2> HIDE DEF op, run
  <2> QED
    BY <1>3, <1>4, <1>5, <1>8, <1>9, <1>10, <1>11, <1>12, <1>13 DEF Inserts, after
<1>15. ASSUME OneMoment
       PROVE  \A k \in 1 .. n : ts[k] = ts[1] + k - 1
  <2> DEFINE S == {j \in Nat : j + 1 \in 1 .. n => ts[j + 1] = ts[1] + j}
  <2>1. 0 \in S
    BY <1>2, <1>4
  <2>2. ASSUME NEW j \in Nat, j \in S
        PROVE  j + 1 \in S
    <3>1. CASE (j + 1) + 1 \in 1 .. n
      <4>1. /\ j + 1 \in 1 .. n /\ (j + 1) + 1 \in 2 .. n /\ ((j + 1) + 1) - 1 = j + 1
            /\ (j + 1) + 1 \in 1 .. MaxRun /\ MaxRun # 1
        BY <1>2, <3>1
      <4>2. drift[(j + 1) + 1] = 0
        BY <1>15, <4>1 DEF OneMoment
      <4>3. ts[(j + 1) + 1] = ts[j + 1] + 1 + drift[(j + 1) + 1]
        BY <1>4, <4>1
      <4>4. ts[j + 1] = ts[1] + j /\ ts[1] \in Nat
        BY <1>2, <1>4, <2>2, <4>1
      <4> QED
        BY <4>2, <4>3, <4>4
    <3>2. CASE (j + 1) + 1 \notin 1 .. n
      BY <3>2
    <3> QED
      BY <3>1, <3>2
  <2>3. Nat \subseteq S
    <3> HIDE DEF S
    <3> QED
      BY <2>1, <2>2, Inductive
  <2>4. ASSUME NEW k \in 1 .. n
        PROVE  ts[k] = ts[1] + k - 1
    <3>1. k - 1 \in Nat /\ (k - 1) + 1 = k /\ ts[1] \in Nat
      BY <1>2, <1>4
    <3>2. k - 1 \in S
      BY <2>3, <3>1
    <3>3. ts[k] = ts[1] + (k - 1)
      BY <3>1, <3>2
    <3> QED
      BY <1>2, <3>1, <3>3
  <2> QED
    BY <2>4
<1> QED
  BY <1>14, <1>15

LEMMA TextIs ==
  ASSUME Typed, NEW s \in Site
  PROVE  /\ Text(s) \in TextType
         /\ Text(s).items = items[s] /\ Text(s).seen = seen_deletes[s]
         /\ Text(s).clock = clock[s]
<1>1. items[s] \in Seq(Character) /\ seen_deletes[s] \in SUBSET Id /\ clock[s] \in Nat
  BY TypedParts
<1> QED
  BY <1>1 DEF Text, TextType

\* What a delete() makes of a site's text, and posts.
LEMMA DeleteIs ==
  ASSUME Typed, NEW s \in Site, Delete(s)
  PROVE  \E op \in Deletion : \E gone \in SUBSET DOMAIN items[s] :
           /\ op.ids = {items[s][i].id : i \in gone}
           /\ items' = [items EXCEPT ![s] =
                [i \in DOMAIN @ |-> IF i \in gone THEN [@[i] EXCEPT !.deleted = TRUE] ELSE @[i]]]
           /\ outgoing' = [outgoing EXCEPT ![s] = Append(@, op)]
           /\ edits' = edits + 1 /\ edits + 1 <= MaxEdit
           /\ UNCHANGED <<seen_deletes, clock, session, chars>>
<1>1. PICK first \in Visible(items[s]), last \in Visible(items[s]) :
        LET gone == {i \in Visible(items[s]) : i \in first .. last}
        IN  /\ items' = [items EXCEPT ![s] =
                 [i \in DOMAIN @ |-> IF i \in gone THEN [@[i] EXCEPT !.deleted = TRUE] ELSE @[i]]]
            /\ outgoing' = [outgoing EXCEPT ![s] = Append(@,
                 [k |-> "d", ids |-> {items[s][i].id : i \in gone}])]
  BY DEF Delete
<1> DEFINE gone == {i \in Visible(items[s]) : i \in first .. last}
           op == [k |-> "d", ids |-> {items[s][i].id : i \in gone}]
<1>2. gone \in SUBSET DOMAIN items[s]
  BY DEF Visible
<1>3. \A i \in gone : items[s][i].id \in Id
  BY <1>2, TypedParts, Parts
<1>4. op \in Deletion /\ op.ids = {items[s][i].id : i \in gone}
  <2> DEFINE ids == {items[s][i].id : i \in gone}
  <2>1. ids \in SUBSET Id
    BY <1>3
  <2>2. op = [k |-> "d", ids |-> ids]
    OBVIOUS
  <2> HIDE DEF ids, op, gone
  <2>3. op \in Deletion /\ op.ids = ids
    BY <2>1, <2>2 DEF Deletion
  <2> QED
    BY <2>3 DEF ids
<1>5. edits + 1 <= MaxEdit
  <2>1. MaxEdit \in Nat /\ MaxEarly \in 0 .. MaxEdit /\ edits \in Nat
    BY EditAssumption, TypedParts
  <2>2. MaxEarly \in Nat /\ MaxEarly <= MaxEdit
    BY <2>1
  <2>3. edits < MaxEdit \/ edits < MaxEarly
    BY DEF Delete, Edits
  <2> QED
    BY <2>1, <2>2, <2>3
<1>6. /\ items' = [items EXCEPT ![s] =
           [i \in DOMAIN @ |-> IF i \in gone THEN [@[i] EXCEPT !.deleted = TRUE] ELSE @[i]]]
      /\ outgoing' = [outgoing EXCEPT ![s] = Append(@, op)]
  BY <1>1
<1>7. edits' = edits + 1 /\ UNCHANGED <<seen_deletes, clock, session, chars>>
  BY DEF Delete
<1> HIDE DEF gone, op
<1> QED
  BY <1>2, <1>4, <1>5, <1>6, <1>7

LEMMA MoreEdits ==
  ASSUME Typed, edits + 1 <= MaxEdit, NEW n \in 0 .. MaxRun
  PROVE  edits + 1 \in Nat /\ chars + n \in Nat /\ chars + n <= (edits + 1) * MaxRun
<1>1. MaxRun \in Nat /\ edits \in Nat /\ chars \in Nat /\ chars <= edits * MaxRun /\ MaxEdit \in Nat
  BY EditAssumption, TypedParts
<1>2. n \in Nat /\ n <= MaxRun
  BY <1>1
<1>3. (edits + 1) * MaxRun = edits * MaxRun + MaxRun /\ edits * MaxRun \in Nat
  BY <1>1, TimesGrows
<1> QED
  BY <1>1, <1>2, <1>3

LEMMA TypedInsert ==
  ASSUME Typed, NEW s \in Site, Insert(s)
  PROVE  Typed'
<1>1. PICK at, n, ts, op, run : Inserts(s, at, n, ts, op, run)
  BY InsertIs
<1>2. /\ at \in 0 .. Len(items[s]) /\ n \in 1 .. MaxRun /\ ts \in [1 .. n -> Nat]
      /\ op \in Insertion /\ run \in Seq(Character)
      /\ items' = [items EXCEPT ![s] = Spliced(items[s], at, run)]
      /\ clock' = [clock EXCEPT ![s] = ts[n]]
      /\ outgoing' = [outgoing EXCEPT ![s] = Append(outgoing[s], op)]
      /\ chars' = chars + n /\ edits' = edits + 1 /\ edits + 1 <= MaxEdit
      /\ UNCHANGED <<seen_deletes, session>>
  <2>1. items[s] = items[s] /\ s \in DOMAIN items /\ s \in DOMAIN outgoing
    BY TypedParts
  <2> QED
    BY <1>1, <2>1 DEF Inserts
<1>3. /\ UNCHANGED seen_deletes /\ UNCHANGED members /\ UNCHANGED snapshot
      /\ UNCHANGED log /\ UNCHANGED got
  BY <1>2 DEF session
<1>4. n \in 1 .. n /\ n \in 0 .. MaxRun
  BY <1>2, EditAssumption
<1>5. items' \in [Site -> Seq(Character)]
  <2>1. Spliced(items[s], at, run) \in Seq(Character)
    BY <1>2, TypedParts, SplicedAt
  <2> QED
    BY <1>2, <2>1, TypedParts
<1>6. clock' \in [Site -> Nat]
  BY <1>2, <1>4, TypedParts
<1>7. outgoing' \in [Site -> Seq(Operation)]
  <2>1. Append(outgoing[s], op) \in Seq(Operation)
    BY <1>2, TypedParts, OneMore DEF Operation
  <2> QED
    BY <1>2, <2>1, TypedParts
<1>8. edits' \in Nat /\ edits' <= MaxEdit /\ chars' \in Nat /\ chars' <= edits' * MaxRun
  BY <1>2, <1>4, MoreEdits
<1>9. /\ seen_deletes' \in [Site -> SUBSET Id] /\ members' \subseteq Site
      /\ snapshot' \in Seq(Seq(Character)) /\ Len(snapshot') <= 1
      /\ log' \in Seq([from : Site, ops : Seq(Operation)]) /\ got' \in [Site -> 0 .. Len(log')]
      /\ Host \in members' => snapshot' # <<>>
  BY <1>3, TypedParts
<1> QED
  BY <1>5, <1>6, <1>7, <1>8, <1>9, TypedNext

LEMMA TypedDelete ==
  ASSUME Typed, NEW s \in Site, Delete(s)
  PROVE  Typed'
<1>1. PICK op \in Deletion, gone \in SUBSET DOMAIN items[s] :
        /\ items' = [items EXCEPT ![s] =
             [i \in DOMAIN @ |-> IF i \in gone THEN [@[i] EXCEPT !.deleted = TRUE] ELSE @[i]]]
        /\ outgoing' = [outgoing EXCEPT ![s] = Append(@, op)]
        /\ edits' = edits + 1 /\ edits + 1 <= MaxEdit
        /\ UNCHANGED <<seen_deletes, clock, session, chars>>
  BY DeleteIs
<1>2. /\ UNCHANGED seen_deletes /\ UNCHANGED members /\ UNCHANGED snapshot
      /\ UNCHANGED log /\ UNCHANGED got /\ UNCHANGED clock /\ UNCHANGED chars
  BY <1>1 DEF session
<1>3. items' \in [Site -> Seq(Character)]
  <2> DEFINE its == items[s]
             new == [i \in DOMAIN its |->
                       IF i \in gone THEN [its[i] EXCEPT !.deleted = TRUE] ELSE its[i]]
  <2>1. its \in Seq(Character) /\ DOMAIN its = 1 .. Len(its) /\ Len(its) \in Nat
    BY TypedParts
  <2>2. ASSUME NEW i \in DOMAIN its
        PROVE  (IF i \in gone THEN [its[i] EXCEPT !.deleted = TRUE] ELSE its[i]) \in Character
    <3>1. its[i] \in Character
      BY <2>1
    <3> QED
      BY <3>1 DEF Character
  <2>3. new \in Seq(Character)
    <3> HIDE DEF its
    <3> QED
      BY <2>1, <2>2
  <2>4. items' = [items EXCEPT ![s] = new]
    BY <1>1, TypedParts
  <2> HIDE DEF new
  <2> QED
    BY <2>3, <2>4, TypedParts
<1>4. outgoing' \in [Site -> Seq(Operation)]
  <2>1. Append(outgoing[s], op) \in Seq(Operation)
    BY TypedParts, OneMore DEF Operation
  <2> QED
    BY <1>1, <2>1, TypedParts
<1>5. edits' \in Nat /\ edits' <= MaxEdit /\ chars' \in Nat /\ chars' <= edits' * MaxRun
  <2>1. 0 \in 0 .. MaxRun /\ chars \in Nat
    BY EditAssumption, TypedParts
  <2>2. edits + 1 \in Nat /\ chars + 0 <= (edits + 1) * MaxRun
    BY <1>1, <2>1, MoreEdits
  <2> QED
    BY <1>1, <1>2, <2>1, <2>2
<1>6. /\ seen_deletes' \in [Site -> SUBSET Id] /\ members' \subseteq Site
      /\ clock' \in [Site -> Nat]
      /\ snapshot' \in Seq(Seq(Character)) /\ Len(snapshot') <= 1
      /\ log' \in Seq([from : Site, ops : Seq(Operation)]) /\ got' \in [Site -> 0 .. Len(log')]
      /\ Host \in members' => snapshot' # <<>>
  BY <1>2, TypedParts
<1> QED
  BY <1>3, <1>4, <1>5, <1>6, TypedNext

LEMMA TypedShare ==
  ASSUME Typed, Share
  PROVE  Typed'
<1>1. /\ snapshot' = <<items[Host]>>
      /\ UNCHANGED items /\ UNCHANGED seen_deletes /\ UNCHANGED clock /\ UNCHANGED outgoing
      /\ UNCHANGED members /\ UNCHANGED log /\ UNCHANGED got
      /\ UNCHANGED edits /\ UNCHANGED chars
  BY DEF Share, replica, bounds
<1>2. items[Host] \in Seq(Character)
  BY TypedParts, SiteAssumption
<1>3. snapshot' \in Seq(Seq(Character)) /\ Len(snapshot') <= 1 /\ snapshot' # <<>>
  BY <1>1, <1>2
<1> QED
  BY <1>1, <1>3, TypedParts, TypedNext

LEMMA TypedAttach ==
  ASSUME Typed, Attach
  PROVE  Typed'
<1>1. /\ members' = members \cup {Host} /\ snapshot # <<>>
      /\ UNCHANGED items /\ UNCHANGED seen_deletes /\ UNCHANGED clock /\ UNCHANGED outgoing
      /\ UNCHANGED snapshot /\ UNCHANGED log /\ UNCHANGED got
      /\ UNCHANGED edits /\ UNCHANGED chars
  BY DEF Attach, replica, bounds
<1>2. members' \subseteq Site
  BY <1>1, TypedParts, SiteAssumption
<1> QED
  BY <1>1, <1>2, TypedParts, TypedNext

\* What the snapshot is to a site that joins.
LEMMA JoinIs ==
  ASSUME Typed, NEW s \in Site, Join(s)
  PROVE  LET shot == snapshot[1]
             now == clock[s]
             new == Observed(now, [i \in DOMAIN shot |-> shot[i].id])
         IN  /\ shot \in Seq(Character) /\ snapshot # <<>>
             /\ new \in Nat /\ now <= new /\ \A i \in DOMAIN shot : shot[i].id[1] <= new
             /\ items' = [items EXCEPT ![s] = shot]
             /\ clock' = [clock EXCEPT ![s] = new]
<1> DEFINE shot == snapshot[1]
           n == Len(shot)
           ids == [i \in DOMAIN shot |-> shot[i].id]
<1>1. /\ Host \in members /\ items' = [items EXCEPT ![s] = shot]
      /\ clock' = [clock EXCEPT ![s] = Observed(@, ids)]
  BY DEF Join
<1>2. snapshot # <<>> /\ shot \in Seq(Character)
  <2>1. snapshot \in Seq(Seq(Character)) /\ snapshot # <<>>
    BY <1>1, TypedParts
  <2>2. 1 \in 1 .. Len(snapshot)
    BY <2>1
  <2> QED
    BY <2>1, <2>2
<1>3. ids \in [1 .. n -> Id] /\ n \in Nat /\ DOMAIN shot = 1 .. n
  <2>1. n \in Nat /\ DOMAIN shot = 1 .. n
    BY <1>2
  <2>2. \A i \in DOMAIN shot : shot[i].id \in Id
    BY <1>2, Parts
  <2> HIDE DEF shot, n
  <2> QED
    BY <2>1, <2>2
<1>4. \A i \in 1 .. n : ids[i] = shot[i].id
  BY <1>3
<1>5. clock[s] \in Nat /\ clock' = [clock EXCEPT ![s] = Observed(clock[s], ids)]
  BY <1>1, TypedParts
<1> HIDE DEF ids, n, shot
<1>6. /\ Observed(clock[s], ids) \in Nat /\ clock[s] <= Observed(clock[s], ids)
      /\ \A i \in 1 .. n : shot[i].id[1] <= Observed(clock[s], ids)
  BY <1>3, <1>4, <1>5, ObservedIs
<1> QED
  BY <1>1, <1>2, <1>3, <1>5, <1>6 DEF ids, shot

LEMMA TypedJoin ==
  ASSUME Typed, NEW s \in Site, Join(s)
  PROVE  Typed'
<1>1. /\ members' = members \cup {s} /\ Host \in members
      /\ UNCHANGED seen_deletes /\ UNCHANGED outgoing
      /\ UNCHANGED snapshot /\ UNCHANGED log /\ UNCHANGED got
      /\ UNCHANGED edits /\ UNCHANGED chars
  BY DEF Join, bounds
<1>2. PICK shot \in Seq(Character), new \in Nat :
        items' = [items EXCEPT ![s] = shot] /\ clock' = [clock EXCEPT ![s] = new]
  BY JoinIs
<1>3. items' \in [Site -> Seq(Character)] /\ clock' \in [Site -> Nat] /\ members' \subseteq Site
  BY <1>1, <1>2, TypedParts
<1>4. snapshot' # <<>>
  BY <1>1, TypedParts
<1> QED
  BY <1>1, <1>3, <1>4, TypedParts, TypedNext

LEMMA LogAppend ==
  ASSUME Typed, NEW s \in Site
  PROVE  LET more == Append(log, [from |-> s, ops |-> outgoing[s]])
         IN  /\ more \in Seq([from : Site, ops : Seq(Operation)])
             /\ Len(more) = Len(log) + 1 /\ DOMAIN more = 1 .. Len(log) + 1
             /\ \A i \in DOMAIN log : more[i] = log[i]
             /\ more[Len(log) + 1] = [from |-> s, ops |-> outgoing[s]]
<1> DEFINE post == [from |-> s, ops |-> outgoing[s]]
<1>1. post \in [from : Site, ops : Seq(Operation)]
  BY TypedParts
<1>2. /\ log \in Seq([from : Site, ops : Seq(Operation)]) /\ Len(log) \in Nat
      /\ DOMAIN log = 1 .. Len(log)
  BY TypedParts
<1> HIDE DEF post
<1>3. /\ Append(log, post) \in Seq([from : Site, ops : Seq(Operation)])
      /\ Len(Append(log, post)) = Len(log) + 1
      /\ DOMAIN Append(log, post) = 1 .. Len(log) + 1
      /\ \A i \in 1 .. Len(log) : Append(log, post)[i] = log[i]
      /\ Append(log, post)[Len(log) + 1] = post
  BY <1>1, <1>2
<1> QED
  BY <1>2, <1>3 DEF post

LEMMA TypedFlush ==
  ASSUME Typed, NEW s \in Site, Flush(s)
  PROVE  Typed'
<1>1. /\ log' = Append(log, [from |-> s, ops |-> outgoing[s]])
      /\ outgoing' = [outgoing EXCEPT ![s] = <<>>]
      /\ UNCHANGED items /\ UNCHANGED seen_deletes /\ UNCHANGED clock
      /\ UNCHANGED members /\ UNCHANGED snapshot /\ UNCHANGED got
      /\ UNCHANGED edits /\ UNCHANGED chars
  BY DEF Flush, bounds
<1>2. log' \in Seq([from : Site, ops : Seq(Operation)]) /\ Len(log') = Len(log) + 1
  BY <1>1, LogAppend
<1>3. outgoing' \in [Site -> Seq(Operation)]
  BY <1>1, TypedParts
<1>4. got' \in [Site -> 0 .. Len(log')]
  <2>1. 0 .. Len(log) \subseteq 0 .. Len(log')
    BY <1>2, TypedParts
  <2> QED
    BY <1>1, <2>1, TypedParts
<1> QED
  BY <1>1, <1>2, <1>3, <1>4, TypedParts, TypedNext

\* A site merges operations, and its count of posts changes.
LEMMA TypedMerge ==
  ASSUME Typed, NEW s \in Site, NEW ops \in Seq(Operation), Apply(s, ops),
         NEW g \in 0 .. Len(log), got' = [got EXCEPT ![s] = g],
         UNCHANGED <<outgoing, members, snapshot, log, bounds>>
  PROVE  Typed'
<1> DEFINE text == Merged(Text(s), ops)
<1>1. text \in TextType
  BY TextIs, MergedType
<1>2. /\ items' = [items EXCEPT ![s] = text.items]
      /\ seen_deletes' = [seen_deletes EXCEPT ![s] = text.seen]
      /\ clock' = [clock EXCEPT ![s] = text.clock]
  BY DEF Apply
<1> HIDE DEF text
<1>3. text.items \in Seq(Character) /\ text.seen \in SUBSET Id /\ text.clock \in Nat
  BY <1>1 DEF TextType
<1>4. /\ items' \in [Site -> Seq(Character)] /\ seen_deletes' \in [Site -> SUBSET Id]
      /\ clock' \in [Site -> Nat] /\ got' \in [Site -> 0 .. Len(log)]
  BY <1>2, <1>3, TypedParts
<1> QED
  BY <1>4, TypedParts, TypedNext DEF bounds

LEMMA ReceiveIs ==
  ASSUME Typed, NEW s \in Site, Receive(s)
  PROVE  \E g \in DOMAIN log :
           /\ g > got[s] /\ log[g].from # s
           /\ \A i \in DOMAIN log : i > got[s] /\ i < g => log[i].from = s
           /\ got' = [got EXCEPT ![s] = g] /\ Apply(s, log[g].ops) /\ log[g].ops \in Seq(Operation)
           /\ g \in 0 .. Len(log)
<1> DEFINE g == Min(Coming(s))
<1>1. got[s] \in Nat /\ Len(log) \in Nat /\ DOMAIN log = 1 .. Len(log) /\ got \in [Site -> Nat]
  BY TypedParts
<1>2. Coming(s) \in SUBSET Nat /\ Coming(s) # {}
  BY <1>1 DEF Coming, Receive
<1>3. g \in Coming(s) /\ \A i \in Coming(s) : g <= i
  BY <1>2, MinOf
<1>4. got' = [got EXCEPT ![s] = g] /\ Apply(s, log[got'[s]].ops)
  BY DEF Receive
<1> HIDE DEF g
<1>5. got'[s] = g
  BY <1>1, <1>4
<1>6. g \in DOMAIN log /\ g > got[s] /\ log[g].from # s /\ g \in 0 .. Len(log)
  BY <1>1, <1>3 DEF Coming
<1>7. ASSUME NEW i \in DOMAIN log, i > got[s], i < g
      PROVE  log[i].from = s
  <2>1. i \in got[s] + 1 .. Len(log) /\ ~(g <= i)
    BY <1>1, <1>6, <1>7
  <2> QED
    BY <1>3, <2>1 DEF Coming
<1>8. log[g].ops \in Seq(Operation)
  BY <1>6, PostParts
<1> QED
  BY <1>4, <1>5, <1>6, <1>7, <1>8

LEMMA ResumeIs ==
  ASSUME Typed, NEW s \in Site, Resume(s)
  PROVE  \E g \in 0 .. Len(log) :
           /\ \A i \in DOMAIN log : i > g => log[i].from = s
           /\ got[s] <= g /\ got' = [got EXCEPT ![s] = g]
           /\ Apply(s, FlattenSeq([i \in DOMAIN log |-> log[i].ops]))
<1> DEFINE S == Coming(s) \cup {got[s]}
           g == Max(S)
<1>1. /\ got[s] \in Nat /\ got[s] <= Len(log) /\ Len(log) \in Nat /\ DOMAIN log = 1 .. Len(log)
      /\ got \in [Site -> Nat]
  <2>1. got[s] \in 0 .. Len(log) /\ Len(log) \in Nat /\ 0 .. Len(log) \subseteq Nat
    BY TypedParts
  <2> QED
    BY <2>1, TypedParts
<1>2. S \in SUBSET Nat /\ S # {} /\ \A i \in S : i <= Len(log)
  BY <1>1 DEF Coming
<1>3. g \in S /\ \A i \in S : i <= g
  BY <1>1, <1>2, MaxOf
<1>4. got' = [got EXCEPT ![s] = g] /\ Apply(s, FlattenSeq([i \in DOMAIN log |-> log[i].ops]))
  BY <1>1 DEF Resume
<1> HIDE DEF g
<1>5. g \in 0 .. Len(log) /\ got[s] <= g
  <2>1. g \in Nat /\ g <= Len(log) /\ got[s] \in S
    BY <1>2, <1>3
  <2> QED
    BY <1>1, <1>3, <2>1
<1>6. ASSUME NEW i \in DOMAIN log, i > g
      PROVE  log[i].from = s
  <2>1. i \in got[s] + 1 .. Len(log) /\ ~(i <= g)
    BY <1>1, <1>5, <1>6
  <2>2. i \notin Coming(s)
    BY <1>3, <2>1
  <2> QED
    BY <2>1, <2>2 DEF Coming
<1> QED
  BY <1>4, <1>5, <1>6

\* The posts, without who sent them.
Posts == [i \in DOMAIN log |-> log[i].ops]

LEMMA PostsAre ==
  ASSUME Typed
  PROVE  /\ Posts \in Seq(Seq(Operation)) /\ Len(Posts) = Len(log) /\ DOMAIN Posts = DOMAIN log
         /\ \A i \in DOMAIN log : Posts[i] = log[i].ops
<1>1. \A i \in DOMAIN log : log[i].ops \in Seq(Operation)
  BY PostParts
<1>2. DOMAIN log = 1 .. Len(log) /\ Len(log) \in Nat
  BY TypedParts
<1> QED
  BY <1>1, <1>2 DEF Posts

\* The initial text.
LEMMA InitialText ==
  ASSUME Init
  PROVE  /\ items \in [Site -> Seq(Character)]
         /\ Len(items[Host]) = Initial /\ DOMAIN items[Host] = 1 .. Initial
         /\ \A i \in 1 .. Initial :
              /\ items[Host][i].id = <<i, NoSite>> /\ items[Host][i].ch = -i
              /\ items[Host][i].deleted = FALSE
         /\ \A s \in Site : s # Host => items[s] = <<>>
<1> DEFINE its == [i \in 1 .. Initial |-> [id |-> <<i, NoSite>>, ch |-> -i, deleted |-> FALSE]]
<1>1. Initial \in Nat /\ Host \in Site
  BY EditAssumption, SiteAssumption
<1>2. ASSUME NEW i \in 1 .. Initial
      PROVE  [id |-> <<i, NoSite>>, ch |-> -i, deleted |-> FALSE] \in Character
  <2>1. i \in Nat /\ -i \in Int
    BY <1>1
  <2> QED
    BY <2>1 DEF Character, Id, Char
<1>3. its \in Seq(Character) /\ Len(its) = Initial /\ DOMAIN its = 1 .. Initial
  BY <1>1, <1>2
<1>4. items = [s \in Site |-> IF s # Host THEN <<>> ELSE its]
  BY DEF Init
<1>5. \A i \in 1 .. Initial :
        its[i].id = <<i, NoSite>> /\ its[i].ch = -i /\ its[i].deleted = FALSE
  OBVIOUS
<1> HIDE DEF its
<1>6. items[Host] = its /\ \A s \in Site : s # Host => items[s] = <<>>
  BY <1>1, <1>4
<1>7. items \in [Site -> Seq(Character)]
  BY <1>3, <1>4
<1> QED
  BY <1>3, <1>5, <1>6, <1>7

LEMMA TypedInit ==
  ASSUME Init
  PROVE  Typed
<1>1. /\ seen_deletes = [s \in Site |-> {}] /\ clock = [s \in Site |-> Initial]
      /\ outgoing = [s \in Site |-> <<>>] /\ members = {} /\ snapshot = <<>> /\ log = <<>>
      /\ got = [s \in Site |-> 0] /\ edits = 0 /\ chars = 0
  BY DEF Init
<1>2. MaxEdit \in Nat /\ MaxRun \in Nat /\ Initial \in Nat
  BY EditAssumption
<1>3. items \in [Site -> Seq(Character)]
  BY InitialText
<1>4. chars <= edits * MaxRun
  <2>1. 0 * MaxRun = 0
    BY <1>2
  <2> QED
    BY <1>1, <2>1
<1>5. edits \in 0 .. MaxEdit /\ chars \in 0 .. MaxEdit * MaxRun
  BY <1>1, <1>2, <1>4, CountsAre
<1>6. seen_deletes \in [Site -> SUBSET Id] /\ clock \in [Site -> Nat]
  BY <1>1, <1>2
<1>7. outgoing \in [Site -> Seq(Insertion \cup Deletion)]
  BY <1>1, NoneYet DEF Operation
<1>8. /\ snapshot \in Seq(Seq(Character)) /\ Len(snapshot) <= 1
      /\ log \in Seq([from : Site, ops : Seq(Insertion \cup Deletion)])
      /\ got \in [Site -> 0 .. Len(log)]
  BY <1>1
<1> QED
  BY <1>1, <1>3, <1>4, <1>5, <1>6, <1>7, <1>8 DEF Typed, TypeOK

LEMMA TypedReceive ==
  ASSUME Typed, NEW s \in Site, Receive(s)
  PROVE  Typed'
<1>1. PICK g \in DOMAIN log :
        /\ got' = [got EXCEPT ![s] = g] /\ Apply(s, log[g].ops) /\ log[g].ops \in Seq(Operation)
        /\ g \in 0 .. Len(log)
  BY ReceiveIs
<1>2. UNCHANGED <<outgoing, members, snapshot, log, bounds>>
  BY DEF Receive
<1> QED
  BY <1>1, <1>2, TypedMerge

LEMMA TypedResume ==
  ASSUME Typed, NEW s \in Site, Resume(s)
  PROVE  Typed'
<1>1. PICK g \in 0 .. Len(log) :
        got' = [got EXCEPT ![s] = g] /\ Apply(s, FlattenSeq([i \in DOMAIN log |-> log[i].ops]))
  BY ResumeIs
<1>2. UNCHANGED <<outgoing, members, snapshot, log, bounds>>
  BY DEF Resume
<1>3. FlattenSeq(Posts) \in Seq(Operation)
  BY PostsAre, FlattenType
<1> QED
  BY <1>1, <1>2, <1>3, TypedMerge DEF Posts

LEMMA TypedStep ==
  ASSUME Typed, [Next]_vars
  PROVE  Typed'
<1>1. ASSUME NEW s \in Site,
             Insert(s) \/ Delete(s) \/ Join(s) \/ Flush(s) \/ Receive(s) \/ Resume(s)
      PROVE  Typed'
  BY <1>1, TypedInsert, TypedDelete, TypedJoin, TypedFlush, TypedReceive, TypedResume
<1>2. CASE UNCHANGED vars
  <2>1. /\ UNCHANGED items /\ UNCHANGED seen_deletes /\ UNCHANGED clock /\ UNCHANGED outgoing
        /\ UNCHANGED members /\ UNCHANGED snapshot /\ UNCHANGED log /\ UNCHANGED got
        /\ UNCHANGED edits /\ UNCHANGED chars
    BY <1>2 DEF vars, replica, session, bounds
  <2> QED
    BY <2>1 DEF Typed, TypeOK
<1>3. CASE Next
  BY <1>1, <1>3, TypedShare, TypedAttach DEF Next
<1> QED
  BY <1>2, <1>3

\* The state of every site, the session and the posts keep their shape, however
\* the clocks advance.
THEOREM SharedTextTypeCorrect == Spec => []TypeOK
<1>1. Init => Typed
  BY TypedInit
<1>2. Typed /\ [Next]_vars => Typed'
  BY TypedStep
<1>3. Typed => TypeOK
  BY DEF Typed
<1> QED
  BY <1>1, <1>2, <1>3, PTL DEF Spec

-----------------------------------------------------------------------------
(* The inductive invariant, of a wall clock that stands still during a run. *)

\* All insertions: those posted and those yet to be.
Made == InsertedAll(Posts, Len(log)) \cup UNION {Insertions(outgoing[s]) : s \in Site}

\* The posts a site knows: those it received and its own.
Has(s) == {i \in DOMAIN log : i <= got[s] \/ log[i].from = s}
Posted(I) == UNION {Told(log[i].ops) : i \in I}

\* What every site starts from.
Seed == {<<<<i, NoSite>>, "in">> : i \in 1 .. Initial}
Shared == IF snapshot = <<>> THEN {} ELSE Facts(snapshot[1])
Base == Seed \cup Shared

\* No site's clock is behind what it made.
Later(op, now, last) == op.id[1] + Len(op.c) - 1 <= now /\ op.c[1] + Len(op.c) - 1 <= last
Clocks ==
  /\ \A op \in Made : Later(op, clock[op.id[2]], chars)
  /\ \A s \in Site : Initial <= clock[s]

\* Every text is one that the insertions can make, in the one order they have.
Fine(its, M) == Shape(its, Born(M)) /\ Whole(its, M)
Texts ==
  /\ \A s \in Site : Sound(Text(s), Made)
  /\ snapshot # <<>> => Fine(snapshot[1], Made)

InSession ==
  /\ Host \notin members => members = {} /\ log = <<>>
  /\ \A s \in Site : s \notin members \cup {Host} => items[s] = <<>> /\ outgoing[s] = <<>>
  /\ \A s \in Site : s \notin members => got[s] = 0
  /\ \A i \in DOMAIN log : log[i].from \in members
  /\ snapshot # <<>> => Facts(snapshot[1]) \subseteq Facts(items[Host])
                        /\ Seed \subseteq Facts(snapshot[1])

\* A site holds what it started from, the posts it knows and its own edits.
Informed ==
  \A s \in members \cup {Host} :
    Facts(items[s]) = (Base \cup Posted(Has(s))) \cup Told(outgoing[s])

\* What a post refers to is in an earlier one, or was there from the start.
Causal ==
  /\ \A i \in DOMAIN log : Follows(log[i].ops, Base \cup Posted(1 .. i - 1))
  /\ \A s \in Site : Follows(outgoing[s], Base \cup Posted(DOMAIN log))

SharedTextInv ==
  /\ Typed /\ WellMade(Made) /\ Clocks /\ Texts /\ InSession /\ Informed /\ Causal

-----------------------------------------------------------------------------
(* What it gives.                                                          *)

LEMMA TextsAre ==
  ASSUME Typed, Texts, NEW s \in Site
  PROVE  /\ items[s] \in Seq(Character) /\ Shape(items[s], Born(Made)) /\ Whole(items[s], Made)
         /\ seen_deletes[s] = {}
         /\ \A i \in DOMAIN items[s] : items[s][i].id[1] <= clock[s]
<1>1. Sound(Text(s), Made)
  BY DEF Texts
<1>2. /\ Text(s).items = items[s] /\ Text(s).seen = seen_deletes[s] /\ Text(s).clock = clock[s]
  BY TextIs
<1>3. items[s] \in Seq(Character)
  BY TypedParts
<1> QED
  BY <1>1, <1>2, <1>3 DEF Sound

LEMMA InvAgrees ==
  ASSUME SharedTextInv
  PROVE  CharactersAgree
<1>1. Typed /\ Texts /\ BirthsOK(Born(Made))
  BY BornOK DEF SharedTextInv
<1>2. \A s \in Site : items[s] \in Seq(Character) /\ Shape(items[s], Born(Made))
  BY <1>1, TextsAre
<1>3. ASSUME NEW s \in Site, NEW t \in Site, NEW i \in DOMAIN items[s], NEW j \in DOMAIN items[t]
      PROVE  items[s][i].ch = items[t][j].ch <=> items[s][i].id = items[t][j].id
  <2>1. PICK b \in Born(Made) : b.id = items[s][i].id /\ b.ch = items[s][i].ch
    BY <1>2 DEF Shape
  <2>2. PICK c \in Born(Made) : c.id = items[t][j].id /\ c.ch = items[t][j].ch
    BY <1>2 DEF Shape
  <2> QED
    BY <1>1, <2>1, <2>2 DEF BirthsOK
<1>4. NamesAgree
  BY <1>3 DEF NamesAgree
<1>5. ASSUME NEW s \in Site, NEW t \in Site, NEW i \in DOMAIN items[s], NEW j \in DOMAIN items[s],
             i < j, Before(t, items[s][j].ch, items[s][i].ch)
      PROVE  FALSE
  <2>1. PICK k \in DOMAIN items[t], l \in DOMAIN items[t] :
          k < l /\ items[t][k].ch = items[s][j].ch /\ items[t][l].ch = items[s][i].ch
    BY <1>5 DEF Before
  <2>2. items[s][i].id = items[t][l].id /\ items[s][j].id = items[t][k].id
    BY <1>3, <2>1
  <2>3. Reversed(items[s], items[t], i, j, k, l)
    BY <1>5, <2>1, <2>2 DEF Reversed
  <2> QED
    BY <1>1, <1>2, <2>3, OneOrder
<1>6. OrderAgrees
  BY <1>5 DEF OrderAgrees
<1> QED
  BY <1>4, <1>6 DEF CharactersAgree

LEMMA MarksAre ==
  ASSUME NEW S, NEW D, NEW T, NEW E, Marks(S, D) = Marks(T, E)
  PROVE  S = T /\ D = E
<1>1. \A id : id \in S <=> id \in T
  BY MarksIn
<1>2. \A id : id \in D <=> id \in E
  BY MarksIn
<1> QED
  BY <1>1, <1>2

LEMMA InvConverges ==
  ASSUME SharedTextInv
  PROVE  Converges
<1>1. Typed /\ Texts /\ Informed /\ BirthsOK(Born(Made))
  BY BornOK DEF SharedTextInv
<1>2. \A s \in Site : items[s] \in Seq(Character) /\ Shape(items[s], Born(Made))
  BY <1>1, TextsAre
<1> SUFFICES ASSUME Quiet, NEW s \in members, NEW t \in members
             PROVE  TextOf(s) = TextOf(t)
  BY DEF Converges
<1>3. s \in Site /\ t \in Site
  BY <1>1, TypedParts
<1>4. ASSUME NEW r \in members
      PROVE  Facts(items[r]) = Base \cup Posted(DOMAIN log)
  <2>1. r \in Site /\ got[r] \in Nat /\ Len(log) \in Nat /\ DOMAIN log = 1 .. Len(log)
    BY <1>1, TypedParts
  <2>2. Has(r) = DOMAIN log
    <3>1. ASSUME NEW i \in DOMAIN log
          PROVE  i <= got[r] \/ log[i].from = r
      <4>1. i \in got[r] + 1 .. Len(log) \/ i <= got[r]
        BY <2>1
      <4> QED
        BY <4>1 DEF Quiet, Coming
    <3> QED
      BY <3>1 DEF Has
  <2>3. Told(outgoing[r]) = {}
    BY NoneYet DEF Quiet
  <2>4. Facts(items[r]) = (Base \cup Posted(Has(r))) \cup Told(outgoing[r])
    BY <1>1 DEF Informed
  <2> QED
    BY <2>2, <2>3, <2>4
<1>5. Marks(Ids(items[s]), Dead(items[s])) = Marks(Ids(items[t]), Dead(items[t]))
  BY <1>4 DEF Facts
<1>6. Ids(items[s]) = Ids(items[t]) /\ Dead(items[s]) = Dead(items[t])
  BY <1>5, MarksAre
<1>7. /\ \A i \in DOMAIN items[s] : Knows(items[t], items[s][i].id)
      /\ \A i \in DOMAIN items[t] : Knows(items[s], items[t][i].id)
  <2>1. ASSUME NEW i \in DOMAIN items[s]
        PROVE  Knows(items[t], items[s][i].id)
    <3>1. items[s][i].id \in Ids(items[s])
      BY DEF Ids
    <3> QED
      BY <1>6, <3>1, KnowsIds
  <2>2. ASSUME NEW i \in DOMAIN items[t]
        PROVE  Knows(items[s], items[t][i].id)
    <3>1. items[t][i].id \in Ids(items[t])
      BY DEF Ids
    <3> QED
      BY <1>6, <3>1, KnowsIds
  <2> QED
    BY <2>1, <2>2
<1>8. ASSUME NEW r \in Site, NEW i \in DOMAIN items[r]
      PROVE  items[r][i].deleted = (items[r][i].id \in Dead(items[r]))
  <2>1. items[r][i].deleted \in BOOLEAN
    BY <1>2, Parts DEF Character
  <2>2. items[r][i].deleted => items[r][i].id \in Dead(items[r])
    BY DEF Dead
  <2>3. ASSUME items[r][i].id \in Dead(items[r])
        PROVE  items[r][i].deleted
    <3>1. PICK j \in DOMAIN items[r] : items[r][j].deleted /\ items[r][j].id = items[r][i].id
      BY <2>3 DEF Dead
    <3>2. i = j
      BY <1>2, <3>1 DEF Shape
    <3> QED
      BY <3>1, <3>2
  <2> QED
    BY <2>1, <2>2, <2>3
<1>9. \A i \in DOMAIN items[s], j \in DOMAIN items[t] :
        items[s][i].id = items[t][j].id => items[s][i].deleted = items[t][j].deleted
  BY <1>3, <1>6, <1>8
<1>10. items[s] = items[t]
  BY <1>1, <1>2, <1>3, <1>7, <1>9, SameText
<1> QED
  BY <1>10 DEF TextOf

-----------------------------------------------------------------------------
(* What the steps change of it.                                            *)

LEMMA MadeOf ==
  ASSUME Typed
  PROVE  /\ \A i \in DOMAIN log : Insertions(log[i].ops) \subseteq Made
         /\ \A s \in Site : Insertions(outgoing[s]) \subseteq Made
         /\ InsertedAll(Posts, Len(Posts)) \subseteq Made
<1>1. /\ Len(Posts) = Len(log) /\ DOMAIN log = 1 .. Len(log)
      /\ \A i \in DOMAIN log : Posts[i] = log[i].ops
  BY PostsAre, TypedParts
<1>2. ASSUME NEW i \in DOMAIN log
      PROVE  Insertions(log[i].ops) \subseteq Made
  <2>1. Insertions(Posts[i]) \subseteq InsertedAll(Posts, Len(log))
    BY <1>1 DEF InsertedAll
  <2> QED
    BY <1>1, <2>1 DEF Made
<1>3. \A s \in Site : Insertions(outgoing[s]) \subseteq Made
  BY DEF Made
<1>4. InsertedAll(Posts, Len(Posts)) \subseteq Made
  BY <1>1 DEF Made
<1> QED
  BY <1>2, <1>3, <1>4

LEMMA LaterOn ==
  ASSUME NEW op \in Insertion, NEW now \in Nat, NEW then \in Nat, now <= then,
         NEW last \in Nat, NEW end \in Nat, last <= end, Len(op.c) >= 1, Later(op, now, last)
  PROVE  Later(op, then, end)
<1>1. op.id[1] \in Nat /\ Len(op.c) \in Nat /\ op.c[1] \in Int
  BY InsertionParts, FirstName, NamesAre
<1> QED
  BY <1>1 DEF Later

LEMMA SameMade ==
  ASSUME UNCHANGED log, UNCHANGED outgoing
  PROVE  Made' = Made
BY DEF Made, Posts

LEMMA SamePosted ==
  ASSUME UNCHANGED log
  PROVE  \A I : Posted(I)' = Posted(I)
BY DEF Posted

LEMMA ReadyIn ==
  ASSUME NEW op, NEW its, Needs(op) \subseteq Ids(its)
  PROVE  Ready(op, Facts(its))
BY MarksIn DEF Ready, Facts

LEMMA SoundGrows ==
  ASSUME NEW M, NEW op \in Insertion, Len(op.c) >= 1, NEW text, Sound(text, M),
         \A k \in DOMAIN op.c : Name(op, k) \notin Ids(text.items)
  PROVE  Sound(text, M \cup {op})
BY TextGrows DEF Sound

\* An insertion later than those before.
Newer(op, M) ==
  /\ op \in Insertion /\ Len(op.c) >= 1
  /\ op.id[1] > Initial /\ op.after[1] < op.id[1] /\ op.c[1] >= 1
  /\ \A k \in DOMAIN op.c : op.c[k] = op.c[1] + k - 1
  /\ \A o \in M : /\ o.id[2] = op.id[2] => o.id[1] + Len(o.c) <= op.id[1]
                  /\ o.c[1] + Len(o.c) <= op.c[1]

LEMMA NotBehind ==
  ASSUME NEW a \in Int, NEW b \in Int, NEW n \in Int, NEW k \in Int, NEW m \in Int,
         a + n <= b, m <= n, 1 <= k, a + m - 1 = b + k - 1
  PROVE  FALSE
OBVIOUS

LEMMA NewerWellMade ==
  ASSUME NEW M, WellMade(M), NEW op, Newer(op, M)
  PROVE  WellMade(M \cup {op})
<1>1. /\ op \in Insertion /\ Len(op.c) >= 1 /\ Len(op.c) \in Nat /\ op.id[1] \in Nat
      /\ 1 \in DOMAIN op.c /\ op.c[1] \in Int
  BY InsertionParts, FirstName, NamesAre DEF Newer
<1>2. ASSUME NEW o \in M
      PROVE  /\ op.id[2] = o.id[2] => Apart(op.id[1], Len(op.c), o.id[1], Len(o.c))
                                      /\ Apart(o.id[1], Len(o.c), op.id[1], Len(op.c))
             /\ Apart(op.c[1], Len(op.c), o.c[1], Len(o.c))
             /\ Apart(o.c[1], Len(o.c), op.c[1], Len(op.c))
  BY DEF Newer, Apart
<1>3. \A o, p \in M : o # p =>
        /\ o.id[2] = p.id[2] => Apart(o.id[1], Len(o.c), p.id[1], Len(p.c))
        /\ Apart(o.c[1], Len(o.c), p.c[1], Len(p.c))
  BY DEF WellMade
<1>4. \A o, p \in M \cup {op} : o # p =>
        /\ o.id[2] = p.id[2] => Apart(o.id[1], Len(o.c), p.id[1], Len(p.c))
        /\ Apart(o.c[1], Len(o.c), p.c[1], Len(p.c))
  BY <1>2, <1>3
<1>5. \A o \in M \cup {op} :
        /\ o \in Insertion
        /\ Len(o.c) >= 1 /\ o.id[1] > Initial /\ o.after[1] < o.id[1]
        /\ o.c[1] >= 1 /\ \A k \in DOMAIN o.c : o.c[k] = o.c[1] + k - 1
  BY DEF WellMade, Newer
<1> QED
  BY <1>4, <1>5 DEF WellMade

LEMMA NewerNames ==
  ASSUME NEW M, WellMade(M), NEW op, Newer(op, M), NEW its, Shape(its, Born(M)),
         NEW k \in DOMAIN op.c
  PROVE  Name(op, k) \notin Ids(its)
<1> SUFFICES ASSUME Name(op, k) \in Ids(its)
             PROVE  FALSE
  OBVIOUS
<1>1. /\ op \in Insertion /\ op.id[1] \in Nat /\ op.id[2] # NoSite
      /\ k \in Nat /\ 1 <= k /\ Name(op, k)[1] = op.id[1] + k - 1 /\ Name(op, k)[2] = op.id[2]
  BY InsertionParts, NamesAre DEF Newer
<1>2. PICK i \in DOMAIN its : its[i].id = Name(op, k)
  BY DEF Ids
<1>3. PICK b \in Born(M) : b.id = Name(op, k)
  BY <1>2 DEF Shape
<1>4. ASSUME NEW i2 \in 1 .. Initial, b = SeedBirth(i2)
      PROVE  FALSE
  <2>1. b.id[2] = NoSite
    <3>1. b.id = <<i2, NoSite>>
      BY <1>4, SeedParts
    <3> QED
      BY <3>1
  <2> QED
    BY <1>1, <1>3, <2>1
<1>5. ASSUME NEW o \in M, NEW m \in DOMAIN o.c, b = Birth(o, m)
      PROVE  FALSE
  <2>1. /\ m \in Nat /\ m <= Len(o.c) /\ Len(o.c) \in Nat /\ o.id[1] \in Int
        /\ Name(o, m)[1] = o.id[1] + m - 1 /\ Name(o, m)[2] = o.id[2]
    BY MadeParts
  <2>2. b.id = Name(o, m)
    BY <1>5 DEF Birth
  <2>3. o.id[2] = op.id[2] /\ o.id[1] + m - 1 = op.id[1] + k - 1
    BY <1>1, <1>3, <2>1, <2>2
  <2>4. o.id[1] + Len(o.c) <= op.id[1]
    BY <2>3 DEF Newer
  <2> QED
    BY <1>1, <2>1, <2>3, <2>4, NotBehind
<1> QED
  BY <1>4, <1>5, BornOf

LEMMA InvInit ==
  ASSUME Init
  PROVE  SharedTextInv
<1>1. /\ seen_deletes = [s \in Site |-> {}] /\ clock = [s \in Site |-> Initial]
      /\ outgoing = [s \in Site |-> <<>>] /\ members = {} /\ snapshot = <<>> /\ log = <<>>
      /\ got = [s \in Site |-> 0] /\ edits = 0 /\ chars = 0
  BY DEF Init
<1>2. Typed /\ Initial \in Nat /\ Host \in Site
  BY TypedInit, EditAssumption, SiteAssumption
<1>3. /\ Len(items[Host]) = Initial /\ DOMAIN items[Host] = 1 .. Initial
      /\ \A i \in 1 .. Initial :
           /\ items[Host][i].id = <<i, NoSite>> /\ items[Host][i].ch = -i
           /\ items[Host][i].deleted = FALSE
      /\ \A s \in Site : s # Host => items[s] = <<>>
  BY InitialText
<1>4. Made = {}
  <2>1. Len(log) = 0 /\ InsertedAll(Posts, 0) = {}
    BY <1>1, AllMore
  <2>2. \A s \in Site : Insertions(outgoing[s]) = {}
    BY <1>1, NoneYet
  <2> QED
    BY <2>1, <2>2 DEF Made
<1>5. WellMade(Made)
  BY <1>4 DEF WellMade
<1>6. Clocks
  BY <1>1, <1>2, <1>4 DEF Clocks
<1>7. Texts
  <2>1. ASSUME NEW s \in Site, s # Host
        PROVE  Shape(items[s], Born(Made)) /\ \A i \in DOMAIN items[s] : FALSE
    <3>1. DOMAIN items[s] = {}
      BY <1>3, <2>1
    <3> QED
      BY <3>1 DEF Shape
  <2>2. Shape(items[Host], Born(Made))
    <3>1. ASSUME NEW i \in 1 .. Initial
          PROVE  \E b \in Born(Made) :
                   /\ b.id = items[Host][i].id /\ b.ch = items[Host][i].ch
                   /\ Behind(items[Host], i, b.par)
      <4>1. /\ SeedBirth(i).id = <<i, NoSite>> /\ SeedBirth(i).ch = -i
            /\ SeedBirth(i).par = <<i - 1, NoSite>> /\ i \in Nat /\ 1 <= i /\ i <= Initial
        BY SeedParts
      <4>2. SeedBirth(i) \in Born(Made)
        BY DEF Born
      <4>3. i - 1 \in 0 .. i - 1 /\ \A m \in (i - 1) + 1 .. i - 1 : FALSE
        BY <4>1
      <4>4. <<i - 1, NoSite>> = IF i - 1 = 0 THEN Start ELSE items[Host][i - 1].id
        <5>1. CASE i = 1
          BY <4>1, <5>1 DEF Start
        <5>2. CASE i # 1
          <6>1. i - 1 \in 1 .. Initial /\ i - 1 # 0
            BY <1>2, <4>1, <5>2
          <6> QED
            BY <1>3, <6>1
        <5> QED
          BY <5>1, <5>2
      <4>5. Behind(items[Host], i, SeedBirth(i).par)
        BY <4>1, <4>3, <4>4 DEF Behind
      <4> QED
        BY <1>3, <4>1, <4>2, <4>5
    <3>2. ASSUME NEW i \in 1 .. Initial, NEW j \in 1 .. Initial,
                 items[Host][i].id = items[Host][j].id
          PROVE  i = j
      BY <1>3, <3>2
    <3> QED
      BY <1>3, <3>1, <3>2 DEF Shape
  <2>3. ASSUME NEW s \in Site
        PROVE  Sound(Text(s), Made)
    <3>1. /\ Text(s) \in TextType /\ Text(s).items = items[s] /\ Text(s).seen = {}
          /\ Text(s).clock = Initial
      BY <1>1, <1>2, TextIs
    <3>2. Shape(items[s], Born(Made)) /\ Whole(items[s], Made)
      BY <1>4, <2>1, <2>2 DEF Whole
    <3>3. \A i \in DOMAIN items[s] : items[s][i].id[1] <= Initial
      <4>1. ASSUME NEW i \in 1 .. Initial
            PROVE  items[Host][i].id[1] <= Initial
        BY <1>2, <1>3
      <4> QED
        BY <1>3, <2>1, <4>1
    <3> QED
      BY <3>1, <3>2, <3>3 DEF Sound
  <2> QED
    BY <1>1, <2>3 DEF Texts
<1>8. InSession
  BY <1>1, <1>3 DEF InSession
<1>9. Informed
  <2>1. Ids(items[Host]) = {<<i, NoSite>> : i \in 1 .. Initial} /\ Dead(items[Host]) = {}
    BY <1>3 DEF Ids, Dead
  <2>2. Facts(items[Host]) = Seed
    BY <2>1 DEF Facts, Marks, Seed
  <2>3. Base = Seed /\ Posted(Has(Host)) = {} /\ Told(outgoing[Host]) = {}
    <3>1. Told(outgoing[Host]) = {}
      BY <1>1, <1>2, NoneYet
    <3>2. Has(Host) = {}
      BY <1>1 DEF Has
    <3> QED
      BY <1>1, <3>1, <3>2 DEF Base, Shared, Posted
  <2> QED
    BY <1>1, <2>2, <2>3 DEF Informed
<1>10. Causal
  BY <1>1, NoneYet DEF Causal
<1> QED
  BY <1>2, <1>5, <1>6, <1>7, <1>8, <1>9, <1>10 DEF SharedTextInv

-----------------------------------------------------------------------------
\* A site that merges operations which refer to nothing it does not hold.
LEMMA MergeKeeps ==
  ASSUME SharedTextInv, NEW s \in members, NEW ops \in Seq(Operation),
         Insertions(ops) \subseteq Made, Follows(ops, Facts(items[s])), Apply(s, ops),
         NEW g, got' = [got EXCEPT ![s] = g],
         Typed', UNCHANGED <<outgoing, members, snapshot, log, bounds>>,
         Posted(Has(s)) \cup Told(ops) = Posted({i \in DOMAIN log : i <= g \/ log[i].from = s})
  PROVE  SharedTextInv'
<1> DEFINE text == Merged(Text(s), ops)
<1>1. /\ Typed /\ WellMade(Made) /\ Clocks /\ Texts /\ InSession /\ Informed /\ Causal
      /\ s \in Site
  BY TypedParts DEF SharedTextInv
<1>2. /\ UNCHANGED outgoing /\ UNCHANGED members /\ UNCHANGED snapshot /\ UNCHANGED log
      /\ UNCHANGED chars
  BY DEF bounds
<1>3. Made' = Made
  BY <1>2, SameMade
<1>4. Sound(Text(s), Made) /\ Text(s).items = items[s] /\ Text(s).clock = clock[s]
      /\ Text(s) \in TextType
  BY <1>1, TextIs DEF Texts
<1>5. Sound(text, Made) /\ Facts(text.items) = Facts(items[s]) \cup Told(ops)
  BY <1>1, <1>4, MergedSound
<1>6. text \in TextType /\ clock[s] <= text.clock
  BY <1>4, MergedType
<1>7. /\ items' = [items EXCEPT ![s] = text.items]
      /\ seen_deletes' = [seen_deletes EXCEPT ![s] = text.seen]
      /\ clock' = [clock EXCEPT ![s] = text.clock]
  BY DEF Apply
<1> HIDE DEF text
<1>8. /\ items'[s] = text.items /\ seen_deletes'[s] = text.seen /\ clock'[s] = text.clock
      /\ got'[s] = g
      /\ \A t \in Site : t # s => /\ items'[t] = items[t] /\ seen_deletes'[t] = seen_deletes[t]
                                  /\ clock'[t] = clock[t] /\ got'[t] = got[t]
  <2>1. /\ s \in Site /\ DOMAIN items = Site /\ DOMAIN seen_deletes = Site
        /\ DOMAIN clock = Site /\ DOMAIN got = Site
    BY <1>1, TypedParts
  <2>2. /\ items'[s] = text.items /\ seen_deletes'[s] = text.seen /\ clock'[s] = text.clock
        /\ got'[s] = g
    BY <1>7, <2>1
  <2>3. \A t \in Site : t # s => /\ items'[t] = items[t] /\ seen_deletes'[t] = seen_deletes[t]
                                 /\ clock'[t] = clock[t] /\ got'[t] = got[t]
    BY <1>7, <2>1
  <2> QED
    BY <2>2, <2>3
<1>9. \A t \in Site : clock[t] <= clock'[t] /\ clock[t] \in Nat /\ clock'[t] \in Nat
  <2>1. text.clock \in Nat
    BY <1>6 DEF TextType
  <2>2. \A t \in Site : clock[t] \in Nat
    BY <1>1, TypedParts
  <2> QED
    BY <1>1, <1>6, <1>8, <2>1, <2>2
<1>10. Clocks'
  <2>1. ASSUME NEW op \in Made
        PROVE  Later(op, clock'[op.id[2]], chars)
    <3>1. op \in Insertion /\ Len(op.c) >= 1 /\ Later(op, clock[op.id[2]], chars)
      BY <1>1 DEF Clocks, WellMade
    <3>2. op.id[2] \in Site /\ chars \in Nat /\ chars <= chars
      BY <1>1, <3>1, InsertionParts, TypedParts
    <3>3. /\ clock[op.id[2]] \in Nat /\ clock'[op.id[2]] \in Nat
          /\ clock[op.id[2]] <= clock'[op.id[2]]
      BY <1>9, <3>2
    <3> QED
      BY <3>1, <3>2, <3>3, LaterOn
  <2>2. ASSUME NEW t \in Site
        PROVE  Initial <= clock'[t]
    BY <1>1, <1>9, EditAssumption DEF Clocks
  <2> QED
    BY <1>2, <1>3, <2>1, <2>2 DEF Clocks
<1>11. Texts'
  <2>1. ASSUME NEW t \in Site
        PROVE  Sound(Text(t)', Made)
    <3>1. Text(t)' = [items |-> items'[t], seen |-> seen_deletes'[t], clock |-> clock'[t]]
      BY DEF Text
    <3>2. CASE t = s
      <4>1. text = [items |-> text.items, seen |-> text.seen, clock |-> text.clock]
        BY <1>6 DEF TextType
      <4>2. Text(t)' = text
        BY <1>8, <3>1, <3>2, <4>1
      <4> QED
        BY <1>5, <4>2
    <3>3. CASE t # s
      <4>1. Text(t)' = Text(t)
        BY <1>8, <3>1, <3>3 DEF Text
      <4> QED
        BY <1>1, <4>1 DEF Texts
    <3> QED
      BY <3>2, <3>3
  <2>2. snapshot # <<>> => Fine(snapshot[1], Made)
    BY <1>1 DEF Texts
  <2> QED
    BY <1>2, <1>3, <2>1, <2>2 DEF Texts
<1>12. \A t \in Site : Facts(items[t]) \subseteq Facts(items'[t])
  BY <1>5, <1>8
<1>13. InSession'
  <2>1. /\ Host \notin members => members = {} /\ log = <<>>
        /\ \A i \in DOMAIN log : log[i].from \in members
    BY <1>1 DEF InSession
  <2>2. \A t \in Site : t \notin members \cup {Host} => items'[t] = <<>> /\ outgoing[t] = <<>>
    BY <1>1, <1>8 DEF InSession
  <2>3. \A t \in Site : t \notin members => got'[t] = 0
    BY <1>1, <1>8 DEF InSession
  <2>4. snapshot # <<>> => Facts(snapshot[1]) \subseteq Facts(items'[Host])
                           /\ Seed \subseteq Facts(snapshot[1])
    BY <1>1, <1>12, SiteAssumption DEF InSession
  <2> QED
    BY <1>2, <2>1, <2>2, <2>3, <2>4 DEF InSession, Seed
<1>14. Base' = Base /\ \A I : Posted(I)' = Posted(I)
  BY <1>2, SamePosted DEF Base, Shared, Seed
<1>15. Informed'
  <2>1. ASSUME NEW t \in members \cup {Host}
        PROVE  Facts(items'[t]) = (Base \cup Posted(Has(t)')) \cup Told(outgoing[t])
    <3>1. t \in Site /\ Facts(items[t]) = (Base \cup Posted(Has(t))) \cup Told(outgoing[t])
      BY <1>1, TypedParts, SiteAssumption DEF Informed
    <3>2. CASE t = s
      <4>1. Has(t)' = {i \in DOMAIN log : i <= g \/ log[i].from = s}
        BY <1>2, <1>8, <3>2 DEF Has
      <4> QED
        BY <1>5, <1>8, <3>1, <3>2, <4>1
    <3>3. CASE t # s
      <4>1. Has(t)' = Has(t)
        BY <1>2, <1>8, <3>1, <3>3 DEF Has
      <4> QED
        BY <1>8, <3>1, <3>3, <4>1
    <3> QED
      BY <3>2, <3>3
  <2>2. \A t \in members \cup {Host} : Posted(Has(t))' = Posted(Has(t)')
    BY <1>2 DEF Posted
  <2> QED
    BY <1>2, <1>14, <2>1, <2>2 DEF Informed
<1>16. Causal'
  BY <1>1, <1>2, <1>14 DEF Causal
<1> QED
  BY <1>1, <1>3, <1>10, <1>11, <1>13, <1>15, <1>16 DEF SharedTextInv

LEMMA InvParts ==
  ASSUME SharedTextInv
  PROVE  /\ Typed /\ WellMade(Made) /\ Clocks /\ Texts /\ InSession /\ Informed /\ Causal
         /\ members \subseteq Site /\ Host \in Site
BY TypedParts, SiteAssumption DEF SharedTextInv

LEMMA InvReceive ==
  ASSUME SharedTextInv, NEW s \in Site, Receive(s)
  PROVE  SharedTextInv'
<1>1. /\ Typed /\ Informed /\ Causal /\ s \in members
      /\ UNCHANGED <<outgoing, members, snapshot, log, bounds>>
  BY InvParts DEF Receive
<1>2. PICK g \in DOMAIN log :
        /\ g > got[s] /\ \A i \in DOMAIN log : i > got[s] /\ i < g => log[i].from = s
        /\ got' = [got EXCEPT ![s] = g] /\ Apply(s, log[g].ops) /\ log[g].ops \in Seq(Operation)
  BY <1>1, ReceiveIs
<1> DEFINE ops == log[g].ops
<1>3. got[s] \in Nat /\ g \in Nat /\ DOMAIN log = 1 .. Len(log) /\ Len(log) \in Nat
  <2>1. got[s] \in 0 .. Len(log) /\ Len(log) \in Nat /\ DOMAIN log = 1 .. Len(log)
    BY <1>1, TypedParts
  <2> QED
    BY <2>1
<1>4. Insertions(ops) \subseteq Made
  BY <1>1, MadeOf
<1>5. \A i \in 1 .. g - 1 : i \in Has(s)
  <2>1. ASSUME NEW i \in 1 .. g - 1
        PROVE  i \in Has(s)
    <3>1. i \in DOMAIN log /\ i < g /\ i \in Nat
      BY <1>3
    <3>2. i <= got[s] \/ log[i].from = s
      BY <1>2, <1>3, <3>1
    <3> QED
      BY <3>1, <3>2 DEF Has
  <2> QED
    BY <2>1
<1>6. Facts(items[s]) = (Base \cup Posted(Has(s))) \cup Told(outgoing[s])
  BY <1>1 DEF Informed
<1>7. Posted(1 .. g - 1) \subseteq Posted(Has(s))
  BY <1>5 DEF Posted
<1>8. Follows(ops, Facts(items[s]))
  <2>1. Follows(ops, Base \cup Posted(1 .. g - 1))
    BY <1>1 DEF Causal
  <2>2. Base \cup Posted(1 .. g - 1) \subseteq Facts(items[s])
    BY <1>6, <1>7
  <2> QED
    BY <2>1, <2>2, FollowsGrows
<1>9. {i \in DOMAIN log : i <= g \/ log[i].from = s} = Has(s) \cup {g}
  <2>1. ASSUME NEW i \in DOMAIN log, i <= g
        PROVE  i \in Has(s) \cup {g}
    <3>1. i = g \/ i \in 1 .. g - 1
      BY <1>3, <2>1
    <3> QED
      BY <1>5, <3>1
  <2>2. ASSUME NEW i \in DOMAIN log, i <= got[s]
        PROVE  i <= g
    BY <1>2, <1>3, <2>2
  <2>3. g <= g
    BY <1>3
  <2> QED
    BY <2>1, <2>2, <2>3 DEF Has
<1>10. Posted(Has(s) \cup {g}) = Posted(Has(s)) \cup Told(ops)
  BY DEF Posted
<1>11. Typed'
  BY <1>1, TypedReceive
<1> HIDE DEF ops
<1>12. Apply(s, ops) /\ ops \in Seq(Operation)
  BY <1>2 DEF ops
<1> QED
  BY <1>1, <1>2, <1>4, <1>8, <1>9, <1>10, <1>11, <1>12, MergeKeeps

LEMMA InvResume ==
  ASSUME SharedTextInv, NEW s \in Site, Resume(s)
  PROVE  SharedTextInv'
<1>1. /\ Typed /\ Informed /\ Causal /\ s \in members
      /\ UNCHANGED <<outgoing, members, snapshot, log, bounds>>
  BY InvParts DEF Resume
<1>2. PICK g \in 0 .. Len(log) :
        /\ \A i \in DOMAIN log : i > g => log[i].from = s
        /\ got[s] <= g /\ got' = [got EXCEPT ![s] = g]
        /\ Apply(s, FlattenSeq([i \in DOMAIN log |-> log[i].ops]))
  BY <1>1, ResumeIs
<1> DEFINE ops == FlattenSeq(Posts)
<1>3. /\ DOMAIN log = 1 .. Len(log) /\ Len(log) \in Nat /\ g \in Nat
      /\ Posts \in Seq(Seq(Operation)) /\ Len(Posts) = Len(log) /\ DOMAIN Posts = DOMAIN log
      /\ \A i \in DOMAIN log : Posts[i] = log[i].ops
  BY <1>1, TypedParts, PostsAre
<1>4. \A n \in 0 .. Len(log) : ToldAll(Posts, n) = Posted(1 .. n)
  <2>1. \A n \in 0 .. Len(log) : 1 .. n \subseteq DOMAIN log
    <3> HIDE DEF ops
    <3> QED
      BY <1>3
  <2>2. \A n \in 0 .. Len(log) : \A i \in 1 .. n : Posts[i] = log[i].ops
    <3> HIDE DEF ops
    <3> QED
      BY <1>3, <2>1
  <2> QED
    BY <2>2 DEF ToldAll, Posted
<1>5. Facts(items[s]) = (Base \cup Posted(Has(s))) \cup Told(outgoing[s])
  BY <1>1 DEF Informed
<1>6. FollowAll(Posts, Facts(items[s]))
  <2>1. ASSUME NEW i \in DOMAIN Posts
        PROVE  Follows(Posts[i], Facts(items[s]) \cup ToldAll(Posts, i - 1))
    <3>1. Follows(Posts[i], Base \cup Posted(1 .. i - 1))
      BY <1>1, <1>3 DEF Causal
    <3>2. i - 1 \in 0 .. Len(log)
      BY <1>3
    <3>3. Base \cup Posted(1 .. i - 1) \subseteq Facts(items[s]) \cup ToldAll(Posts, i - 1)
      BY <1>4, <1>5, <3>2
    <3> QED
      BY <3>1, <3>3, FollowsGrows
  <2> QED
    BY <2>1 DEF FollowAll
<1>7. /\ ops \in Seq(Operation) /\ Told(ops) = ToldAll(Posts, Len(Posts))
      /\ Insertions(ops) = InsertedAll(Posts, Len(Posts)) /\ Follows(ops, Facts(items[s]))
  BY <1>3, <1>6, Flattened
<1>8. Told(ops) = Posted(DOMAIN log)
  <2>1. Len(log) \in 0 .. Len(log)
    BY <1>3
  <2> QED
    BY <1>3, <1>4, <1>7, <2>1
<1>9. {i \in DOMAIN log : i <= g \/ log[i].from = s} = DOMAIN log
  <2>1. \A i \in DOMAIN log : i > g \/ i <= g
    BY <1>3
  <2> QED
    BY <1>2, <2>1
<1>10. Posted(Has(s)) \cup Posted(DOMAIN log) = Posted(DOMAIN log)
  BY DEF Posted, Has
<1>11. Insertions(ops) \subseteq Made
  BY <1>1, <1>7, MadeOf
<1>12. Typed' /\ Apply(s, ops)
  BY <1>1, <1>2, TypedResume DEF Posts
<1> HIDE DEF ops
<1> QED
  BY <1>1, <1>2, <1>7, <1>8, <1>9, <1>10, <1>11, <1>12, MergeKeeps

-----------------------------------------------------------------------------
\* Steps that change no text.
LEMMA SameTexts ==
  ASSUME UNCHANGED items, UNCHANGED seen_deletes, UNCHANGED clock, Made' = Made
  PROVE  /\ \A s \in Site : Text(s)' = Text(s)
         /\ Texts /\ (snapshot' # <<>> => Fine(snapshot'[1], Made)) => Texts'
         /\ UNCHANGED chars /\ Clocks => Clocks'
<1>1. \A s \in Site : Text(s)' = Text(s)
  BY DEF Text
<1>2. ASSUME Texts, snapshot' # <<>> => Fine(snapshot'[1], Made)
      PROVE  Texts'
  <2>1. \A s \in Site : Sound(Text(s)', Made')
    BY <1>1, <1>2 DEF Texts
  <2> QED
    BY <1>2, <2>1 DEF Texts
<1>3. UNCHANGED chars /\ Clocks => Clocks'
  BY DEF Clocks
<1> QED
  BY <1>1, <1>2, <1>3

LEMMA InvShare ==
  ASSUME SharedTextInv, Share
  PROVE  SharedTextInv'
<1>1. Typed /\ WellMade(Made) /\ Clocks /\ Texts /\ InSession /\ Informed /\ Causal /\ Host \in Site
  BY InvParts
<1>2. /\ snapshot = <<>> /\ snapshot' = <<items[Host]>>
      /\ UNCHANGED items /\ UNCHANGED seen_deletes /\ UNCHANGED clock /\ UNCHANGED outgoing
      /\ UNCHANGED members /\ UNCHANGED log /\ UNCHANGED got /\ UNCHANGED chars
  BY DEF Share, replica, bounds
<1>3. members = {} /\ log = <<>>
  BY <1>1, <1>2, TypedParts DEF InSession
<1>4. Made' = Made
  BY <1>2, SameMade
<1>5. snapshot' # <<>> /\ snapshot'[1] = items[Host]
  BY <1>2
<1>6. Base = Seed /\ Posted(Has(Host)) = {}
  <2>1. Has(Host) = {}
    BY <1>3 DEF Has
  <2> QED
    BY <1>2, <2>1 DEF Base, Shared, Posted
<1>7. Facts(items[Host]) = Seed \cup Told(outgoing[Host])
  BY <1>1, <1>6 DEF Informed
<1>8. Base' = Facts(items[Host]) /\ Seed' = Seed
  BY <1>5, <1>7 DEF Base, Shared, Seed
<1>9. Texts' /\ Clocks'
  <2>1. Fine(items[Host], Made)
    BY <1>1, TextsAre DEF Fine
  <2> QED
    BY <1>1, <1>2, <1>4, <1>5, <2>1, SameTexts
<1>10. InSession'
  <2>1. /\ \A s \in Site : s \notin members \cup {Host} => items[s] = <<>> /\ outgoing[s] = <<>>
        /\ \A s \in Site : s \notin members => got[s] = 0
        /\ \A i \in DOMAIN log : log[i].from \in members
    BY <1>1 DEF InSession
  <2>2. Facts(snapshot'[1]) \subseteq Facts(items[Host]) /\ Seed \subseteq Facts(snapshot'[1])
    BY <1>5, <1>7
  <2> QED
    BY <1>2, <1>3, <1>8, <2>1, <2>2 DEF InSession
<1>11. Informed'
  <2>1. Posted(Has(Host))' = {}
    BY <1>2, <1>3 DEF Posted, Has
  <2>2. members' \cup {Host} = {Host}
    BY <1>2, <1>3
  <2>3. Facts(items[Host]) = (Facts(items[Host]) \cup {}) \cup Told(outgoing[Host])
    BY <1>7
  <2> QED
    BY <1>2, <1>8, <2>1, <2>2, <2>3 DEF Informed
<1>12. Causal'
  <2>1. Base \subseteq Base' /\ Posted(DOMAIN log)' = Posted(DOMAIN log)
    BY <1>2, <1>6, <1>7, <1>8 DEF Posted
  <2>2. \A s \in Site : Follows(outgoing[s], Base' \cup Posted(DOMAIN log)')
    <3>1. Base \cup Posted(DOMAIN log) \subseteq Base' \cup Posted(DOMAIN log)'
      BY <2>1
    <3> QED
      BY <1>1, <3>1, FollowsGrows DEF Causal
  <2>3. \A i \in DOMAIN log : FALSE
    BY <1>3
  <2> QED
    BY <1>2, <2>2, <2>3 DEF Causal
<1>13. Typed'
  BY <1>1, TypedShare
<1> QED
  BY <1>1, <1>4, <1>9, <1>10, <1>11, <1>12, <1>13 DEF SharedTextInv

LEMMA InvAttach ==
  ASSUME SharedTextInv, Attach
  PROVE  SharedTextInv'
<1>1. Typed /\ WellMade(Made) /\ Clocks /\ Texts /\ InSession /\ Informed /\ Causal /\ Host \in Site
  BY InvParts
<1>2. /\ members' = members \cup {Host} /\ Host \notin members /\ snapshot # <<>>
      /\ UNCHANGED items /\ UNCHANGED seen_deletes /\ UNCHANGED clock /\ UNCHANGED outgoing
      /\ UNCHANGED snapshot /\ UNCHANGED log /\ UNCHANGED got /\ UNCHANGED chars
  BY DEF Attach, replica, bounds
<1>3. Made' = Made
  BY <1>2, SameMade
<1>4. Texts' /\ Clocks'
  <2>1. snapshot' # <<>> => Fine(snapshot'[1], Made)
    BY <1>1, <1>2 DEF Texts
  <2> QED
    BY <1>1, <1>2, <1>3, <2>1, SameTexts
<1>5. InSession'
  BY <1>1, <1>2 DEF InSession, Seed
<1>6. Base' = Base /\ \A I : Posted(I)' = Posted(I)
  BY <1>2, SamePosted DEF Base, Shared, Seed
<1>7. Informed'
  <2>1. members' \cup {Host} = members \cup {Host}
    BY <1>2
  <2>2. \A s : Has(s)' = Has(s)
    BY <1>2 DEF Has
  <2>3. \A s : Posted(Has(s))' = Posted(Has(s))
    BY <1>2, <2>2 DEF Posted
  <2> QED
    BY <1>1, <1>2, <1>6, <2>1, <2>3 DEF Informed
<1>8. Causal'
  BY <1>1, <1>2, <1>6 DEF Causal
<1>9. Typed'
  BY <1>1, TypedAttach
<1> QED
  BY <1>1, <1>3, <1>4, <1>5, <1>7, <1>8, <1>9 DEF SharedTextInv

-----------------------------------------------------------------------------
(* Local edits.                                                            *)

LEMMA MadeMore ==
  ASSUME Typed, NEW s \in Site, NEW op \in Operation, UNCHANGED log,
         outgoing' = [outgoing EXCEPT ![s] = Append(@, op)]
  PROVE  /\ Made' = Made \cup {o \in {op} : o.k = "i"}
         /\ outgoing'[s] = Append(outgoing[s], op)
         /\ \A t \in Site : t # s => outgoing'[t] = outgoing[t]
<1>1. /\ DOMAIN outgoing = Site /\ outgoing[s] \in Seq(Operation)
  BY TypedParts
<1>2. outgoing'[s] = Append(outgoing[s], op) /\ \A t \in Site : t # s => outgoing'[t] = outgoing[t]
  BY <1>1
<1>3. Insertions(outgoing'[s]) = Insertions(outgoing[s]) \cup {o \in {op} : o.k = "i"}
  BY <1>1, <1>2, OneMore
<1> DEFINE New == {o \in {op} : o.k = "i"}
           Old == UNION {Insertions(outgoing[t]) : t \in Site}
           Now == UNION {Insertions(outgoing'[t]) : t \in Site}
           Kept == InsertedAll(Posts, Len(log))
<1>4. Now = Old \cup New
  <2>1. \A t \in Site : t # s => Insertions(outgoing'[t]) = Insertions(outgoing[t])
    BY <1>2
  <2> HIDE DEF New
  <2>2. \A x : x \in Now <=> x \in Insertions(outgoing'[s])
                             \/ \E t \in Site : t # s /\ x \in Insertions(outgoing'[t])
    OBVIOUS
  <2>3. \A x : x \in Old <=> x \in Insertions(outgoing[s])
                             \/ \E t \in Site : t # s /\ x \in Insertions(outgoing[t])
    OBVIOUS
  <2>4. \A x : x \in Insertions(outgoing'[s]) <=> x \in Insertions(outgoing[s]) \/ x \in New
    BY <1>3 DEF New
  <2> HIDE DEF Now, Old
  <2>5. \A x : x \in Now <=> x \in Old \/ x \in New
    BY <2>1, <2>2, <2>3, <2>4
  <2> QED
    BY <2>5
<1>5. Kept' = Kept
  BY DEF Posts, InsertedAll
<1>6. Made' = Kept' \cup Now /\ Made = Kept \cup Old
  BY DEF Made
<1>7. Made' = Made \cup New
  <2> HIDE DEF Kept, Now, Old, New
  <2> QED
    BY <1>4, <1>5, <1>6
<1> QED
  BY <1>2, <1>7

\* A site that does what it will tell the others, of characters it holds.
LEMMA EditKeeps ==
  ASSUME SharedTextInv, NEW s \in members \cup {Host}, NEW op \in Operation,
         outgoing' = [outgoing EXCEPT ![s] = Append(@, op)],
         UNCHANGED members, UNCHANGED snapshot, UNCHANGED log, UNCHANGED got,
         Needs(op) \subseteq Ids(items[s]),
         Facts(items'[s]) = Facts(items[s]) \cup Tells(op),
         \A t \in Site : t # s => items'[t] = items[t],
         Typed', WellMade(Made'), Clocks', \A t \in Site : Sound(Text(t)', Made'),
         snapshot # <<>> => Fine(snapshot[1], Made')
  PROVE  SharedTextInv'
<1>1. /\ Typed /\ InSession /\ Informed /\ Causal /\ members \subseteq Site /\ Host \in Site
      /\ s \in Site
  BY InvParts
<1>2. /\ outgoing'[s] = Append(outgoing[s], op)
      /\ \A t \in Site : t # s => outgoing'[t] = outgoing[t]
  BY <1>1, MadeMore
<1>3. /\ Told(outgoing'[s]) = Told(outgoing[s]) \cup Tells(op)
      /\ \A facts : Follows(outgoing[s], facts) /\ Ready(op, facts \cup Told(outgoing[s]))
                      => Follows(outgoing'[s], facts)
  BY <1>1, <1>2, TypedParts, OneMore
<1>4. Texts'
  BY DEF Texts
<1>5. \A t \in Site : Facts(items[t]) \subseteq Facts(items'[t])
  <2>1. \A t \in Site : t # s => Facts(items[t]) \subseteq Facts(items'[t])
    OBVIOUS
  <2> QED
    BY <2>1
<1>6. InSession'
  <2>1. \A t \in Site : t \notin members \cup {Host} => items'[t] = <<>> /\ outgoing'[t] = <<>>
    <3>1. \A t \in Site : t \notin members \cup {Host} => t # s
      OBVIOUS
    <3> QED
      BY <1>1, <1>2, <3>1 DEF InSession
  <2>2. snapshot # <<>> => Facts(snapshot[1]) \subseteq Facts(items'[Host])
                           /\ Seed \subseteq Facts(snapshot[1])
    BY <1>1, <1>5 DEF InSession
  <2> QED
    BY <1>1, <2>1, <2>2 DEF InSession, Seed
<1>7. Base' = Base /\ \A I : Posted(I)' = Posted(I)
  BY SamePosted DEF Base, Shared, Seed
<1>8. Informed'
  <2>1. ASSUME NEW t \in members \cup {Host}
        PROVE  Facts(items'[t]) = (Base \cup Posted(Has(t))) \cup Told(outgoing'[t])
    <3>1. t \in Site /\ Facts(items[t]) = (Base \cup Posted(Has(t))) \cup Told(outgoing[t])
      BY <1>1 DEF Informed
    <3>2. CASE t = s
      BY <1>3, <3>1, <3>2
    <3>3. CASE t # s
      BY <1>2, <3>1, <3>3
    <3> QED
      BY <3>2, <3>3
  <2>2. \A t : Posted(Has(t))' = Posted(Has(t))
    BY DEF Posted, Has
  <2> QED
    BY <1>7, <2>1, <2>2 DEF Informed
<1>9. Causal'
  <2>1. Follows(outgoing'[s], Base \cup Posted(DOMAIN log))
    <3>1. Facts(items[s]) = (Base \cup Posted(Has(s))) \cup Told(outgoing[s])
      BY <1>1 DEF Informed
    <3>2. Posted(Has(s)) \subseteq Posted(DOMAIN log)
      BY DEF Posted, Has
    <3>3. Facts(items[s]) \subseteq (Base \cup Posted(DOMAIN log)) \cup Told(outgoing[s])
      BY <3>1, <3>2
    <3>4. Ready(op, (Base \cup Posted(DOMAIN log)) \cup Told(outgoing[s]))
      BY <3>3, ReadyIn, ReadyGrows
    <3>5. Follows(outgoing[s], Base \cup Posted(DOMAIN log))
      BY <1>1 DEF Causal
    <3> QED
      BY <1>3, <3>4, <3>5
  <2>2. \A t \in Site : Follows(outgoing'[t], Base \cup Posted(DOMAIN log))
    BY <1>1, <1>2, <2>1 DEF Causal
  <2> QED
    BY <1>1, <1>7, <2>2 DEF Causal
<1> QED
  BY <1>4, <1>6, <1>8, <1>9 DEF SharedTextInv

\* Of two characters with one name, both are deleted: there are no two.
LEMMA InvDelete ==
  ASSUME SharedTextInv, NEW s \in Site, Delete(s)
  PROVE  SharedTextInv'
<1>1. Typed /\ WellMade(Made) /\ Clocks /\ Texts /\ Host \in Site /\ Typed'
  BY InvParts, TypedDelete
<1>2. PICK op \in Deletion, gone \in SUBSET DOMAIN items[s] :
        /\ op.ids = {items[s][i].id : i \in gone}
        /\ items' = [items EXCEPT ![s] =
             [i \in DOMAIN @ |-> IF i \in gone THEN [@[i] EXCEPT !.deleted = TRUE] ELSE @[i]]]
        /\ outgoing' = [outgoing EXCEPT ![s] = Append(@, op)]
        /\ UNCHANGED <<seen_deletes, clock, session, chars>>
  BY <1>1, DeleteIs
<1>3. /\ UNCHANGED seen_deletes /\ UNCHANGED clock /\ UNCHANGED chars /\ UNCHANGED members
      /\ UNCHANGED snapshot /\ UNCHANGED log /\ UNCHANGED got
  BY <1>2 DEF session
<1>4. s \in members \cup {Host}
  BY DEF Delete, Edits
<1>5. op \in Operation /\ op.k # "i"
  BY DEF Operation, Deletion
<1>6. Made' = Made
  <2>1. {o \in {op} : o.k = "i"} = {}
    BY <1>5
  <2>2. Made' = Made \cup {o \in {op} : o.k = "i"}
    BY <1>1, <1>2, <1>3, <1>5, MadeMore
  <2> QED
    BY <2>1, <2>2
<1> DEFINE text == Text(s)
           new == Deleted(text, op)
           its == items[s]
<1>7. /\ text \in TextType /\ text.items = its /\ text.seen = seen_deletes[s] /\ text.clock = clock[s]
      /\ Sound(text, Made)
  BY <1>1, TextIs DEF Texts
<1>8. Needs(op) \subseteq Ids(its)
  BY <1>2, <1>5 DEF Needs, Ids
<1>9. Sound(new, Made) /\ Facts(new.items) = Facts(its) \cup Tells(op)
  <2>1. Ready(op, Facts(text.items))
    BY <1>7, <1>8, ReadyIn
  <2> HIDE DEF text, its
  <2> QED
    BY <1>7, <2>1, DeletedSound
<1>10. items'[s] = new.items /\ \A t \in Site : t # s => items'[t] = items[t]
  <2> DEFINE marked == [i \in DOMAIN its |->
                          IF i \in gone THEN [its[i] EXCEPT !.deleted = TRUE] ELSE its[i]]
  <2>1. DOMAIN items = Site
    BY <1>1, TypedParts
  <2>2. items'[s] = marked /\ \A t \in Site : t # s => items'[t] = items[t]
    BY <1>2, <2>1
  <2>3. ASSUME NEW i \in DOMAIN its
        PROVE  i \in gone <=> its[i].id \in op.ids
    <3>1. i \in gone => its[i].id \in op.ids
      BY <1>2
    <3>2. ASSUME its[i].id \in op.ids
          PROVE  i \in gone
      <4>1. PICK j \in gone : its[j].id = its[i].id
        BY <1>2, <3>2
      <4>2. j = i
        BY <1>7, <4>1 DEF Sound, Shape
      <4> QED
        BY <4>1, <4>2
    <3> QED
      BY <3>1, <3>2
  <2>4. new.items = [i \in DOMAIN its |->
                       IF its[i].id \in op.ids THEN [its[i] EXCEPT !.deleted = TRUE] ELSE its[i]]
    BY <1>7 DEF Deleted
  <2>5. new.items = marked
    <3> HIDE DEF new, its
    <3> QED
      BY <2>3, <2>4
  <2> QED
    BY <2>2, <2>5
<1>11. new.seen = seen_deletes[s] /\ new.clock = clock[s] /\ new \in TextType
  <2>1. new.seen = {} /\ text.seen = {}
    BY <1>7, <1>9 DEF Sound
  <2>2. new \in TextType /\ new.clock = text.clock
    BY <1>7, DeletedType
  <2> HIDE DEF new
  <2> QED
    BY <1>7, <2>1, <2>2
<1> HIDE DEF new, text, its
<1>12. ASSUME NEW t \in Site
       PROVE  Sound(Text(t)', Made')
  <2>1. Text(t)' = [items |-> items'[t], seen |-> seen_deletes[t], clock |-> clock[t]]
    BY <1>3 DEF Text
  <2>2. CASE t = s
    <3>1. new = [items |-> new.items, seen |-> new.seen, clock |-> new.clock]
      BY <1>11 DEF TextType
    <3>2. Text(t)' = new
      BY <1>10, <1>11, <2>1, <2>2, <3>1
    <3> QED
      BY <1>6, <1>9, <3>2
  <2>3. CASE t # s
    <3>1. Text(t)' = Text(t)
      BY <1>10, <2>1, <2>3 DEF Text
    <3> QED
      BY <1>1, <1>6, <3>1 DEF Texts
  <2> QED
    BY <2>2, <2>3
<1>13. Clocks'
  BY <1>1, <1>3, <1>6 DEF Clocks
<1>14. snapshot # <<>> => Fine(snapshot[1], Made')
  BY <1>1, <1>6 DEF Texts
<1>15. WellMade(Made')
  BY <1>1, <1>6
<1>16. Needs(op) \subseteq Ids(items[s]) /\ Facts(items'[s]) = Facts(items[s]) \cup Tells(op)
  BY <1>8, <1>9, <1>10 DEF its
<1> QED
  BY <1>1, <1>2, <1>3, <1>4, <1>5, <1>10, <1>12, <1>13, <1>14, <1>15, <1>16, EditKeeps

-----------------------------------------------------------------------------
\* A site that joins holds what the session started from.
LEMMA InvJoin ==
  ASSUME SharedTextInv, NEW s \in Site, Join(s)
  PROVE  SharedTextInv'
<1>1. Typed /\ WellMade(Made) /\ Clocks /\ Texts /\ InSession /\ Informed /\ Causal /\ Host \in Site
  BY InvParts
<1>2. /\ members' = members \cup {s} /\ Host \in members /\ s \notin members /\ s # Host
      /\ UNCHANGED seen_deletes /\ UNCHANGED outgoing
      /\ UNCHANGED snapshot /\ UNCHANGED log /\ UNCHANGED got /\ UNCHANGED chars
  BY DEF Join, bounds
<1>3. PICK shot \in Seq(Character), new \in Nat :
        /\ shot = snapshot[1] /\ snapshot # <<>> /\ clock[s] <= new
        /\ \A i \in DOMAIN shot : shot[i].id[1] <= new
        /\ items' = [items EXCEPT ![s] = shot] /\ clock' = [clock EXCEPT ![s] = new]
  BY <1>1, JoinIs
<1>4. /\ items'[s] = shot /\ clock'[s] = new
      /\ \A t \in Site : t # s => items'[t] = items[t] /\ clock'[t] = clock[t]
  BY <1>1, <1>3, TypedParts
<1>5. Made' = Made
  BY <1>2, SameMade
<1>6. \A t \in Site : clock[t] <= clock'[t] /\ clock[t] \in Nat /\ clock'[t] \in Nat
  BY <1>1, <1>3, <1>4, TypedParts, SMTT(30)
<1>7. Clocks'
  <2>1. ASSUME NEW op \in Made
        PROVE  Later(op, clock'[op.id[2]], chars)
    <3>1. op \in Insertion /\ Len(op.c) >= 1 /\ Later(op, clock[op.id[2]], chars)
      BY <1>1 DEF Clocks, WellMade
    <3>2. op.id[2] \in Site /\ chars \in Nat /\ chars <= chars
      BY <1>1, <3>1, InsertionParts, TypedParts
    <3>3. /\ clock[op.id[2]] \in Nat /\ clock'[op.id[2]] \in Nat
          /\ clock[op.id[2]] <= clock'[op.id[2]]
      BY <1>6, <3>2
    <3> QED
      BY <3>1, <3>2, <3>3, LaterOn
  <2>2. ASSUME NEW t \in Site
        PROVE  Initial <= clock'[t]
    BY <1>1, <1>6, EditAssumption DEF Clocks
  <2> QED
    BY <1>2, <1>5, <2>1, <2>2 DEF Clocks
<1>8. Texts'
  <2>1. ASSUME NEW t \in Site
        PROVE  Sound(Text(t)', Made)
    <3>1. Text(t)' = [items |-> items'[t], seen |-> seen_deletes[t], clock |-> clock'[t]]
      BY <1>2 DEF Text
    <3>2. CASE t = s
      <4> DEFINE text == [items |-> shot, seen |-> {}, clock |-> new]
      <4>1. seen_deletes[s] = {} /\ Fine(shot, Made)
        BY <1>1, <1>3, TextsAre DEF Texts
      <4>2. Text(t)' = text
        BY <1>4, <3>1, <3>2, <4>1
      <4>3. text \in TextType /\ text.items = shot /\ text.seen = {} /\ text.clock = new
        BY DEF TextType
      <4> HIDE DEF text
      <4>4. Sound(text, Made)
        BY <1>3, <4>1, <4>3 DEF Sound, Fine
      <4> QED
        BY <4>2, <4>4
    <3>3. CASE t # s
      <4>1. Text(t)' = Text(t)
        BY <1>4, <3>1, <3>3 DEF Text
      <4> QED
        BY <1>1, <4>1 DEF Texts
    <3> QED
      BY <3>2, <3>3
  <2>2. snapshot # <<>> => Fine(snapshot[1], Made)
    BY <1>1 DEF Texts
  <2> QED
    BY <1>2, <1>5, <2>1, <2>2 DEF Texts
<1>9. InSession'
  <2>1. items'[Host] = items[Host]
    BY <1>1, <1>2, <1>4
  <2>2. \A t \in Site : t \notin members' \cup {Host} => items'[t] = <<>> /\ outgoing[t] = <<>>
    BY <1>1, <1>2, <1>4 DEF InSession
  <2>3. \A t \in Site : t \notin members' => got[t] = 0
    BY <1>1, <1>2 DEF InSession
  <2>4. \A i \in DOMAIN log : log[i].from \in members'
    BY <1>1, <1>2 DEF InSession
  <2>5. snapshot # <<>> => Facts(snapshot[1]) \subseteq Facts(items'[Host])
                           /\ Seed \subseteq Facts(snapshot[1])
    BY <1>1, <2>1 DEF InSession
  <2>6. Host \in members'
    BY <1>2
  <2> QED
    BY <1>2, <2>2, <2>3, <2>4, <2>5, <2>6 DEF InSession, Seed
<1>10. Base' = Base /\ \A I : Posted(I)' = Posted(I)
  BY <1>2, SamePosted DEF Base, Shared, Seed
<1>11. Informed'
  <2>1. ASSUME NEW t \in members' \cup {Host}
        PROVE  Facts(items'[t]) = (Base \cup Posted(Has(t))) \cup Told(outgoing[t])
    <3>1. CASE t = s
      <4>1. outgoing[s] = <<>> /\ got[s] = 0
        BY <1>1, <1>2 DEF InSession
      <4>2. Has(s) = {}
        <5>1. ASSUME NEW i \in DOMAIN log
              PROVE  ~(i <= got[s]) /\ log[i].from # s
          <6>1. i \in Nat /\ i >= 1
            BY <1>1, TypedParts
          <6> QED
            BY <1>1, <1>2, <4>1, <6>1 DEF InSession
        <5> QED
          BY <5>1 DEF Has
      <4>3. Posted(Has(s)) = {} /\ Told(outgoing[s]) = {}
        BY <4>1, <4>2, NoneYet DEF Posted
      <4>4. Base = Facts(shot)
        BY <1>1, <1>3 DEF Base, Shared, InSession
      <4> QED
        BY <1>4, <3>1, <4>3, <4>4
    <3>2. CASE t # s
      <4>1. t \in members \cup {Host} /\ t \in Site
        BY <1>1, <1>2, <3>2, TypedParts
      <4>2. Facts(items[t]) = (Base \cup Posted(Has(t))) \cup Told(outgoing[t])
        BY <1>1, <4>1 DEF Informed
      <4> QED
        BY <1>4, <3>2, <4>1, <4>2
    <3> QED
      BY <3>1, <3>2
  <2>2. \A t : Posted(Has(t))' = Posted(Has(t))
    BY <1>2 DEF Posted, Has
  <2> QED
    BY <1>2, <1>10, <2>1, <2>2 DEF Informed
<1>12. Causal'
  BY <1>1, <1>2, <1>10 DEF Causal
<1>13. Typed'
  BY <1>1, TypedJoin
<1> QED
  BY <1>1, <1>5, <1>7, <1>8, <1>9, <1>11, <1>12, <1>13 DEF SharedTextInv

\* An insertion with one name after the other is made as it is received.
LEMMA InsertsRun ==
  ASSUME NEW s \in Site, NEW at, NEW n, NEW ts, NEW op, NEW run,
         Inserts(s, at, n, ts, op, run), \A k \in 1 .. n : ts[k] = ts[1] + k - 1
  PROVE  /\ n \in Nat /\ n >= 1 /\ DOMAIN op.c = 1 .. n
         /\ op.id[1] = ts[1] /\ op.id[2] = s /\ ts[1] \in Nat
         /\ run = RunOf(op)
         /\ ts[n] = ts[1] + n - 1
<1>1. /\ n \in 1 .. MaxRun /\ ts \in [1 .. n -> Nat] /\ op \in Insertion /\ op.id = <<ts[1], s>>
      /\ Len(op.c) = n /\ run \in Seq(Character) /\ Len(run) = n
      /\ \A k \in 1 .. n : run[k] = [id |-> <<ts[k], s>>, ch |-> op.c[k], deleted |-> FALSE]
  BY DEF Inserts
<1>2. n \in Nat /\ n >= 1
  BY <1>1, EditAssumption
<1>3. DOMAIN op.c = 1 .. n /\ op.id[1] = ts[1] /\ op.id[2] = s
  BY <1>1, InsertionParts
<1>4. ts[1] \in Nat /\ n \in 1 .. n
  BY <1>1, <1>2
<1>5. ASSUME NEW k \in 1 .. n
      PROVE  run[k] = RunOf(op)[k]
  <2>1. Name(op, k) = <<ts[k], s>>
    BY <1>3 DEF Name
  <2>2. RunOf(op)[k] = [id |-> Name(op, k), ch |-> op.c[k], deleted |-> FALSE]
    BY <1>3 DEF RunOf
  <2> QED
    BY <1>1, <2>1, <2>2
<1>6. RunOf(op) \in Seq(Character) /\ Len(RunOf(op)) = n
  BY <1>1, RunParts
<1>7. run = RunOf(op)
  BY <1>1, <1>5, <1>6, SeqEqual
<1> QED
  BY <1>2, <1>3, <1>4, <1>7

LEMMA InsertsNewer ==
  ASSUME SharedTextInv, NEW s \in Site, NEW at, NEW n, NEW ts, NEW op, NEW run,
         Inserts(s, at, n, ts, op, run), \A k \in 1 .. n : ts[k] = ts[1] + k - 1
  PROVE  /\ Newer(op, Made)
         /\ at = Len(items[s]) \/ Greater(op.id, items[s][at + 1].id)
<1>1. Typed /\ WellMade(Made) /\ Clocks /\ Texts
  BY InvParts
<1>2. /\ at \in 0 .. Len(items[s]) /\ clock[s] < ts[1] /\ op \in Insertion /\ Len(op.c) = n
      /\ op.after = IF at = 0 THEN Start ELSE items[s][at].id
      /\ \A k \in 1 .. n : op.c[k] = chars + k
  BY DEF Inserts
<1>3. /\ n \in Nat /\ n >= 1 /\ DOMAIN op.c = 1 .. n
      /\ op.id[1] = ts[1] /\ op.id[2] = s /\ ts[1] \in Nat
  BY InsertsRun
<1>4. clock[s] \in Nat /\ chars \in Nat /\ Initial \in Nat /\ Initial <= clock[s]
  BY <1>1, TypedParts, EditAssumption DEF Clocks
<1>5. /\ items[s] \in Seq(Character) /\ DOMAIN items[s] = 1 .. Len(items[s]) /\ Len(items[s]) \in Nat
      /\ \A i \in DOMAIN items[s] : items[s][i].id[1] <= clock[s] /\ items[s][i].id[1] \in Nat
  <2>1. items[s] \in Seq(Character) /\ \A i \in DOMAIN items[s] : items[s][i].id[1] <= clock[s]
    BY <1>1, TextsAre
  <2>2. \A i \in DOMAIN items[s] : items[s][i].id[1] \in Nat
    BY <2>1, Parts
  <2> QED
    BY <2>1, <2>2
<1>6. op.after[1] < op.id[1]
  <2>1. CASE at = 0
    <3>1. op.after = Start /\ Start[1] = 0
      BY <1>2, <2>1 DEF Start
    <3> QED
      BY <1>2, <1>3, <1>4, <3>1
  <2>2. CASE at # 0
    <3>1. at \in DOMAIN items[s] /\ op.after = items[s][at].id
      BY <1>2, <1>5, <2>2
    <3>2. op.after[1] <= clock[s] /\ op.after[1] \in Nat
      BY <1>5, <3>1
    <3> QED
      BY <1>2, <1>3, <1>4, <3>2, SMTT(30)
  <2> QED
    BY <2>1, <2>2
<1>7. op.c[1] = chars + 1 /\ \A k \in DOMAIN op.c : op.c[k] = op.c[1] + k - 1
  <2>1. op.c[1] = chars + 1
    BY <1>2, <1>3
  <2>2. ASSUME NEW k \in DOMAIN op.c
        PROVE  op.c[k] = op.c[1] + k - 1
    <3>1. op.c[k] = chars + k /\ k \in Nat
      BY <1>2, <1>3
    <3> QED
      BY <1>4, <2>1, <3>1
  <2> QED
    BY <2>1, <2>2
<1>8. ASSUME NEW o \in Made
      PROVE  /\ o.id[2] = op.id[2] => o.id[1] + Len(o.c) <= op.id[1]
             /\ o.c[1] + Len(o.c) <= op.c[1]
  <2>1. o \in Insertion /\ Len(o.c) >= 1 /\ Later(o, clock[o.id[2]], chars)
    BY <1>1 DEF Clocks, WellMade
  <2>2. o.id[1] \in Nat /\ Len(o.c) \in Nat /\ o.c[1] \in Int
    BY <2>1, InsertionParts, FirstName, NamesAre
  <2>3. o.c[1] + Len(o.c) <= op.c[1]
    BY <1>4, <1>7, <2>1, <2>2 DEF Later
  <2>4. ASSUME o.id[2] = op.id[2]
        PROVE  o.id[1] + Len(o.c) <= op.id[1]
    <3>1. o.id[1] + Len(o.c) - 1 <= clock[s]
      BY <1>3, <2>1, <2>4 DEF Later
    <3>2. clock[s] < op.id[1] /\ op.id[1] \in Nat
      BY <1>2, <1>3
    <3> QED
      BY <1>4, <2>2, <3>1, <3>2
  <2> QED
    BY <2>3, <2>4
<1>9. Newer(op, Made)
  <2>1. op.id[1] > Initial /\ op.c[1] >= 1 /\ Len(op.c) >= 1
    BY <1>2, <1>3, <1>4, <1>7
  <2> QED
    BY <1>2, <1>6, <1>7, <1>8, <2>1 DEF Newer
<1>10. ASSUME at # Len(items[s])
       PROVE  Greater(op.id, items[s][at + 1].id)
  <2>1. at + 1 \in DOMAIN items[s]
    BY <1>2, <1>5, <1>10
  <2>2. items[s][at + 1].id[1] <= clock[s] /\ items[s][at + 1].id[1] \in Nat
    BY <1>5, <2>1
  <2>3. clock[s] < op.id[1] /\ op.id[1] \in Nat
    BY <1>2, <1>3
  <2>4. items[s][at + 1].id[1] < op.id[1]
    BY <1>4, <2>2, <2>3
  <2> QED
    BY <2>2, <2>3, <2>4 DEF Greater
<1> QED
  BY <1>9, <1>10

LEMMA InvInsert ==
  ASSUME OneMoment, SharedTextInv, NEW s \in Site, Insert(s)
  PROVE  SharedTextInv'
<1>1. Typed /\ WellMade(Made) /\ Clocks /\ Texts /\ Host \in Site /\ Typed'
  BY InvParts, TypedInsert
<1>2. PICK at, n, ts, op, run :
        /\ Inserts(s, at, n, ts, op, run)
        /\ \A k \in 1 .. n : ts[k] = ts[1] + k - 1
  BY <1>1, InsertIs
<1>3. /\ at \in 0 .. Len(items[s]) /\ clock[s] < ts[1] /\ op \in Insertion /\ Len(op.c) = n
      /\ op.after = IF at = 0 THEN Start ELSE items[s][at].id
      /\ \A k \in 1 .. n : op.c[k] = chars + k
      /\ items' = [items EXCEPT ![s] = Spliced(@, at, run)]
      /\ clock' = [clock EXCEPT ![s] = ts[n]]
      /\ outgoing' = [outgoing EXCEPT ![s] = Append(@, op)]
      /\ chars' = chars + n
      /\ UNCHANGED <<seen_deletes, session>>
  BY <1>2 DEF Inserts
<1>4. /\ n \in Nat /\ n >= 1 /\ DOMAIN op.c = 1 .. n
      /\ op.id[1] = ts[1] /\ op.id[2] = s /\ ts[1] \in Nat
      /\ run = RunOf(op) /\ ts[n] = ts[1] + n - 1
  BY <1>2, InsertsRun
<1>5. /\ UNCHANGED seen_deletes /\ UNCHANGED members
      /\ UNCHANGED snapshot /\ UNCHANGED log /\ UNCHANGED got
  BY <1>3 DEF session
<1>6. s \in members \cup {Host}
  BY DEF Insert, Edits
<1>7. op \in Operation /\ op.k = "i"
  BY <1>3, InsertionParts DEF Operation
<1> DEFINE M == Made \cup {op}
           its == items[s]
<1>8. Made' = M
  <2>1. {o \in {op} : o.k = "i"} = {op}
    BY <1>7
  <2>2. Made' = Made \cup {o \in {op} : o.k = "i"}
    BY <1>1, <1>3, <1>5, <1>7, MadeMore
  <2> QED
    BY <2>1, <2>2
<1>9. Newer(op, Made) /\ (at = Len(its) \/ Greater(op.id, its[at + 1].id))
  BY <1>2, InsertsNewer
<1>10. WellMade(M)
  BY <1>1, <1>9, NewerWellMade
<1>11. \A t \in Site : Sound(Text(t), M)
  <2>1. ASSUME NEW t \in Site
        PROVE  Sound(Text(t), M)
    <3> DEFINE text == Text(t)
    <3>1. Sound(text, Made) /\ Shape(text.items, Born(Made))
      BY <1>1 DEF Texts, Sound
    <3> HIDE DEF text
    <3>2. \A k \in DOMAIN op.c : Name(op, k) \notin Ids(text.items)
      BY <1>1, <1>9, <3>1, NewerNames
    <3>3. Sound(text, Made \cup {op})
      BY <1>3, <1>4, <3>1, <3>2, SoundGrows
    <3> QED
      BY <3>3 DEF text
  <2> QED
    BY <2>1
<1>12. ASSUME snapshot # <<>>
       PROVE  Fine(snapshot[1], M)
  <2> DEFINE shot == snapshot[1]
  <2>1. Shape(shot, Born(Made)) /\ Whole(shot, Made)
    BY <1>1, <1>12 DEF Texts, Fine
  <2> HIDE DEF shot
  <2>2. \A k \in DOMAIN op.c : Name(op, k) \notin Ids(shot)
    BY <1>1, <1>9, <2>1, NewerNames
  <2>3. Shape(shot, Born(Made \cup {op})) /\ Whole(shot, Made \cup {op})
    BY <1>3, <1>4, <2>1, <2>2, TextGrows
  <2> QED
    BY <2>3 DEF Fine, shot
<1>13. /\ its \in Seq(Character) /\ Shape(its, Born(M)) /\ Whole(its, M) /\ op.id \notin Ids(its)
       /\ \A i \in DOMAIN its : its[i].id[1] <= clock[s] /\ its[i].id[1] \in Nat
       /\ seen_deletes[s] = {}
  <2>1. /\ its \in Seq(Character) /\ Shape(its, Born(Made)) /\ seen_deletes[s] = {}
        /\ \A i \in DOMAIN its : its[i].id[1] <= clock[s]
    BY <1>1, TextsAre
  <2>2. Shape(its, Born(M)) /\ Whole(its, M)
    <3>1. Sound(Text(s), M) /\ Text(s).items = its
      BY <1>1, <1>11, TextIs
    <3> HIDE DEF its, M
    <3> QED
      BY <3>1 DEF Sound
  <2>3. op.id \notin Ids(its)
    <3>1. 1 \in DOMAIN op.c /\ Name(op, 1) = op.id
      BY <1>3, <1>4, FirstName
    <3> QED
      BY <1>1, <1>9, <2>1, <3>1, NewerNames
  <2>4. \A i \in DOMAIN its : its[i].id[1] \in Nat
    BY <2>1, Parts
  <2> QED
    BY <2>1, <2>2, <2>3, <2>4
<1> DEFINE new == Spliced(its, at, RunOf(op))
<1>14. /\ new \in Seq(Character) /\ Shape(new, Born(M)) /\ Whole(new, M)
       /\ Ids(new) = Ids(its) \cup Gives(op) /\ Dead(new) = Dead(its)
  <2>1. /\ at \in 0 .. Len(its) /\ at \in at .. Len(its)
        /\ \A i \in at + 1 .. at : Greater(its[i].id, op.id)
        /\ op.after = IF at = 0 THEN Start ELSE its[at].id
        /\ op \in M
    BY <1>3, <1>13
  <2> HIDE DEF its, M
  <2> QED
    BY <1>9, <1>10, <1>13, <2>1, RunSpliced
<1>15. items'[s] = new /\ clock'[s] = ts[1] + n - 1
       /\ \A t \in Site : t # s => items'[t] = items[t] /\ clock'[t] = clock[t]
  BY <1>1, <1>3, <1>4, TypedParts
<1>16. Facts(new) = Facts(its) \cup Tells(op)
  <2>1. Kills(op) = {} /\ Dead(its) = Dead(its) \cup Kills(op)
    BY <1>7 DEF Kills
  <2>2. Ids(new) = Ids(its) \cup Gives(op) /\ Dead(new) = Dead(its) \cup Kills(op)
    BY <1>14, <2>1
  <2> HIDE DEF new
  <2> QED
    BY <2>2, MarksOfUnion DEF Facts, Tells
<1>17. Needs(op) \subseteq Ids(its)
  <2>1. CASE at = 0
    BY <1>3, <1>7, <2>1 DEF Needs
  <2>2. CASE at # 0
    <3>1. at \in DOMAIN its /\ op.after = its[at].id
      BY <1>3, <1>13, <2>2
    <3> QED
      BY <1>7, <3>1 DEF Needs, Ids
  <2> QED
    BY <2>1, <2>2
<1> HIDE DEF new, its
<1>18. /\ clock[s] \in Nat /\ clock'[s] \in Nat /\ clock[s] <= clock'[s]
       /\ chars \in Nat /\ chars' \in Nat /\ chars <= chars'
  <2>1. clock[s] \in Nat /\ chars \in Nat
    BY <1>1, TypedParts
  <2>2. clock[s] < ts[1]
    BY <1>3
  <2>3. clock'[s] \in Nat /\ clock[s] <= clock'[s]
    BY <1>4, <1>15, <2>1, <2>2
  <2>4. chars' \in Nat /\ chars <= chars'
    BY <1>3, <1>4, <2>1
  <2> QED
    BY <2>1, <2>3, <2>4
<1>19. \A t \in Site : clock[t] <= clock'[t] /\ clock[t] \in Nat /\ clock'[t] \in Nat
  <2>1. \A t \in Site : clock[t] \in Nat
    BY <1>1, TypedParts
  <2>2. \A t \in Site : t # s => clock'[t] = clock[t]
    BY <1>15
  <2>3. clock'[s] \in Nat /\ clock[s] <= clock'[s]
    BY <1>18
  <2> QED
    BY <2>1, <2>2, <2>3
<1>20. ASSUME NEW i \in DOMAIN new
       PROVE  new[i].id[1] <= clock'[s]
  <2>1. new[i].id \in Ids(its) \cup Gives(op)
    BY <1>14 DEF Ids
  <2>2. CASE new[i].id \in Ids(its)
    <3>1. PICK j \in DOMAIN its : its[j].id = new[i].id
      BY <2>2 DEF Ids
    <3> QED
      BY <1>13, <1>18, <3>1
  <2>3. CASE new[i].id \in Gives(op)
    <3>1. PICK k \in DOMAIN op.c : new[i].id = Name(op, k)
      BY <1>7, <2>3 DEF Gives
    <3>2. Name(op, k)[1] = op.id[1] + k - 1 /\ k \in Nat /\ k <= n
      BY <1>3, NamesAre
    <3> QED
      BY <1>4, <1>15, <3>1, <3>2
  <2> QED
    BY <2>1, <2>2, <2>3
<1> HIDE DEF M
<1>21. ASSUME NEW t \in Site
       PROVE  Sound(Text(t)', M)
  <2>1. Text(t)' = [items |-> items'[t], seen |-> seen_deletes[t], clock |-> clock'[t]]
    BY <1>5 DEF Text
  <2>2. CASE t = s
    <3> DEFINE text == [items |-> new, seen |-> {}, clock |-> clock'[s]]
    <3>1. Text(t)' = text
      BY <1>13, <1>15, <2>1, <2>2
    <3>2. text \in TextType /\ text.items = new /\ text.seen = {} /\ text.clock = clock'[s]
      BY <1>14, <1>18 DEF TextType
    <3> HIDE DEF text
    <3>3. Sound(text, M)
      BY <1>14, <1>20, <3>2 DEF Sound
    <3> QED
      BY <3>1, <3>3
  <2>3. CASE t # s
    <3>1. Text(t)' = Text(t)
      BY <1>15, <2>1, <2>3 DEF Text
    <3> QED
      BY <1>11, <3>1
  <2> QED
    BY <2>2, <2>3
<1>22. Clocks'
  <2>1. ASSUME NEW o \in Made
        PROVE  Later(o, clock'[o.id[2]], chars')
    <3>1. o \in Insertion /\ Len(o.c) >= 1 /\ Later(o, clock[o.id[2]], chars)
      BY <1>1 DEF Clocks, WellMade
    <3>2. o.id[2] \in Site
      BY <3>1, InsertionParts
    <3>3. /\ clock[o.id[2]] \in Nat /\ clock'[o.id[2]] \in Nat
          /\ clock[o.id[2]] <= clock'[o.id[2]]
      BY <1>19, <3>2
    <3> QED
      BY <1>18, <3>1, <3>3, LaterOn
  <2>2. Later(op, clock'[op.id[2]], chars')
    <3>1. op.c[1] = chars + 1
      BY <1>3, <1>4
    <3>2. op.id[1] + Len(op.c) - 1 <= clock'[s]
      BY <1>3, <1>4, <1>15
    <3>3. op.c[1] + Len(op.c) - 1 <= chars'
      BY <1>3, <1>4, <1>18, <3>1
    <3> QED
      BY <1>4, <3>2, <3>3 DEF Later
  <2>3. ASSUME NEW t \in Site
        PROVE  Initial <= clock'[t]
    BY <1>1, <1>19, EditAssumption DEF Clocks
  <2> QED
    BY <1>8, <2>1, <2>2, <2>3 DEF Clocks, M
<1>23. snapshot # <<>> => Fine(snapshot[1], Made')
  BY <1>8, <1>12
<1>24. /\ Needs(op) \subseteq Ids(items[s]) /\ Facts(items'[s]) = Facts(items[s]) \cup Tells(op)
       /\ \A t \in Site : t # s => items'[t] = items[t]
  BY <1>15, <1>16, <1>17 DEF its
<1>25. WellMade(Made') /\ \A t \in Site : Sound(Text(t)', Made')
  BY <1>8, <1>10, <1>21
<1> QED
  BY <1>1, <1>3, <1>5, <1>6, <1>7, <1>22, <1>23, <1>24, <1>25, EditKeeps

-----------------------------------------------------------------------------
\* A post says what the site that sends it had to say.
LEMMA InvFlush ==
  ASSUME SharedTextInv, NEW s \in Site, Flush(s)
  PROVE  SharedTextInv'
<1>1. /\ Typed /\ WellMade(Made) /\ Clocks /\ Texts /\ InSession /\ Informed /\ Causal
      /\ Host \in Site /\ members \subseteq Site
  BY InvParts
<1>2. /\ s \in members /\ log' = Append(log, [from |-> s, ops |-> outgoing[s]])
      /\ outgoing' = [outgoing EXCEPT ![s] = <<>>]
      /\ UNCHANGED items /\ UNCHANGED seen_deletes /\ UNCHANGED clock
      /\ UNCHANGED members /\ UNCHANGED snapshot /\ UNCHANGED got /\ UNCHANGED chars
  BY DEF Flush, bounds
<1>3. Typed'
  BY <1>1, TypedFlush
<1> DEFINE n == Len(log)
<1>4. /\ n \in Nat /\ DOMAIN log = 1 .. n /\ Len(log') = n + 1 /\ DOMAIN log' = 1 .. n + 1
      /\ \A i \in 1 .. n : log'[i] = log[i]
      /\ log'[n + 1].from = s /\ log'[n + 1].ops = outgoing[s]
  BY <1>1, <1>2, LogAppend, TypedParts
<1>5. outgoing'[s] = <<>> /\ \A t \in Site : t # s => outgoing'[t] = outgoing[t]
  BY <1>1, <1>2, TypedParts
<1>6. \A t \in Site : got[t] \in Nat /\ got[t] <= n
  <2>1. ASSUME NEW t \in Site
        PROVE  got[t] \in Nat /\ got[t] <= n
    <3>1. got[t] \in 0 .. Len(log)
      BY <1>1, TypedParts
    <3> QED
      BY <1>4, <3>1
  <2> QED
    BY <2>1
<1> HIDE DEF n
<1>7. ASSUME NEW I, I \subseteq 1 .. n
      PROVE  UNION {Told(log'[i].ops) : i \in I \cup {n + 1}} = Posted(I) \cup Told(outgoing[s])
  <2>1. \A i \in I : log'[i] = log[i]
    BY <1>4, <1>7
  <2>2. log'[n + 1].ops = outgoing[s]
    BY <1>4
  <2> DEFINE All == UNION {Told(log'[i].ops) : i \in I \cup {n + 1}}
  <2>3. \A x : x \in All <=> x \in Told(log'[n + 1].ops) \/ \E i \in I : x \in Told(log'[i].ops)
    OBVIOUS
  <2>4. \A x : x \in Posted(I) <=> \E i \in I : x \in Told(log[i].ops)
    BY DEF Posted
  <2> HIDE DEF All
  <2>5. \A x : x \in All <=> x \in Posted(I) \/ x \in Told(outgoing[s])
    BY <2>1, <2>2, <2>3, <2>4
  <2> QED
    BY <2>5 DEF All
<1>8. Posted(DOMAIN log)' = Posted(DOMAIN log) \cup Told(outgoing[s])
  <2>1. DOMAIN log' = (1 .. n) \cup {n + 1}
    BY <1>4
  <2>2. Posted(DOMAIN log)' = UNION {Told(log'[i].ops) : i \in DOMAIN log'}
    BY DEF Posted
  <2> QED
    BY <1>4, <1>7, <2>1, <2>2
<1>9. Made' = Made
  <2> DEFINE Old == UNION {Insertions(outgoing[t]) : t \in Site}
             Now == UNION {Insertions(outgoing'[t]) : t \in Site}
             Kept == InsertedAll(Posts, Len(log))
             Sent == Insertions(outgoing[s])
  <2>1. Old = Now \cup Sent
    <3>1. Insertions(outgoing'[s]) = {}
      BY <1>5, NoneYet
    <3>2. \A t \in Site : t # s => Insertions(outgoing'[t]) = Insertions(outgoing[t])
      BY <1>5
    <3>3. \A x : x \in Now <=> x \in Insertions(outgoing'[s])
                               \/ \E t \in Site : t # s /\ x \in Insertions(outgoing'[t])
      OBVIOUS
    <3>4. \A x : x \in Old <=> x \in Sent
                               \/ \E t \in Site : t # s /\ x \in Insertions(outgoing[t])
      OBVIOUS
    <3> HIDE DEF Now, Old, Sent
    <3>5. \A x : x \in Old <=> x \in Now \/ x \in Sent
      BY <3>1, <3>2, <3>3, <3>4
    <3> QED
      BY <3>5
  <2>2. Kept' = Kept \cup Sent
    <3>1. Kept = UNION {Insertions(log[i].ops) : i \in 1 .. n}
      <4>1. \A i \in 1 .. n : Posts[i] = log[i].ops
        BY <1>1, <1>4, PostsAre
      <4> QED
        BY <4>1 DEF InsertedAll, n
    <3>2. Kept' = UNION {Insertions(log'[i].ops) : i \in 1 .. n + 1}
      <4>1. \A i \in 1 .. n + 1 : Posts'[i] = log'[i].ops
        BY <1>4 DEF Posts
      <4>2. Kept' = UNION {Insertions(Posts'[i]) : i \in 1 .. n + 1}
        BY <1>4 DEF InsertedAll
      <4> QED
        BY <4>1, <4>2
    <3>3. 1 .. n + 1 = (1 .. n) \cup {n + 1}
      BY <1>4
    <3>4. \A i \in 1 .. n : log'[i].ops = log[i].ops
      BY <1>4
    <3> HIDE DEF Kept
    <3>5. \A x : x \in Kept' <=> \/ x \in Insertions(log'[n + 1].ops)
                                \/ \E i \in 1 .. n : x \in Insertions(log'[i].ops)
      BY <3>2, <3>3
    <3>6. \A x : x \in Kept <=> \E i \in 1 .. n : x \in Insertions(log[i].ops)
      BY <3>1
    <3>7. Insertions(log'[n + 1].ops) = Sent
      BY <1>4
    <3> HIDE DEF Sent
    <3>8. \A x : x \in Kept' <=> x \in Kept \/ x \in Sent
      BY <3>4, <3>5, <3>6, <3>7
    <3> QED
      BY <3>8
  <2>3. Made' = Kept' \cup Now /\ Made = Kept \cup Old
    BY DEF Made
  <2> HIDE DEF Kept, Now, Old, Sent
  <2> QED
    BY <2>1, <2>2, <2>3
<1>10. Texts' /\ Clocks'
  <2>1. snapshot' # <<>> => Fine(snapshot'[1], Made)
    BY <1>1, <1>2 DEF Texts
  <2> QED
    BY <1>1, <1>2, <1>9, <2>1, SameTexts
<1>11. InSession'
  <2>1. Host \in members
    BY <1>1, <1>2 DEF InSession
  <2>2. \A t \in Site : t \notin members \cup {Host} => items[t] = <<>> /\ outgoing'[t] = <<>>
    BY <1>1, <1>2, <1>5 DEF InSession
  <2>3. \A i \in DOMAIN log' : log'[i].from \in members
    <3>1. ASSUME NEW i \in 1 .. n + 1
          PROVE  log'[i].from \in members
      <4>1. i \in 1 .. n \/ i = n + 1
        BY <1>4
      <4> QED
        BY <1>1, <1>2, <1>4, <4>1 DEF InSession
    <3> QED
      BY <1>4, <3>1
  <2> QED
    BY <1>1, <1>2, <2>1, <2>2, <2>3 DEF InSession, Seed
<1>12. Base' = Base
  BY <1>2 DEF Base, Shared, Seed
<1>13. Informed'
  <2>1. ASSUME NEW t \in members \cup {Host}
        PROVE  Facts(items[t]) = (Base \cup Posted(Has(t))') \cup Told(outgoing'[t])
    <3>1. t \in Site /\ Facts(items[t]) = (Base \cup Posted(Has(t))) \cup Told(outgoing[t])
      BY <1>1 DEF Informed
    <3>2. Has(t) \subseteq 1 .. n
      BY <1>4 DEF Has
    <3>3. Posted(Has(t))' = UNION {Told(log'[i].ops) : i \in Has(t)'}
      BY DEF Posted
    <3>4. CASE t = s
      <4>1. Has(t)' = Has(t) \cup {n + 1}
        <5>1. \A i \in 1 .. n : i \in Has(t)' <=> i \in Has(t)
          BY <1>2, <1>4 DEF Has
        <5>2. n + 1 \in Has(t)'
          BY <1>4, <3>4 DEF Has
        <5>3. Has(t)' \subseteq (1 .. n) \cup {n + 1}
          BY <1>4 DEF Has
        <5> QED
          BY <3>2, <5>1, <5>2, <5>3
      <4>2. Posted(Has(t))' = Posted(Has(t)) \cup Told(outgoing[s])
        BY <1>7, <3>2, <3>3, <4>1
      <4>3. Told(outgoing'[t]) = {}
        BY <1>5, <3>4, NoneYet
      <4> QED
        BY <3>1, <3>4, <4>2, <4>3
    <3>5. CASE t # s
      <4>1. Has(t)' = Has(t)
        <5>1. \A i \in 1 .. n : i \in Has(t)' <=> i \in Has(t)
          BY <1>2, <1>4 DEF Has
        <5>2. n + 1 \notin Has(t)'
          BY <1>2, <1>4, <1>6, <3>1, <3>5 DEF Has
        <5>3. Has(t)' \subseteq (1 .. n) \cup {n + 1}
          BY <1>4 DEF Has
        <5> QED
          BY <3>2, <5>1, <5>2, <5>3
      <4>2. Posted(Has(t))' = Posted(Has(t))
        <5>1. UNION {Told(log'[i].ops) : i \in Has(t)} = Posted(Has(t))
          <6>1. \A i \in Has(t) : log'[i] = log[i]
            BY <1>4, <3>2
          <6> QED
            BY <6>1 DEF Posted
        <5> QED
          BY <3>3, <4>1, <5>1
      <4> QED
        BY <1>5, <3>1, <3>5, <4>2
    <3> QED
      BY <3>4, <3>5
  <2> QED
    BY <1>2, <1>12, <2>1 DEF Informed
<1>14. Causal'
  <2>1. ASSUME NEW i \in 1 .. n + 1
        PROVE  Follows(log'[i].ops, Base \cup UNION {Told(log'[j].ops) : j \in 1 .. i - 1})
    <3>1. 1 .. i - 1 \subseteq 1 .. n
      BY <1>4
    <3>2. UNION {Told(log'[j].ops) : j \in 1 .. i - 1} = Posted(1 .. i - 1)
      <4>1. \A j \in 1 .. i - 1 : log'[j] = log[j]
        BY <1>4, <3>1
      <4> QED
        BY <4>1 DEF Posted
    <3>3. CASE i \in 1 .. n
      <4>1. Follows(log[i].ops, Base \cup Posted(1 .. i - 1))
        BY <1>1, <1>4, <3>3 DEF Causal
      <4> QED
        BY <1>4, <3>2, <3>3, <4>1
    <3>4. CASE i = n + 1
      <4>1. Follows(outgoing[s], Base \cup Posted(DOMAIN log))
        BY <1>1 DEF Causal
      <4>2. (n + 1) - 1 = n
        BY <1>4
      <4>3. 1 .. i - 1 = DOMAIN log
        BY <1>4, <3>4, <4>2
      <4> QED
        BY <1>4, <3>2, <3>4, <4>1, <4>3
    <3>5. i \in 1 .. n \/ i = n + 1
      BY <1>4
    <3> QED
      BY <3>3, <3>4, <3>5
  <2>2. \A i : Posted(1 .. i - 1)' = UNION {Told(log'[j].ops) : j \in 1 .. i - 1}
    BY DEF Posted
  <2>3. ASSUME NEW t \in Site
        PROVE  Follows(outgoing'[t], Base \cup Posted(DOMAIN log)')
    <3>1. CASE t = s
      BY <1>5, <3>1, NoneYet
    <3>2. CASE t # s
      <4>1. Base \cup Posted(DOMAIN log) \subseteq Base \cup Posted(DOMAIN log)'
        BY <1>8
      <4>2. Follows(outgoing[t], Base \cup Posted(DOMAIN log))
        BY <1>1 DEF Causal
      <4> QED
        BY <1>5, <3>2, <4>1, <4>2, FollowsGrows
    <3> QED
      BY <3>1, <3>2
  <2> QED
    BY <1>4, <1>12, <2>1, <2>2, <2>3 DEF Causal
<1> QED
  BY <1>1, <1>3, <1>9, <1>10, <1>11, <1>13, <1>14 DEF SharedTextInv

-----------------------------------------------------------------------------
LEMMA InvStep ==
  ASSUME OneMoment, SharedTextInv, [Next]_vars
  PROVE  SharedTextInv'
<1>1. ASSUME NEW s \in Site,
             Insert(s) \/ Delete(s) \/ Join(s) \/ Flush(s) \/ Receive(s) \/ Resume(s)
      PROVE  SharedTextInv'
  BY <1>1, InvInsert, InvDelete, InvJoin, InvFlush, InvReceive, InvResume
<1>2. CASE UNCHANGED vars
  <2>1. /\ UNCHANGED items /\ UNCHANGED seen_deletes /\ UNCHANGED clock /\ UNCHANGED outgoing
        /\ UNCHANGED members /\ UNCHANGED snapshot /\ UNCHANGED log /\ UNCHANGED got
        /\ UNCHANGED chars
    BY <1>2 DEF vars, replica, session, bounds
  <2>2. Typed /\ WellMade(Made) /\ Clocks /\ Texts /\ InSession /\ Informed /\ Causal
    BY InvParts
  <2>3. Made' = Made /\ Typed'
    BY <1>2, <2>1, <2>2, SameMade, TypedStep
  <2>4. Texts' /\ Clocks'
    <3>1. snapshot' # <<>> => Fine(snapshot'[1], Made)
      BY <2>1, <2>2 DEF Texts
    <3> QED
      BY <2>1, <2>2, <2>3, <3>1, SameTexts
  <2>5. InSession'
    BY <2>1, <2>2 DEF InSession, Seed
  <2>6. Base' = Base /\ (\A I : Posted(I)' = Posted(I)) /\ (\A s : Posted(Has(s))' = Posted(Has(s)))
    BY <2>1 DEF Base, Shared, Seed, Posted, Has
  <2>7. Informed' /\ Causal'
    BY <2>1, <2>2, <2>6 DEF Informed, Causal
  <2> QED
    BY <2>2, <2>3, <2>4, <2>5, <2>7 DEF SharedTextInv
<1>3. CASE Next
  BY <1>1, <1>3, InvShare, InvAttach DEF Next
<1> QED
  BY <1>2, <1>3

\* Sites that have received every post show the same text, whatever they typed
\* and deleted at the same time, when they joined and what was delivered again:
\* if all characters of a run take their names at one moment.
THEOREM SharedTextConverges ==
  ASSUME OneMoment
  PROVE  Spec => []Converges
<1>1. Init => SharedTextInv
  BY InvInit
<1>2. SharedTextInv /\ [Next]_vars => SharedTextInv'
  BY InvStep
<1>3. SharedTextInv => Converges
  BY InvConverges
<1> QED
  BY <1>1, <1>2, <1>3, PTL DEF Spec

\* No two sites ever order two characters differently, and every site names a
\* character alike: under the same condition.
THEOREM SharedTextCharactersAgree ==
  ASSUME OneMoment
  PROVE  Spec => []CharactersAgree
<1>1. Init => SharedTextInv
  BY InvInit
<1>2. SharedTextInv /\ [Next]_vars => SharedTextInv'
  BY InvStep
<1>3. SharedTextInv => CharactersAgree
  BY InvAgrees
<1> QED
  BY <1>1, <1>2, <1>3, PTL DEF Spec
=============================================================================
