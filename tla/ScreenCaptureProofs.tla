------------------------ MODULE ScreenCaptureProofs ------------------------
(***************************************************************************)
(* The safety of a shared screen for every set of outputs, geometries,     *)
(* sizes and formats of buffers and any number of events and changes.      *)
(*                                                                         *)
(* Every operator on a screen has a lemma that says what it keeps, then    *)
(* every handler (FrameReadyParts to OutputRemovedParts), then every step. *)
(*                                                                         *)
(* TypeInv is inductive: it ties the client's sessions to the compositor's *)
(* and says that an answer on its way is the only one, to a frame that is  *)
(* waited for (Answered), so that no handler meets a capture without the   *)
(* buffer it reads.                                                        *)
(*                                                                         *)
(* DamageIsEnough needs PictureInv, which follows a cell from the output   *)
(* to the frame function in two steps.  A buffer that was filled holds     *)
(* what its output shows, but for the cells the compositor owes (Filled);  *)
(* what was seen holds what the output shows, but for the cells owed or    *)
(* reported by a frame on its way (Current).  A frame moves cells from the *)
(* first to the second.  That it moves them onto no other output's place   *)
(* needs outputs to lie side by side on the canvas: they do when the       *)
(* outputs themselves do, by the layout (ScreenLayoutProofs), and they do  *)
(* after every event on its way, since the compositor announces an output  *)
(* beside what it last said of the others (OutsClear).  The first frame in *)
(* a new buffer is a whole one, and what was drawn anew was reported as a  *)
(* whole (Sharing, Shown).                                                 *)
(***************************************************************************)
EXTENDS ScreenCapture, ScreenLayoutProofs

-----------------------------------------------------------------------------
(* Some members of a sequence, in order.                                   *)

\* p is made of the members of q at the places `keep`, which f lists.
PickedBy(p, q, keep, f) ==
  /\ f \in [1 .. Len(p) -> keep] /\ \A i \in 1 .. Len(p) : p[i] = q[f[i]]
  /\ \A i, j \in 1 .. Len(p) : i < j => f[i] < f[j]
  /\ \A k \in keep : \E i \in 1 .. Len(p) : f[i] = k

LEMMA PickedAppend ==
  ASSUME NEW T, NEW q \in Seq(T), NEW p \in Seq(T), NEW m \in 1 .. Len(q),
         NEW keep \in SUBSET (1 .. m - 1), NEW f, PickedBy(p, q, keep, f)
  PROVE  \E h : PickedBy(Append(p, q[m]), q, keep \cup {m}, h)
<1> DEFINE n == Len(p)
           w == Append(p, q[m])
           h == [i \in 1 .. n + 1 |-> IF i = n + 1 THEN m ELSE f[i]]
<1>1. /\ n \in Nat /\ w \in Seq(T) /\ Len(w) = n + 1 /\ w[n + 1] = q[m]
      /\ \A i \in 1 .. n : w[i] = p[i]
  OBVIOUS
<1>2. /\ f \in [1 .. n -> keep] /\ \A i \in 1 .. n : p[i] = q[f[i]]
      /\ \A i, j \in 1 .. n : i < j => f[i] < f[j]
      /\ \A k \in keep : \E i \in 1 .. n : f[i] = k
  BY DEF PickedBy
<1> HIDE DEF w
<1>3. h \in [1 .. n + 1 -> keep \cup {m}]
  BY <1>1, <1>2
<1>4. \A i \in 1 .. n + 1 : w[i] = q[h[i]]
  BY <1>1, <1>2
<1>5. ASSUME NEW i \in 1 .. n + 1, NEW j \in 1 .. n + 1, i < j
      PROVE  h[i] < h[j]
  <2>1. i \in 1 .. n /\ h[i] = f[i]
    BY <1>1, <1>5
  <2>4. f[i] \in 1 .. m - 1 /\ m \in Nat
    <3>1. f[i] \in keep
      BY <1>2, <2>1
    <3>2. f[i] \in 1 .. m - 1
      BY <3>1
    <3>3. m \in Nat
      OBVIOUS
    <3> QED
      BY <3>2, <3>3
  <2>2. CASE j = n + 1
    <3>1. h[j] = m
      BY <1>1, <2>2
    <3> QED
      BY <2>1, <2>4, <3>1
  <2>3. CASE j # n + 1
    <3>1. j \in 1 .. n /\ h[j] = f[j]
      BY <1>1, <2>3
    <3> QED
      BY <1>2, <1>5, <2>1, <3>1
  <2> QED
    BY <2>2, <2>3
<1>6. ASSUME NEW k \in keep \cup {m}
      PROVE  \E i \in 1 .. n + 1 : h[i] = k
  <2>1. CASE k = m
    <3>1. n + 1 \in 1 .. n + 1 /\ h[n + 1] = m
      BY <1>1
    <3> QED
      BY <2>1, <3>1
  <2>2. CASE k \in keep
    <3>1. PICK i \in 1 .. n : f[i] = k
      BY <1>2, <2>2
    <3>2. i \in 1 .. n + 1 /\ h[i] = k
      BY <1>1, <3>1
    <3> QED
      BY <3>2
  <2> QED
    BY <2>1, <2>2
<1> HIDE DEF h
<1>7. PickedBy(w, q, keep \cup {m}, h)
  BY <1>1, <1>3, <1>4, <1>5, <1>6 DEF PickedBy
<1> QED
  BY <1>7 DEF w

LEMMA PickedParts ==
  ASSUME NEW T, NEW q \in Seq(T), NEW keep \in SUBSET DOMAIN q
  PROVE  Picked(q, keep) \in Seq(T) /\ \E f : PickedBy(Picked(q, keep), q, keep, f)
<1> DEFINE n == Len(q)
           X == Seq(T)
           Next1(i, x) == IF i \in keep THEN Append(x, q[i]) ELSE x
           G == [p \in Nat \X X |-> Next1(p[1], p[2])]
           picked == CHOOSE f : f = [i \in 0 .. n |->
                       IF i = 0 THEN <<>> ELSE Next1(i, f[i - 1])]
<1>1. n \in Nat /\ DOMAIN q = 1 .. n
  OBVIOUS
<1>2. G \in [Nat \X X -> X]
  <2>1. ASSUME NEW p \in Nat \X X
        PROVE  Next1(p[1], p[2]) \in X
    BY <1>1
  <2> QED
    BY <2>1
<1>3. PICK f \in [0 .. n -> X] :
        f[0] = <<>> /\ \A i \in 1 .. n : f[i] = G[<<i, f[i - 1]>>]
  <2>1. <<>> \in X /\ n \in Nat
    BY <1>1
  <2> HIDE DEF G, n, X
  <2>2. \E f : Computed(f, X, <<>>, G, n)
    BY <1>2, <2>1, StepByStep
  <2> QED
    BY <2>2 DEF Computed
<1>4. ASSUME NEW i \in 1 .. n
      PROVE  f[i] = Next1(i, f[i - 1])
  <2>1. i - 1 \in 0 .. n /\ i \in Nat
    BY <1>1
  <2>2. f[i - 1] \in X
    BY <1>3, <2>1
  <2> DEFINE z == <<i, f[i - 1]>>
  <2>3. z \in Nat \X X /\ z[1] = i /\ z[2] = f[i - 1]
    BY <2>1, <2>2
  <2> HIDE DEF z
  <2>4. G[z] = Next1(i, f[i - 1])
    BY <2>3
  <2> QED
    BY <1>3, <2>4 DEF z
<1>7. Picked(q, keep) = picked[n]
  BY DEF Picked
<1>13. \A i \in 1 .. n, x \in X : i \in keep => Next1(i, x) = Append(x, q[i])
  OBVIOUS
<1>14. \A i, x : i \notin keep => Next1(i, x) = x
  OBVIOUS
<1> HIDE DEF Next1, X, G
<1>5. f = [i \in 0 .. n |-> IF i = 0 THEN <<>> ELSE Next1(i, f[i - 1])]
  BY <1>1, <1>3, <1>4
<1>6. picked = [i \in 0 .. n |-> IF i = 0 THEN <<>> ELSE Next1(i, picked[i - 1])]
  BY <1>5
<1> HIDE DEF picked
<1>8. picked[0] = <<>> /\ \A i \in 1 .. n : picked[i] = Next1(i, picked[i - 1])
  BY <1>1, <1>6
<1> DEFINE upto(i) == keep \cap (1 .. i)
           S == {i \in Nat : i \in 0 .. n =>
                   picked[i] \in X /\ \E h : PickedBy(picked[i], q, upto(i), h)}
<1>9. 0 \in S
  <2>1. PickedBy(<<>>, q, {}, <<>>)
    BY DEF PickedBy
  <2>2. upto(0) = {} /\ 0 \in Nat
    OBVIOUS
  <2>3. picked[0] \in X
    BY <1>8 DEF X
  <2> HIDE DEF upto
  <2> QED
    BY <1>8, <2>1, <2>2, <2>3
<1>10. ASSUME NEW i \in Nat, i \in S
       PROVE  i + 1 \in S
  <2> SUFFICES ASSUME i + 1 \in 1 .. n
               PROVE  /\ picked[i + 1] \in X
                      /\ \E h : PickedBy(picked[i + 1], q, upto(i + 1), h)
    <3> HIDE DEF upto
    <3>1. i + 1 \in Nat /\ (i + 1 \in 0 .. n => i + 1 \in 1 .. n)
      BY <1>1
    <3> QED
      BY <3>1
  <2>1. i \in 0 .. n /\ (i + 1) - 1 = i
    BY <1>1
  <2>2. picked[i] \in X /\ picked[i + 1] = Next1(i + 1, picked[i])
    BY <1>8, <1>10, <2>1
  <2>3. PICK h : PickedBy(picked[i], q, upto(i), h)
    BY <1>10, <2>1
  <2>4. CASE i + 1 \in keep
    <3>1. picked[i + 1] = Append(picked[i], q[i + 1]) /\ q[i + 1] \in T
      BY <1>1, <1>13, <2>2, <2>4
    <3>4. picked[i] \in Seq(T) /\ Append(picked[i], q[i + 1]) \in Seq(T)
      BY <2>2, <3>1 DEF X
    <3>2. upto(i + 1) = upto(i) \cup {i + 1} /\ upto(i) \in SUBSET (1 .. (i + 1) - 1)
      BY <1>1, <2>4
    <3> HIDE DEF upto
    <3>3. \E g : PickedBy(Append(picked[i], q[i + 1]), q, upto(i) \cup {i + 1}, g)
      BY <2>3, <3>2, <3>4, PickedAppend
    <3> QED
      BY <3>1, <3>2, <3>3, <3>4 DEF X
  <2>5. CASE i + 1 \notin keep
    <3>1. picked[i + 1] = picked[i] /\ upto(i + 1) = upto(i)
      BY <1>1, <1>14, <2>2, <2>5
    <3> QED
      BY <2>2, <2>3, <3>1
  <2> QED
    BY <2>4, <2>5
<1>11. n \in S
  <2>1. n \in Nat
    BY <1>1
  <2> HIDE DEF S, n
  <2> QED
    BY <1>9, <1>10, <2>1, Inductive
<1>12. upto(n) = keep /\ n \in 0 .. n
  BY <1>1
<1> QED
  BY <1>7, <1>11, <1>12 DEF X

-----------------------------------------------------------------------------
(* What the screen keeps.                                                  *)

Pictures == UNION {[Cells(z) -> Int] : z \in Nat \X Nat}

CaptureType ==
  [session : BOOLEAN, frame : BOOLEAN, whole : BOOLEAN, pixels : Pictures,
   format : {"none", "ARGB", "XRGB"}, size : Nat \X Nat, pending : Nat \X Nat,
   shm : {"none", "ARGB", "XRGB"}, full : BOOLEAN, has : BOOLEAN, damage : {{}},
   at : Nat \X Nat]

ScreenType ==
  [captures : Seq(Output), cap : [Output -> CaptureType], canvas : Pictures,
   size : Nat \X Nat, damage : SUBSET (Int \X Int), seen : Pictures, told : Nat,
   stopped : BOOLEAN, stopped_idle : BOOLEAN, dead : BOOLEAN, freed : BOOLEAN,
   broken : BOOLEAN]

\* Buffers have their sizes, frames sessions and buffers, sessions captures.
CaptureOK(c) ==
  /\ c.pixels # NoPixels => c.size \in Size /\ DOMAIN c.pixels = Cells(c.size)
  /\ c.frame => c.session /\ c.pixels # NoPixels

Kept(r) ==
  /\ r \in ScreenType
  /\ \A i, j \in DOMAIN r.captures : r.captures[i] = r.captures[j] => i = j
  /\ \A o \in Output : CaptureOK(r.cap[o]) /\ (r.cap[o].session => o \in Captured(r))
  /\ DOMAIN r.canvas = Cells(r.size) /\ r.damage = {}
  /\ r.stopped => \A o \in Output : ~r.cap[o].session
  /\ r.stopped_idle => r.stopped /\ ~r.freed

Known(r, g) == \A o \in Captured(r) : g[o] # Gone

Ended(r) == r.stopped \/ r.dead \/ r.freed \/ r.broken

\* While the screen is shared: a capture without a buffer has no size and no
\* frame, and the first frame in a buffer is a whole one.
Used(c) ==
  /\ c.session
  /\ c.pixels = NoPixels => c.size = <<0, 0>> /\ ~c.has
  /\ c.pixels # NoPixels => c.full = ~c.has /\ c.shm # "none"
  /\ c.frame /\ ~c.has => c.whole

Tiled(r, g) ==
  [i \in DOMAIN r.captures |-> TileOf(g[r.captures[i]], r.cap[r.captures[i]].size)]

\* The layout is that of the outputs as they are.
LaidOut(r, g) ==
  /\ \A i \in DOMAIN r.captures : r.cap[r.captures[i]].at = Offsets(Tiled(r, g))[i]
  /\ r.size = Extent(Tiled(r, g), Offsets(Tiled(r, g)))

SeenWhole(r) ==
  (\E o \in Captured(r) : r.cap[o].has) => DOMAIN r.seen = DOMAIN r.canvas

Sharing(r, g) ==
  /\ r.captures # <<>>
  /\ \A o \in Captured(r) : Used(r.cap[o])
  /\ LaidOut(r, g) /\ SeenWhole(r)

\* Geometries of outputs side by side.
Clear(g, h) ==
  Apart(output_logical(g).at, output_logical(g).size,
        output_logical(h).at, output_logical(h).size)

About(e, o) == e.on = o /\ e.kind \in {"output", "removed"}

\* Outputs are side by side, after every event on its way too.
AllClear(g) ==
  \A o, p \in Output : o # p /\ g[o] # Gone /\ g[p] # Gone => Clear(g[o], g[p])

OutsClear(g, q) ==
  /\ AllClear(g)
  /\ \A j \in DOMAIN q, p \in Output : q[j].kind = "output" /\ q[j].on # p =>
       /\ \A i \in 1 .. j - 1 :
            /\ q[i].kind = "output" /\ q[i].on = p
            /\ \A m \in i + 1 .. j - 1 : ~About(q[m], p)
            => Clear(q[i].arg, q[j].arg)
       /\ (\A m \in 1 .. j - 1 : ~About(q[m], p)) /\ g[p] # Gone
            => Clear(g[p], q[j].arg)

Offered == [size : Size, formats : SUBSET {"ARGB", "XRGB"}]
Event_Type ==
  [on : Output, kind : {"ready"}, arg : SUBSET (Int \X Int)]
  \cup [on : Output, kind : {"failed"}, arg : {"constraints", "stopped", "unknown"}]
  \cup [on : Output, kind : {"constraints"}, arg : Offered]
  \cup [on : Output, kind : {"stopped", "removed"}, arg : {0}]
  \cup [on : Output, kind : {"output"}, arg : ScreenGeometry]

\* A frame is answered once, and only while it is waited for.
Answered(r, q) ==
  /\ \A i \in DOMAIN q : q[i].kind \in {"ready", "failed"} => r.cap[q[i].on].frame
  /\ \A i, j \in DOMAIN q :
       /\ q[i].kind \in {"ready", "failed"} /\ q[j].kind \in {"ready", "failed"}
       /\ q[i].on = q[j].on
       => i = j

\* What the compositor and the screen agree on.
TypeInv ==
  /\ Kept(s) /\ Known(s, outs)
  /\ outs \in [Output -> ScreenGeometry \cup {Gone}]
  /\ events \in Seq(Event_Type) /\ Len(events) <= MaxEvents
  /\ Answered(s, events)
  /\ session \in [Output -> {"none", "new", "on", "stopped"}]
  /\ \A o \in Output : session[o] # "none" <=> s.cap[o].session
  /\ offer \in [Output -> Offered]
  /\ content \in [Output -> Pictures] /\ owed \in [Output -> SUBSET (Int \X Int)]
  /\ \A o \in Output : DOMAIN content[o] = Cells(offer[o].size) /\ owed[o] \subseteq DOMAIN content[o]
  /\ changes \in 0 .. MaxChanges

Pending(o) == \E i \in DOMAIN events : events[i].on = o /\ events[i].kind = "ready"

\* A buffer that was filled holds the content, but for what is owed.
Filled(o) ==
  s.cap[o].has \/ Pending(o) =>
    \A p \in (Cells(s.cap[o].size) \cap DOMAIN content[o]) \ owed[o] :
      s.cap[o].pixels[p] = content[o][p]

\* What was seen of it is the content, but for what is underway.
Current(o) ==
  s.cap[o].has =>
    \A p \in (Cells(s.cap[o].size) \cap DOMAIN content[o]) \ Underway(o) :
      s.seen[Moved(p, s.cap[o].at)] = content[o][p]

PictureInv ==
  /\ OutsClear(outs, events)
  /\ ~Ended(s) => Sharing(s, outs) /\ \A o \in Captured(s) : Filled(o) /\ Current(o)

-----------------------------------------------------------------------------
(* The operators on a screen.                                              *)

LEMMA PictureParts ==
  ASSUME NEW z \in Nat \X Nat
  PROVE  /\ \A c : c \in Cells(z) <=> /\ c \in Nat \X Nat /\ c[1] < z[1] /\ c[2] < z[2]
         /\ \A f \in [Cells(z) -> Int] : f \in Pictures
         /\ \A f \in Pictures : DOMAIN f = Cells(z) => f \in [Cells(z) -> Int]
         /\ Blank(z) \in [Cells(z) -> Int]
         /\ z \in Size <=> Cells(z) # {}
<1>1. ASSUME NEW c
      PROVE  c \in Cells(z) <=> /\ c \in Nat \X Nat /\ c[1] < z[1] /\ c[2] < z[2]
  BY DEF Cells
<1>2. Blank(z) \in [Cells(z) -> Int]
  BY DEF Blank
<1>3. z \in Size <=> Cells(z) # {}
  <2>1. z[1] \in Nat /\ z[2] \in Nat /\ (z \in Size <=> z[1] > 0 /\ z[2] > 0)
    BY DEF Size
  <2>2. ASSUME z[1] > 0, z[2] > 0
        PROVE  <<0, 0>> \in Cells(z)
    BY <2>1, <2>2 DEF Cells
  <2>3. ASSUME NEW c \in Cells(z)
        PROVE  z[1] > 0 /\ z[2] > 0
    <3>1. c[1] \in Nat /\ c[2] \in Nat /\ c[1] < z[1] /\ c[2] < z[2]
      BY <1>1
    <3> QED
      BY <2>1, <3>1
  <2> QED
    BY <2>1, <2>2, <2>3
<1>4. \A f \in [Cells(z) -> Int] : f \in Pictures
  BY DEF Pictures
<1>5. \A f \in Pictures : DOMAIN f = Cells(z) => f \in [Cells(z) -> Int]
  BY DEF Pictures
<1> QED
  BY <1>1, <1>2, <1>3, <1>4, <1>5

\* What no drawing changes.
SameFlags(r, q) ==
  /\ q.captures = r.captures /\ q.told = r.told /\ q.stopped = r.stopped
  /\ q.stopped_idle = r.stopped_idle /\ q.freed = r.freed /\ q.broken = r.broken

LEMMA EmitParts ==
  ASSUME NEW r \in ScreenType, NEW frees \in BOOLEAN,
         DOMAIN r.canvas = Cells(r.size), r.damage \subseteq Cells(r.size)
  PROVE  LET q == screen_emit(r, frees)
             old == IF DOMAIN r.seen = DOMAIN r.canvas THEN r.seen ELSE Blank(r.size)
         IN  /\ q \in ScreenType /\ q.damage = {} /\ SameFlags(r, q)
             /\ q.cap = r.cap /\ q.canvas = r.canvas /\ q.size = r.size
             /\ r.dead \/ r.damage = {} => q.seen = r.seen /\ q.dead = r.dead
             /\ ~r.dead /\ r.damage # {} =>
                  /\ q.dead = frees /\ DOMAIN q.seen = DOMAIN r.canvas
                  /\ \A c \in DOMAIN r.canvas :
                       q.seen[c] = IF c \in r.damage THEN r.canvas[c] ELSE old[c]
<1> DEFINE q == screen_emit(r, frees)
           old == IF DOMAIN r.seen = DOMAIN r.canvas THEN r.seen ELSE Blank(r.size)
           new == [c \in DOMAIN r.canvas |-> IF c \in r.damage THEN r.canvas[c] ELSE old[c]]
<1>1. CASE r.dead \/ r.damage = {}
  <2>1. q = [r EXCEPT !.damage = {}]
    BY <1>1 DEF screen_emit
  <2> HIDE DEF q, old
  <2>2. /\ q \in ScreenType /\ q.damage = {} /\ SameFlags(r, q)
        /\ q.cap = r.cap /\ q.canvas = r.canvas /\ q.size = r.size
        /\ q.dead = r.dead /\ q.seen = r.seen
    BY <2>1 DEF ScreenType, SameFlags
  <2> QED
    BY <1>1, <2>2 DEF q, old
<1>2. CASE ~r.dead /\ r.damage # {}
  <2>1. q = [r EXCEPT !.damage = {}, !.dead = frees, !.seen = new]
    BY <1>2 DEF screen_emit
  <2>2. r.size \in Nat \X Nat /\ r.canvas \in Pictures /\ r.seen \in Pictures
    BY DEF ScreenType
  <2>3. r.canvas \in [Cells(r.size) -> Int] /\ old \in [Cells(r.size) -> Int]
    BY <2>2, PictureParts
  <2>4. new \in [Cells(r.size) -> Int]
    <3> HIDE DEF old
    <3> QED
      BY <2>3
  <2>5. new \in Pictures
    BY <2>2, <2>4, PictureParts
  <2>6. /\ DOMAIN new = DOMAIN r.canvas
        /\ \A c \in DOMAIN r.canvas :
             new[c] = IF c \in r.damage THEN r.canvas[c] ELSE old[c]
    OBVIOUS
  <2> HIDE DEF q, new, old
  <2>7. /\ q \in ScreenType /\ q.damage = {} /\ SameFlags(r, q)
        /\ q.cap = r.cap /\ q.canvas = r.canvas /\ q.size = r.size
        /\ q.dead = frees /\ q.seen = new
    BY <2>1, <2>5 DEF ScreenType, SameFlags
  <2> QED
    BY <1>2, <2>6, <2>7 DEF q, old
<1> QED
  BY <1>1, <1>2 DEF ScreenType


LEMMA CaptureParts ==
  ASSUME NEW c \in CaptureType, CaptureOK(c)
  PROVE  /\ c.size \in Nat \X Nat /\ c.at \in Nat \X Nat
         /\ c.size[1] \in Nat /\ c.size[2] \in Nat /\ c.at[1] \in Nat /\ c.at[2] \in Nat
         /\ c.pixels # NoPixels => c.pixels \in [Cells(c.size) -> Int]
<1>1. c.size \in Nat \X Nat /\ c.at \in Nat \X Nat /\ c.pixels \in Pictures
  BY DEF CaptureType
<1>2. c.pixels # NoPixels => DOMAIN c.pixels = Cells(c.size)
  BY DEF CaptureOK
<1> QED
  BY <1>1, <1>2, PictureParts

\* Moving cells by a place and back.
LEMMA MovedBack ==
  ASSUME NEW c \in Nat \X Nat, NEW by \in Nat \X Nat
  PROVE  /\ Moved(c, by) \in Nat \X Nat
         /\ <<Moved(c, by)[1] - by[1], Moved(c, by)[2] - by[2]>> = c
         /\ Moved(c, by)[1] = c[1] + by[1] /\ Moved(c, by)[2] = c[2] + by[2]
BY DEF Moved

LEMMA MovedTo ==
  ASSUME NEW x \in Nat \X Nat, NEW by \in Nat \X Nat
  PROVE  Moved(<<x[1] - by[1], x[2] - by[2]>>, by) = x
BY DEF Moved

LEMMA BlitParts ==
  ASSUME NEW r \in ScreenType, NEW o \in Output, NEW cells,
         DOMAIN r.canvas = Cells(r.size), r.damage = {}, CaptureOK(r.cap[o])
  PROVE  LET q == blit(r, o, cells)
             c == r.cap[o]
         IN  /\ q \in ScreenType /\ SameFlags(r, q) /\ q.dead = r.dead
             /\ q.cap = r.cap /\ q.size = r.size /\ q.seen = r.seen
             /\ DOMAIN q.canvas = Cells(q.size) /\ q.damage \subseteq Cells(q.size)
             /\ \A x \in q.damage : \E p \in cells \cap Cells(c.size) : x = Moved(p, c.at)
             /\ \A p \in cells \cap Cells(c.size) :
                  c.pixels # NoPixels /\ Moved(p, c.at) \in Cells(r.size) =>
                    Moved(p, c.at) \in q.damage /\ q.canvas[Moved(p, c.at)] = c.pixels[p]
<1> DEFINE q == blit(r, o, cells)
           c == r.cap[o]
           at(p) == Moved(p, c.at)
           back(p) == <<p[1] - c.at[1], p[2] - c.at[2]>>
           inside == IF c.pixels = NoPixels THEN {}
                     ELSE {p \in cells \cap Cells(c.size) : at(p) \in Cells(r.size)}
           hit == {at(p) : p \in inside}
           new == [p \in DOMAIN r.canvas |->
                     IF back(p) \in inside THEN c.pixels[back(p)] ELSE r.canvas[p]]
<1>1. q = [r EXCEPT !.damage = @ \cup hit, !.canvas = new]
  BY DEF blit
<1>2. c \in CaptureType /\ r.size \in Nat \X Nat /\ r.canvas \in Pictures
  BY DEF ScreenType
<1>3. /\ c.size \in Nat \X Nat /\ c.at \in Nat \X Nat
      /\ c.pixels # NoPixels => c.pixels \in [Cells(c.size) -> Int]
  BY <1>2, CaptureParts
<1>4. r.canvas \in [Cells(r.size) -> Int]
  BY <1>2, PictureParts
<1>5. ASSUME NEW p \in inside
      PROVE  /\ p \in cells \cap Cells(c.size) /\ at(p) \in Cells(r.size)
             /\ c.pixels[p] \in Int
  BY <1>3
<1>6. new \in [Cells(r.size) -> Int]
  <2>1. \A p \in DOMAIN r.canvas :
          (IF back(p) \in inside THEN c.pixels[back(p)] ELSE r.canvas[p]) \in Int
    <3> HIDE DEF inside, back
    <3> QED
      BY <1>4, <1>5
  <2> HIDE DEF inside, back
  <2> QED
    BY <2>1
<1>7. new \in Pictures
  BY <1>2, <1>6, PictureParts
<1>8. hit \subseteq Cells(r.size) /\ hit \in SUBSET (Int \X Int)
  <2>1. hit \subseteq Cells(r.size)
    <3> HIDE DEF inside
    <3> QED
      BY <1>5
  <2>2. Cells(r.size) \subseteq Int \X Int
    BY <1>2, PictureParts
  <2> QED
    BY <2>1, <2>2
<1>9. ASSUME NEW p \in cells \cap Cells(c.size), c.pixels # NoPixels, at(p) \in Cells(r.size)
      PROVE  at(p) \in hit /\ new[at(p)] = c.pixels[p]
  <2>1. p \in Nat \X Nat
    BY <1>3, PictureParts
  <2>2. back(at(p)) = p
    BY <1>3, <2>1, MovedBack
  <2>3. p \in inside
    BY <1>9
  <2> HIDE DEF inside, back, at
  <2> QED
    BY <1>9, <2>2, <2>3
<1>10. \A x \in hit : \E p \in cells \cap Cells(c.size) : x = Moved(p, c.at)
  BY <1>5
<1> HIDE DEF q, hit, new
<1>11. /\ q \in ScreenType /\ SameFlags(r, q) /\ q.dead = r.dead
       /\ q.cap = r.cap /\ q.size = r.size /\ q.seen = r.seen
       /\ q.damage = hit /\ q.canvas = new
  BY <1>1, <1>7, <1>8 DEF ScreenType, SameFlags
<1> QED
  BY <1>6, <1>8, <1>9, <1>10, <1>11 DEF q


\* A cell of the canvas is of one of two captures that are apart.
LEMMA NotBoth ==
  ASSUME NEW a \in Nat \X Nat, NEW z \in Nat \X Nat, NEW b \in Nat \X Nat,
         NEW w \in Nat \X Nat, Apart(a, z, b, w),
         NEW p \in Cells(z), NEW v \in Cells(w)
  PROVE  Moved(p, a) # Moved(v, b)
<1>1. PICK k \in Axis : a[k] + z[k] <= b[k] \/ b[k] + w[k] <= a[k]
  BY DEF Apart
<1>2. /\ p \in Nat \X Nat /\ p[1] < z[1] /\ p[2] < z[2]
      /\ v \in Nat \X Nat /\ v[1] < w[1] /\ v[2] < w[2]
  BY PictureParts
<1>3. Moved(p, a)[k] = p[k] + a[k] /\ Moved(v, b)[k] = v[k] + b[k]
  BY DEF Moved, Axis
<1>4. /\ p[k] \in Nat /\ v[k] \in Nat /\ p[k] < z[k] /\ v[k] < w[k]
      /\ a[k] \in Nat /\ b[k] \in Nat /\ z[k] \in Nat /\ w[k] \in Nat
  BY <1>2 DEF Axis
<1>5. p[k] + a[k] # v[k] + b[k]
  BY <1>1, <1>4
<1> QED
  BY <1>3, <1>5

LEMMA RedrawnParts ==
  ASSUME NEW r \in ScreenType, NEW z \in Nat \X Nat, \A o \in Output : CaptureOK(r.cap[o])
  PROVE  LET q == Redrawn(r, z)
             c(i) == r.cap[r.captures[i]]
         IN  /\ q \in ScreenType /\ SameFlags(r, q) /\ q.dead = r.dead
             /\ q.cap = r.cap /\ q.seen = r.seen /\ q.damage = r.damage
             /\ q.size = z /\ DOMAIN q.canvas = Cells(z)
             /\ \A i \in DOMAIN r.captures :
                  /\ c(i).has /\ c(i).pixels # NoPixels
                  /\ \A j \in DOMAIN r.captures :
                       i # j /\ c(j).has /\ c(j).pixels # NoPixels =>
                         Apart(c(i).at, c(i).size, c(j).at, c(j).size)
                  => \A p \in Cells(c(i).size) : Moved(p, c(i).at) \in Cells(z) =>
                       q.canvas[Moved(p, c(i).at)] = c(i).pixels[p]
<1> DEFINE q == Redrawn(r, z)
           D == DOMAIN r.captures
           c(i) == r.cap[r.captures[i]]
           from(i, p) == <<p[1] - c(i).at[1], p[2] - c(i).at[2]>>
           there(p) == {i \in DOMAIN r.captures :
                          /\ c(i).has /\ c(i).pixels # NoPixels
                          /\ from(i, p) \in Cells(c(i).size)}
           top(p) == CHOOSE i \in there(p) : \A j \in there(p) : j <= i
           value(p) == IF there(p) = {} THEN 0 ELSE c(top(p)).pixels[from(top(p), p)]
           new == [p \in Cells(z) |-> value(p)]
<1>1. q = [r EXCEPT !.size = z, !.canvas = new]
  BY DEF Redrawn
<1>2. \E n \in Nat : D = 1 .. n
  <2>1. r.captures \in Seq(Output)
    BY DEF ScreenType
  <2> QED
    BY <2>1
<1>3. ASSUME NEW i \in D
      PROVE  /\ c(i) \in CaptureType /\ CaptureOK(c(i))
             /\ c(i).size \in Nat \X Nat /\ c(i).at \in Nat \X Nat
             /\ c(i).pixels # NoPixels => c(i).pixels \in [Cells(c(i).size) -> Int]
  <2>1. r.captures[i] \in Output /\ r.cap \in [Output -> CaptureType]
    BY DEF ScreenType
  <2>2. c(i) \in CaptureType /\ CaptureOK(c(i))
    BY <2>1
  <2> HIDE DEF c
  <2> QED
    BY <2>2, CaptureParts
<1>4. ASSUME NEW p \in Cells(z), there(p) # {}
      PROVE  top(p) \in there(p)
  <2>1. PICK n \in Nat : D = 1 .. n
    BY <1>2
  <2>2. there(p) \in SUBSET (1 .. n)
    BY <2>1
  <2> HIDE DEF there
  <2>3. \E i \in there(p) : \A j \in there(p) : j <= i
    BY <1>4, <2>2, LastOf
  <2> QED
    BY <2>3
<1>5. ASSUME NEW p \in Cells(z)
      PROVE  value(p) \in Int
  <2>1. CASE there(p) = {}
    <3> HIDE DEF there, top, from, c
    <3>1. value(p) = 0
      BY <2>1
    <3> QED
      BY <3>1
  <2>2. CASE there(p) # {}
    <3> DEFINE i == top(p)
    <3>1. i \in there(p)
      BY <1>4, <2>2
    <3> HIDE DEF i
    <3>2. i \in D /\ c(i).pixels # NoPixels /\ from(i, p) \in Cells(c(i).size)
      BY <3>1
    <3>3. c(i).pixels \in [Cells(c(i).size) -> Int]
      BY <1>3, <3>2
    <3> HIDE DEF c, from
    <3>4. c(i).pixels[from(i, p)] \in Int
      BY <3>2, <3>3
    <3>5. value(p) = c(i).pixels[from(i, p)]
      BY <2>2 DEF i
    <3> QED
      BY <3>4, <3>5
  <2> QED
    BY <2>1, <2>2
<1>6. new \in Pictures /\ DOMAIN new = Cells(z)
  <2> HIDE DEF value
  <2>1. new \in [Cells(z) -> Int]
    BY <1>5
  <2> QED
    BY <2>1, PictureParts
<1>7. ASSUME NEW i \in D, c(i).has, c(i).pixels # NoPixels,
             \A j \in D : i # j /\ c(j).has /\ c(j).pixels # NoPixels =>
               Apart(c(i).at, c(i).size, c(j).at, c(j).size),
             NEW p \in Cells(c(i).size), Moved(p, c(i).at) \in Cells(z)
      PROVE  new[Moved(p, c(i).at)] = c(i).pixels[p]
  <2> DEFINE x == Moved(p, c(i).at)
  <2>1. p \in Nat \X Nat /\ x \in Nat \X Nat /\ from(i, x) = p
    <3>1. p \in Nat \X Nat
      BY <1>3, PictureParts
    <3> QED
      BY <1>3, <3>1, MovedBack
  <2>2. i \in there(x)
    BY <1>7, <2>1
  <2>3. ASSUME NEW j \in there(x), j # i
        PROVE  FALSE
    <3>1. j \in D /\ c(j).has /\ c(j).pixels # NoPixels /\ from(j, x) \in Cells(c(j).size)
      OBVIOUS
    <3>2. Apart(c(i).at, c(i).size, c(j).at, c(j).size)
      BY <1>7, <2>3, <3>1
    <3>3. Moved(from(j, x), c(j).at) = x
      BY <1>3, <2>1, <3>1, MovedTo
    <3> HIDE DEF from
    <3>5. /\ c(i).at \in Nat \X Nat /\ c(i).size \in Nat \X Nat
          /\ c(j).at \in Nat \X Nat /\ c(j).size \in Nat \X Nat
      BY <1>3, <3>1
    <3> HIDE DEF c
    <3>4. Moved(p, c(i).at) # Moved(from(j, x), c(j).at)
      BY <3>1, <3>2, <3>5, NotBoth
    <3> QED
      BY <3>3, <3>4
  <2> HIDE DEF there, from, x
  <2>4. there(x) = {i}
    BY <2>2, <2>3
  <2>5. top(x) = i
    BY <1>4, <1>7, <2>4 DEF x
  <2>6. value(x) = c(i).pixels[p]
    BY <2>1, <2>4, <2>5
  <2> QED
    BY <1>7, <2>6 DEF x
<1> HIDE DEF q, new
<1>8. /\ q \in ScreenType /\ SameFlags(r, q) /\ q.dead = r.dead
      /\ q.cap = r.cap /\ q.seen = r.seen /\ q.damage = r.damage
      /\ q.size = z /\ q.canvas = new
  BY <1>1, <1>6 DEF ScreenType, SameFlags
<1> QED
  BY <1>6, <1>7, <1>8 DEF q

\* Where a layout puts the captures.
LEMMA TiledParts ==
  ASSUME NEW r \in ScreenType, NEW g \in [Output -> ScreenGeometry \cup {Gone}], Known(r, g)
  PROVE  LET tt == Tiled(r, g)
             off == Offsets(tt)
             z == Extent(tt, off)
             c(i) == r.cap[r.captures[i]]
         IN  /\ DOMAIN tt = DOMAIN r.captures /\ off \in [DOMAIN r.captures -> Nat \X Nat]
             /\ z \in Nat \X Nat
             /\ \A i \in DOMAIN r.captures :
                  /\ off[i] \in Nat \X Nat
                  /\ \A p \in Cells(c(i).size) : Moved(p, off[i]) \in Cells(z)
                  /\ \A j \in DOMAIN r.captures :
                       /\ i # j /\ Clear(g[r.captures[i]], g[r.captures[j]])
                       /\ c(i).size \in Size /\ c(j).size \in Size
                       => Apart(off[i], c(i).size, off[j], c(j).size)
<1> DEFINE tt == Tiled(r, g)
           off == Offsets(tt)
           z == Extent(tt, off)
           c(i) == r.cap[r.captures[i]]
           D == DOMAIN r.captures
<1>1. D = 1 .. Len(r.captures) /\ Len(r.captures) \in Nat
  <2>1. r.captures \in Seq(Output)
    BY DEF ScreenType
  <2> QED
    BY <2>1
<1>2. ASSUME NEW i \in D
      PROVE  /\ r.captures[i] \in Output /\ GeometryOK(g[r.captures[i]])
             /\ c(i).size \in Nat \X Nat
  <2>1. r.captures[i] \in Output /\ r.captures[i] \in Captured(r)
    BY DEF ScreenType, Captured
  <2>2. g[r.captures[i]] \in ScreenGeometry
    BY <2>1 DEF Known
  <2>3. c(i) \in CaptureType
    BY <2>1 DEF ScreenType
  <2> HIDE DEF c
  <2> QED
    BY <2>1, <2>2, <2>3, ScreenAssumption DEF CaptureType
<1>3. ASSUME NEW i \in D
      PROVE  /\ tt[i] \in TileType
             /\ c(i).size \in Size => tt[i].pixels = c(i).size
             /\ tt[i].at = output_logical(g[r.captures[i]]).at
             /\ tt[i].size = output_logical(g[r.captures[i]]).size
  <2>1. tt[i] = TileOf(g[r.captures[i]], c(i).size)
    BY DEF Tiled
  <2> HIDE DEF tt
  <2>2. tt[i] \in TileType
    BY <1>2, <2>1, TileOK
  <2>3. c(i).size \in Size => c(i).size[1] > 0
    BY DEF Size
  <2> HIDE DEF c
  <2> QED
    BY <2>1, <2>2, <2>3 DEF TileOf
<1>4. tt \in Seq(TileType) /\ DOMAIN tt = D /\ Len(tt) = Len(r.captures)
  <2>1. tt = [i \in 1 .. Len(r.captures) |-> TileOf(g[r.captures[i]], c(i).size)]
    BY <1>1 DEF Tiled
  <2>2. tt \in [1 .. Len(r.captures) -> TileType]
    <3> HIDE DEF tt
    <3> QED
      BY <1>1, <1>3, <2>1
  <2> HIDE DEF tt
  <2> QED
    BY <1>1, <2>2
<1> HIDE DEF tt
<1>5. /\ off \in Offset(Len(tt)) /\ \A k \in Axis, i \in D : Settled(tt, off, i, k)
  BY <1>4, AllSettled DEF Axis
<1>6. off \in [D -> Nat \X Nat]
  BY <1>1, <1>4, <1>5 DEF Offset
<1> HIDE DEF off
<1>7. /\ z = <<z[1], z[2]>> /\ z[1] \in Nat /\ z[2] \in Nat
      /\ \A k \in Axis, i \in D : off[i][k] + tt[i].pixels[k] <= z[k]
  BY <1>4, <1>5, ExtentNat DEF Axis
<1> HIDE DEF z
<1>8. z \in Nat \X Nat
  BY <1>7
<1>9. ASSUME NEW i \in D, NEW p \in Cells(c(i).size)
      PROVE  Moved(p, off[i]) \in Cells(z)
  <2>1. /\ p \in Nat \X Nat /\ p[1] < c(i).size[1] /\ p[2] < c(i).size[2]
        /\ c(i).size \in Size
    BY <1>2, PictureParts
  <2>2. tt[i].pixels = c(i).size
    BY <1>3, <2>1
  <2>3. off[i][1] + c(i).size[1] <= z[1] /\ off[i][2] + c(i).size[2] <= z[2]
    BY <1>7, <2>2 DEF Axis
  <2>4. /\ Moved(p, off[i]) \in Nat \X Nat
        /\ Moved(p, off[i])[1] = p[1] + off[i][1] /\ Moved(p, off[i])[2] = p[2] + off[i][2]
    BY <1>6, <2>1, MovedBack
  <2>5. /\ c(i).size[1] \in Nat /\ c(i).size[2] \in Nat
        /\ off[i][1] \in Nat /\ off[i][2] \in Nat /\ p[1] \in Nat /\ p[2] \in Nat
    BY <1>2, <1>6, <2>1
  <2> HIDE DEF c
  <2>6. Moved(p, off[i])[1] < z[1] /\ Moved(p, off[i])[2] < z[2]
    BY <1>7, <2>1, <2>3, <2>4, <2>5
  <2> QED
    BY <1>8, <2>4, <2>6, PictureParts
<1>10. ASSUME NEW i \in D, NEW j \in D, i # j,
              Clear(g[r.captures[i]], g[r.captures[j]]),
              c(i).size \in Size, c(j).size \in Size
       PROVE  Apart(off[i], c(i).size, off[j], c(j).size)
  <2>1. Apart(tt[i].at, tt[i].size, tt[j].at, tt[j].size)
    BY <1>3, <1>10 DEF Clear
  <2>2. tt[i].pixels = c(i).size /\ tt[j].pixels = c(j).size
    BY <1>3, <1>10
  <2>3. Apart(off[i], tt[i].pixels, off[j], tt[j].pixels)
    BY <1>4, <1>10, <2>1, LaidApart DEF off
  <2> QED
    BY <2>2, <2>3
<1> QED
  BY <1>4, <1>6, <1>8, <1>9, <1>10 DEF tt, off, z


ClearAll(r, g) ==
  \A i, j \in DOMAIN r.captures : i # j => Clear(g[r.captures[i]], g[r.captures[j]])

\* A capture with a frame has the buffer it is in.
Fit(r) == \A o \in Captured(r) : r.cap[o].has => r.cap[o].pixels # NoPixels

\* Nothing new was drawn, or every buffer with a frame is seen.
Shown(r, q) ==
  \/ q.seen = r.seen /\ \A o \in Captured(q) : q.cap[o].has => q.cap[o].at = r.cap[o].at
  \/ \A o \in Captured(q) : q.cap[o].has =>
       \A p \in Cells(q.cap[o].size) :
         q.seen[Moved(p, q.cap[o].at)] = q.cap[o].pixels[p]

\* Only the places of captures differ.
SameCaptures(r, q) == \A o \in Output : q.cap[o] = [r.cap[o] EXCEPT !.at = q.cap[o].at]

LEMMA SameParts ==
  ASSUME NEW c \in CaptureType, NEW d, d = [c EXCEPT !.at = d.at]
  PROVE  /\ d.session = c.session /\ d.frame = c.frame /\ d.whole = c.whole
         /\ d.pixels = c.pixels /\ d.format = c.format /\ d.size = c.size
         /\ d.pending = c.pending /\ d.shm = c.shm /\ d.full = c.full /\ d.has = c.has
         /\ d.damage = c.damage
         /\ CaptureOK(c) => CaptureOK(d)
         /\ Used(c) => Used(d)
<1>1. /\ d.session = c.session /\ d.frame = c.frame /\ d.whole = c.whole
      /\ d.pixels = c.pixels /\ d.format = c.format /\ d.size = c.size
      /\ d.pending = c.pending /\ d.shm = c.shm /\ d.full = c.full /\ d.has = c.has
      /\ d.damage = c.damage
  BY DEF CaptureType
<1> QED
  BY <1>1 DEF CaptureOK, Used

\* The captures where a layout puts them.
Placed(r, off) ==
  [r EXCEPT !.cap = [o \in Output |->
     IF o \in Captured(r)
       THEN [r.cap[o] EXCEPT !.at = off[CHOOSE i \in DOMAIN off : r.captures[i] = o]]
       ELSE r.cap[o]]]

LEMMA PlacedParts ==
  ASSUME NEW r, Kept(r), NEW off \in [DOMAIN r.captures -> Nat \X Nat]
  PROVE  LET q == Placed(r, off)
         IN  /\ q \in ScreenType /\ SameFlags(r, q) /\ q.dead = r.dead
             /\ q.canvas = r.canvas /\ q.size = r.size /\ q.seen = r.seen
             /\ q.damage = r.damage
             /\ SameCaptures(r, q)
             /\ \A i \in DOMAIN r.captures : q.cap[r.captures[i]].at = off[i]
             /\ (\A i \in DOMAIN r.captures : off[i] = r.cap[r.captures[i]].at) => q.cap = r.cap
<1> DEFINE D == DOMAIN r.captures
           place(o) == off[CHOOSE i \in DOMAIN off : r.captures[i] = o]
           put(o) == [r.cap[o] EXCEPT !.at = place(o)]
           new == [o \in Output |-> IF o \in Captured(r) THEN put(o) ELSE r.cap[o]]
           q == Placed(r, off)
<1>1. q = [r EXCEPT !.cap = new]
  BY DEF Placed
<1>2. r \in ScreenType /\ r.cap \in [Output -> CaptureType] /\ DOMAIN off = D
  BY DEF Kept, ScreenType
<1>3. ASSUME NEW i \in D
      PROVE  r.captures[i] \in Output /\ r.captures[i] \in Captured(r) /\ place(r.captures[i]) = off[i]
  <2>1. r.captures[i] \in Output /\ r.captures[i] \in Captured(r)
    BY <1>2 DEF ScreenType, Captured
  <2>2. \A j \in D : r.captures[j] = r.captures[i] => j = i
    BY DEF Kept
  <2> QED
    BY <1>2, <2>1, <2>2
<1>4. ASSUME NEW o \in Captured(r)
      PROVE  place(o) \in Nat \X Nat
  <2>1. PICK i \in D : o = r.captures[i]
    BY DEF Captured
  <2> HIDE DEF place
  <2> QED
    BY <1>3, <2>1
<1> HIDE DEF place
<1>5. ASSUME NEW o \in Output, o \in Captured(r)
      PROVE  put(o) \in CaptureType /\ put(o).at = place(o)
  <2>1. r.cap[o] \in CaptureType /\ place(o) \in Nat \X Nat
    BY <1>2, <1>4, <1>5
  <2> QED
    BY <2>1 DEF CaptureType
<1>6. ASSUME NEW o \in Output
      PROVE  new[o] \in CaptureType /\ new[o] = [r.cap[o] EXCEPT !.at = new[o].at]
  <2>1. CASE o \in Captured(r)
    <3>1. new[o] = put(o)
      BY <2>1
    <3> HIDE DEF new
    <3> QED
      BY <1>5, <2>1, <3>1
  <2>2. CASE o \notin Captured(r)
    <3>1. new[o] = r.cap[o] /\ r.cap[o] \in CaptureType
      BY <1>2, <2>2
    <3> HIDE DEF new
    <3> QED
      BY <3>1 DEF CaptureType
  <2> QED
    BY <2>1, <2>2
<1>7. ASSUME NEW i \in D
      PROVE  new[r.captures[i]].at = off[i]
  <2>1. new[r.captures[i]] = put(r.captures[i])
    BY <1>3
  <2> HIDE DEF new, put
  <2> QED
    BY <1>3, <1>5, <2>1
<1>8. ASSUME \A i \in D : off[i] = r.cap[r.captures[i]].at
      PROVE  new = r.cap
  <2>1. ASSUME NEW o \in Output
        PROVE  new[o] = r.cap[o]
    <3>1. CASE o \in Captured(r)
      <4>1. PICK i \in D : o = r.captures[i]
        BY <3>1 DEF Captured
      <4>2. new[o].at = r.cap[o].at
        <5> HIDE DEF new
        <5> QED
          BY <1>7, <1>8, <4>1
      <4>3. r.cap[o] \in CaptureType
        BY <1>2
      <4> HIDE DEF new
      <4> QED
        BY <1>6, <4>2, <4>3 DEF CaptureType
    <3>2. CASE o \notin Captured(r)
      BY <3>2
    <3> QED
      BY <3>1, <3>2
  <2>2. DOMAIN new = Output /\ DOMAIN r.cap = Output /\ new = [o \in Output |-> new[o]]
    BY <1>2
  <2>3. r.cap = [o \in Output |-> r.cap[o]]
    BY <1>2
  <2> HIDE DEF new
  <2> QED
    BY <2>1, <2>2, <2>3
<1>9. new \in [Output -> CaptureType]
  <2>1. new = [o \in Output |-> new[o]]
    OBVIOUS
  <2> HIDE DEF new
  <2> QED
    BY <1>6, <2>1
<1> HIDE DEF new
<1> HIDE DEF q
<1>10. /\ q \in ScreenType /\ SameFlags(r, q) /\ q.dead = r.dead
       /\ q.canvas = r.canvas /\ q.size = r.size /\ q.seen = r.seen
       /\ q.damage = r.damage /\ q.cap = new
  BY <1>1, <1>2, <1>9 DEF ScreenType, SameFlags
<1> QED
  BY <1>6, <1>7, <1>8, <1>10 DEF SameCaptures, q

LEMMA DrawnKept ==
  ASSUME NEW r, Kept(r), NEW q \in ScreenType, SameFlags(r, q), SameCaptures(r, q),
         DOMAIN q.canvas = Cells(q.size), q.damage = {}
  PROVE  /\ Kept(q) /\ Captured(q) = Captured(r)
         /\ \A o \in Output : q.cap[o].has = r.cap[o].has /\ q.cap[o].pixels = r.cap[o].pixels
                              /\ q.cap[o].size = r.cap[o].size
         /\ \A g : Tiled(q, g) = Tiled(r, g)
<1>1. r \in ScreenType /\ q.captures = r.captures
  BY DEF Kept, SameFlags
<1>2. ASSUME NEW o \in Output
      PROVE  /\ q.cap[o].has = r.cap[o].has /\ q.cap[o].pixels = r.cap[o].pixels
             /\ q.cap[o].size = r.cap[o].size /\ q.cap[o].session = r.cap[o].session
             /\ CaptureOK(q.cap[o])
  <2> DEFINE c == r.cap[o]
             d == q.cap[o]
  <2>1. c \in CaptureType /\ CaptureOK(c) /\ d = [c EXCEPT !.at = d.at]
    BY <1>1 DEF Kept, ScreenType, SameCaptures
  <2> HIDE DEF c, d
  <2>2. d.has = c.has /\ d.pixels = c.pixels /\ d.size = c.size /\ d.session = c.session /\ CaptureOK(d)
    BY <2>1, SameParts
  <2> QED
    BY <2>2 DEF c, d
<1>3. Captured(q) = Captured(r)
  BY <1>1 DEF Captured
<1>4. Kept(q)
  BY <1>1, <1>2, <1>3 DEF Kept, SameFlags
<1>5. ASSUME NEW g
      PROVE  Tiled(q, g) = Tiled(r, g)
  <2>1. \A i \in DOMAIN r.captures : r.captures[i] \in Output
    BY <1>1 DEF ScreenType
  <2> QED
    BY <1>1, <1>2, <2>1 DEF Tiled
<1> QED
  BY <1>2, <1>3, <1>4, <1>5

LEMMA LayoutParts ==
  ASSUME NEW r, Kept(r), NEW g \in [Output -> ScreenGeometry \cup {Gone}], Known(r, g),
         NEW frees \in BOOLEAN
  PROVE  LET q == screen_layout(r, g, frees)
         IN  /\ Kept(q) /\ SameFlags(r, q) /\ SameCaptures(r, q)
             /\ r.dead => q.dead /\ q.seen = r.seen
             /\ (\A o \in Captured(r) : ~r.cap[o].has) => q.dead = r.dead
             /\ q.captures # <<>> => LaidOut(q, g)
             /\ Fit(r) /\ ~q.dead => (SeenWhole(r) => SeenWhole(q)) /\ (ClearAll(r, g) => Shown(r, q))
<1> DEFINE D == DOMAIN r.captures
           c(i) == r.cap[r.captures[i]]
           tiles0 == [i \in DOMAIN r.captures |->
                        TileOf(g[r.captures[i]], r.cap[r.captures[i]].size)]
           off == Offsets(tiles0)
           z == Extent(tiles0, off)
           p == Placed(r, off)
           w == Redrawn(p, z)
           v == [w EXCEPT !.damage = Cells(z)]
           any == \E o \in Captured(r) : r.cap[o].has
           q == screen_layout(r, g, frees)
<1>1. q = IF r.captures = <<>> THEN r
          ELSE IF SameLayout(r, off, z) THEN p
          ELSE IF ~any THEN [w EXCEPT !.damage = {}]
          ELSE screen_emit(v, frees)
  BY DEF screen_layout, Placed
<1>2. tiles0 = Tiled(r, g)
  BY DEF Tiled
<1> HIDE DEF q, tiles0
<1>3. r \in ScreenType
  BY DEF Kept
<1>4. /\ DOMAIN tiles0 = D /\ off \in [D -> Nat \X Nat] /\ z \in Nat \X Nat
      /\ \A i \in D :
           /\ \A x \in Cells(c(i).size) : Moved(x, off[i]) \in Cells(z)
           /\ \A j \in D :
                /\ i # j /\ Clear(g[r.captures[i]], g[r.captures[j]])
                /\ c(i).size \in Size /\ c(j).size \in Size
                => Apart(off[i], c(i).size, off[j], c(j).size)
  BY <1>2, <1>3, TiledParts
<1>5. /\ p \in ScreenType /\ SameFlags(r, p) /\ p.dead = r.dead
      /\ p.canvas = r.canvas /\ p.size = r.size /\ p.seen = r.seen
      /\ p.damage = r.damage /\ SameCaptures(r, p)
      /\ \A i \in D : p.cap[r.captures[i]].at = off[i]
      /\ (\A i \in D : off[i] = r.cap[r.captures[i]].at) => p.cap = r.cap
  BY <1>4, PlacedParts
<1>6. off = Offsets(Tiled(r, g)) /\ z = Extent(Tiled(r, g), off)
  BY <1>2
<1> HIDE DEF off, z, p
<1>7. /\ r.damage = {} /\ DOMAIN r.canvas = Cells(r.size) /\ r.captures = p.captures
      /\ r.seen \in Pictures /\ r.canvas \in Pictures
  BY <1>5 DEF Kept, SameFlags, ScreenType
<1>8. Kept(p) /\ Captured(p) = Captured(r)
  BY <1>5, <1>7, DrawnKept
\* A screen whose captures are those of p, on a canvas of size z, is laid out.
<1>9. ASSUME NEW u \in ScreenType, SameFlags(p, u), u.cap = p.cap, u.damage = {},
             DOMAIN u.canvas = Cells(u.size)
      PROVE  /\ Kept(u) /\ SameFlags(r, u) /\ SameCaptures(r, u)
             /\ Captured(u) = Captured(r)
             /\ u.size = z => LaidOut(u, g)
             /\ \A o \in Output : u.cap[o].has = r.cap[o].has
  <2>1. SameFlags(r, u) /\ SameCaptures(r, u)
    BY <1>5, <1>9 DEF SameFlags, SameCaptures
  <2>2. /\ Kept(u) /\ Captured(u) = Captured(r) /\ Tiled(u, g) = Tiled(r, g)
        /\ \A o \in Output : u.cap[o].has = r.cap[o].has
    BY <1>9, <2>1, DrawnKept
  <2>3. \A i \in DOMAIN u.captures : u.cap[u.captures[i]].at = off[i]
    BY <1>5, <1>9, <2>1 DEF SameFlags
  <2> QED
    BY <1>6, <2>1, <2>2, <2>3 DEF LaidOut
<1>10. CASE r.captures = <<>>
  <2>1. q = r
    BY <1>1, <1>10
  <2>2. SameFlags(r, r) /\ SameCaptures(r, r)
    <3>1. \A o \in Output : r.cap[o] \in CaptureType
      BY <1>3 DEF ScreenType
    <3> QED
      BY <3>1 DEF SameFlags, SameCaptures, CaptureType
  <2> QED
    BY <1>10, <2>1, <2>2 DEF Shown, q
<1>11. CASE r.captures # <<>> /\ SameLayout(r, off, z)
  <2>1. q = p
    BY <1>1, <1>11
  <2>2. /\ z = r.size /\ p.cap = r.cap
    <3>1. \A i \in D : off[i] = r.cap[r.captures[i]].at
      BY <1>4, <1>11 DEF SameLayout
    <3> QED
      BY <1>5, <1>11, <3>1 DEF SameLayout
  <2>3. SameFlags(p, p)
    BY DEF SameFlags
  <2>4. /\ Kept(p) /\ SameFlags(r, p) /\ SameCaptures(r, p) /\ LaidOut(p, g)
    BY <1>5, <1>7, <1>9, <2>2, <2>3
  <2>5. SeenWhole(r) => SeenWhole(p)
    BY <1>5, <1>8, <2>2 DEF SeenWhole
  <2>6. Shown(r, p)
    BY <1>5, <2>2 DEF Shown
  <2> QED
    BY <1>5, <2>1, <2>4, <2>5, <2>6 DEF q
<1>12. \A o \in Output : CaptureOK(p.cap[o])
  BY <1>8 DEF Kept
<1> DEFINE a(i) == p.cap[p.captures[i]]
<1>13. /\ w \in ScreenType /\ SameFlags(p, w) /\ w.dead = p.dead
       /\ w.cap = p.cap /\ w.seen = p.seen /\ w.damage = p.damage
       /\ w.size = z /\ DOMAIN w.canvas = Cells(z)
       /\ \A i \in DOMAIN p.captures :
            /\ a(i).has /\ a(i).pixels # NoPixels
            /\ \A j \in DOMAIN p.captures :
                 i # j /\ a(j).has /\ a(j).pixels # NoPixels =>
                   Apart(a(i).at, a(i).size, a(j).at, a(j).size)
            => \A x \in Cells(a(i).size) : Moved(x, a(i).at) \in Cells(z) =>
                 w.canvas[Moved(x, a(i).at)] = a(i).pixels[x]
  BY <1>4, <1>5, <1>12, RedrawnParts
<1> HIDE DEF w
<1>14. ASSUME r.captures # <<>>, ~SameLayout(r, off, z), ~any
       PROVE  /\ Kept(q) /\ SameFlags(r, q) /\ SameCaptures(r, q)
              /\ q.dead = r.dead /\ q.seen = r.seen
              /\ q.captures # <<>> => LaidOut(q, g)
              /\ SeenWhole(q) /\ Shown(r, q)
  <2>1. q = [w EXCEPT !.damage = {}]
    BY <1>1, <1>14
  <2>2. /\ q \in ScreenType /\ SameFlags(p, q) /\ q.dead = w.dead /\ q.cap = p.cap
        /\ q.seen = w.seen /\ q.damage = {} /\ q.size = z /\ DOMAIN q.canvas = Cells(q.size)
    BY <1>13, <2>1 DEF ScreenType, SameFlags
  <2>3. /\ Kept(q) /\ SameFlags(r, q) /\ SameCaptures(r, q) /\ LaidOut(q, g)
        /\ Captured(q) = Captured(r) /\ \A o \in Output : q.cap[o].has = r.cap[o].has
    BY <1>9, <2>2
  <2>4. \A o \in Captured(q) : ~q.cap[o].has
    <3>1. Captured(r) \subseteq Output
      BY <1>3 DEF ScreenType, Captured
    <3> QED
      BY <1>14, <2>3, <3>1
  <2>5. SeenWhole(q) /\ Shown(r, q)
    BY <2>4 DEF SeenWhole, Shown
  <2> QED
    BY <1>5, <1>13, <2>2, <2>3, <2>5
<1>15. ASSUME r.captures # <<>>, ~SameLayout(r, off, z), any
       PROVE  /\ Kept(q) /\ SameFlags(r, q) /\ SameCaptures(r, q)
              /\ r.dead => q.dead /\ q.seen = r.seen
              /\ q.captures # <<>> => LaidOut(q, g)
              /\ Fit(r) /\ ~q.dead => SeenWhole(q) /\ (ClearAll(r, g) => Shown(r, q))
  <2>1. q = screen_emit(v, frees)
    BY <1>1, <1>15
  <2>2. /\ v \in ScreenType /\ SameFlags(p, v) /\ v.dead = w.dead /\ v.cap = p.cap
        /\ v.seen = w.seen /\ v.damage = Cells(z) /\ v.size = z
        /\ v.canvas = w.canvas /\ DOMAIN v.canvas = Cells(v.size)
    <3>1. Cells(z) \in SUBSET (Int \X Int)
      BY <1>4, PictureParts
    <3> QED
      BY <1>13, <3>1 DEF ScreenType, SameFlags
  <2> HIDE DEF v
  <2>3. /\ q \in ScreenType /\ q.damage = {} /\ SameFlags(v, q)
        /\ q.cap = v.cap /\ q.canvas = v.canvas /\ q.size = v.size
        /\ v.dead \/ v.damage = {} => q.seen = v.seen /\ q.dead = v.dead
        /\ ~v.dead /\ v.damage # {} =>
             /\ q.dead = frees /\ DOMAIN q.seen = DOMAIN v.canvas
             /\ \A x \in DOMAIN v.canvas : x \in v.damage => q.seen[x] = v.canvas[x]
    BY <2>1, <2>2, EmitParts
  <2>4. SameFlags(p, q)
    BY <2>2, <2>3 DEF SameFlags
  <2>5. /\ Kept(q) /\ SameFlags(r, q) /\ SameCaptures(r, q) /\ LaidOut(q, g)
        /\ Captured(q) = Captured(r) /\ \A o \in Output : q.cap[o].has = r.cap[o].has
    BY <1>9, <2>2, <2>3, <2>4
  <2>6. r.dead => q.dead /\ q.seen = r.seen
    BY <1>5, <1>13, <2>2, <2>3
  <2>7. ASSUME Fit(r), ~q.dead
        PROVE  SeenWhole(q) /\ (ClearAll(r, g) => Shown(r, q))
    <3>1. ASSUME NEW i \in D, c(i).has
          PROVE  /\ r.captures[i] \in Output /\ r.captures[i] \in Captured(r)
                 /\ c(i).size \in Size /\ c(i).size \in Nat \X Nat
                 /\ a(i).has /\ a(i).size = c(i).size /\ a(i).pixels = c(i).pixels
                 /\ a(i).pixels # NoPixels /\ a(i).at = off[i]
      <4>1. r.captures[i] \in Output /\ r.captures[i] \in Captured(r)
        BY <1>3 DEF ScreenType, Captured
      <4>2. c(i).pixels # NoPixels
        BY <2>7, <3>1, <4>1 DEF Fit
      <4>3. c(i).size \in Size /\ c(i).size \in Nat \X Nat
        BY <4>1, <4>2 DEF Kept, CaptureOK, Size
      <4> DEFINE d == r.cap[r.captures[i]]
                 e == p.cap[r.captures[i]]
      <4>4. d \in CaptureType /\ e = [d EXCEPT !.at = e.at]
        BY <1>3, <1>5, <4>1 DEF ScreenType, SameCaptures
      <4> HIDE DEF d, e
      <4>5. e.has = d.has /\ e.size = d.size /\ e.pixels = d.pixels
        BY <4>4, SameParts
      <4>6. e.at = off[i]
        BY <1>5 DEF e
      <4>7. a(i) = e
        BY <1>7 DEF e
      <4> QED
        BY <3>1, <4>1, <4>2, <4>3, <4>5, <4>6, <4>7 DEF d
    <3>2. v.damage # {}
      <4>1. PICK i \in D : c(i).has
        BY <1>15 DEF Captured
      <4>2. c(i).size \in Nat \X Nat /\ c(i).size \in Size
        BY <3>1, <4>1
      <4>3. PICK x \in Cells(c(i).size) : TRUE
        <5> HIDE DEF c
        <5> QED
          BY <4>2, PictureParts
      <4> QED
        BY <1>4, <2>2, <4>3
    <3>3. ~v.dead
      BY <2>3, <2>7
    <3>4. SeenWhole(q)
      BY <2>3, <3>2, <3>3 DEF SeenWhole
    <3>5. ASSUME ClearAll(r, g), NEW i \in D, a(i).has, NEW x \in Cells(a(i).size)
          PROVE  q.seen[Moved(x, a(i).at)] = a(i).pixels[x]
      <4>1. ASSUME NEW j \in D, a(j).has
            PROVE  c(j).has
        <5>1. r.captures[j] \in Output /\ p.captures[j] = r.captures[j]
          BY <1>3, <1>7 DEF ScreenType
        <5> QED
          BY <1>5, <2>2, <2>3, <2>5, <4>1, <5>1
      <4>2. ASSUME NEW j \in D, i # j, a(j).has, a(j).pixels # NoPixels
            PROVE  Apart(a(i).at, a(i).size, a(j).at, a(j).size)
        <5>1. c(i).has /\ c(j).has
          BY <3>5, <4>1, <4>2
        <5>2. /\ a(i).at = off[i] /\ a(j).at = off[j]
              /\ a(i).size = c(i).size /\ a(j).size = c(j).size
              /\ c(i).size \in Size /\ c(j).size \in Size
          BY <3>1, <5>1
        <5>3. Clear(g[r.captures[i]], g[r.captures[j]])
          BY <3>5, <4>2 DEF ClearAll
        <5>4. Apart(off[i], c(i).size, off[j], c(j).size)
          BY <1>4, <4>2, <5>2, <5>3
        <5> HIDE DEF a, c
        <5> QED
          BY <5>2, <5>4
      <4>3. /\ a(i).pixels # NoPixels /\ a(i).at = off[i] /\ a(i).size = c(i).size
            /\ i \in DOMAIN p.captures /\ D = DOMAIN p.captures
        BY <1>7, <3>1, <3>5, <4>1
      <4>4. Moved(x, a(i).at) \in Cells(z)
        BY <1>4, <3>5, <4>3
      <4> HIDE DEF a, c
      <4>5. w.canvas[Moved(x, a(i).at)] = a(i).pixels[x]
        BY <1>13, <3>5, <4>2, <4>3, <4>4
      <4> QED
        BY <2>2, <2>3, <3>2, <3>3, <4>4, <4>5
    <3>6. ASSUME ClearAll(r, g)
          PROVE  Shown(r, q)
      <4>1. ASSUME NEW o \in Captured(q), q.cap[o].has, NEW x \in Cells(q.cap[o].size)
            PROVE  q.seen[Moved(x, q.cap[o].at)] = q.cap[o].pixels[x]
        <5>1. PICK i \in D : o = r.captures[i]
          BY <2>5 DEF Captured
        <5>2. a(i) = q.cap[o]
          BY <1>7, <2>2, <2>3, <5>1
        <5> HIDE DEF a
        <5> QED
          BY <3>5, <3>6, <4>1, <5>2
      <4> QED
        BY <4>1 DEF Shown
    <3> QED
      BY <3>4, <3>6
  <2> QED
    BY <2>5, <2>6, <2>7
<1> QED
  BY <1>10, <1>11, <1>14, <1>15 DEF q

-----------------------------------------------------------------------------
(* The operations on one capture.                                          *)

With(r, o, d) == [r EXCEPT !.cap[o] = d]

\* What is on the canvas and what was seen of it.
SameCanvas(r, q) ==
  q.dead = r.dead /\ q.seen = r.seen /\ q.canvas = r.canvas /\ q.size = r.size /\ q.damage = r.damage

OthersSame(r, q, o) == \A p \in Output \ {o} : q.cap[p] = r.cap[p]

LEMMA WithParts ==
  ASSUME NEW r \in ScreenType, NEW o \in Output, NEW d \in CaptureType
  PROVE  LET q == With(r, o, d)
         IN  /\ q \in ScreenType /\ SameFlags(r, q) /\ SameCanvas(r, q)
             /\ q.cap[o] = d /\ OthersSame(r, q, o) /\ Captured(q) = Captured(r)
             /\ Kept(r) /\ CaptureOK(d) /\ (d.session => r.cap[o].session)
                  => Kept(q)
<1> DEFINE q == With(r, o, d)
           new == [r.cap EXCEPT ![o] = d]
<1>1. new \in [Output -> CaptureType] /\ new[o] = d /\ \A p \in Output \ {o} : new[p] = r.cap[p]
  BY DEF ScreenType
<1>2. q = [r EXCEPT !.cap = new]
  BY DEF With, ScreenType
<1> HIDE DEF new, q
<1>3. /\ q \in ScreenType /\ SameFlags(r, q) /\ SameCanvas(r, q) /\ q.cap = new
  BY <1>1, <1>2 DEF ScreenType, SameFlags, SameCanvas
<1>4. Captured(q) = Captured(r)
  BY <1>3 DEF SameFlags, Captured
<1>5. OthersSame(r, q, o) /\ q.cap[o] = d
  BY <1>1, <1>3 DEF OthersSame
<1>6. ASSUME Kept(r), CaptureOK(d), d.session => r.cap[o].session
      PROVE  Kept(q)
  <2>1. ASSUME NEW p \in Output
        PROVE  CaptureOK(q.cap[p]) /\ (q.cap[p].session => r.cap[p].session)
    <3>1. CASE p = o
      BY <1>5, <1>6, <3>1
    <3>2. CASE p # o
      BY <1>5, <1>6, <3>2 DEF OthersSame, Kept
    <3> QED
      BY <3>1, <3>2
  <2> QED
    BY <1>3, <1>4, <1>6, <2>1 DEF Kept, SameFlags, SameCanvas
<1> QED
  BY <1>3, <1>4, <1>5, <1>6 DEF q

LEMMA NoCaptureParts ==
  /\ NoCapture \in CaptureType /\ CaptureOK(NoCapture)
  /\ ~NoCapture.session /\ ~NoCapture.frame /\ ~NoCapture.has
<1>1. NoPixels \in Pictures
  <2> DEFINE z == <<0, 0>>
  <2>1. z \in Nat \X Nat /\ z[1] = 0
    OBVIOUS
  <2> HIDE DEF z
  <2>2. Cells(z) = {}
    BY <2>1 DEF Cells
  <2>3. NoPixels \in [Cells(z) -> Int]
    BY <2>2 DEF NoPixels
  <2> QED
    BY <2>1, <2>3, PictureParts
<1> DEFINE n == NoPixels
           z == <<0, 0>>
<1>2. NoCapture = [session |-> FALSE, frame |-> FALSE, whole |-> FALSE, pixels |-> n,
   format |-> "none", size |-> z, pending |-> z, shm |-> "none",
   full |-> FALSE, has |-> FALSE, damage |-> {}, at |-> z]
  BY DEF NoCapture
<1>3. z \in Nat \X Nat /\ n \in Pictures
  BY <1>1
<1> HIDE DEF n, z
<1>4. NoCapture \in CaptureType /\ ~NoCapture.session /\ ~NoCapture.frame /\ ~NoCapture.has /\ NoCapture.pixels = n
  BY <1>2, <1>3 DEF CaptureType
<1> QED
  BY <1>4 DEF CaptureOK, n

LEMMA NextParts ==
  ASSUME NEW r, Kept(r), NEW o \in Output
  PROVE  LET q == capture_next(r, o)
             c == r.cap[o]
             d == q.cap[o]
         IN  /\ Kept(q) /\ SameFlags(r, q) /\ SameCanvas(r, q) /\ OthersSame(r, q, o)
             /\ d.session = c.session /\ d.has = c.has /\ d.size = c.size
             /\ d.pixels = c.pixels /\ d.at = c.at
             /\ c.frame => d.frame
             /\ Used(c) => Used(d)
<1> DEFINE c == r.cap[o]
           d == [c EXCEPT !.frame = TRUE, !.whole = c.full]
           q == capture_next(r, o)
<1>1. r \in ScreenType /\ c \in CaptureType /\ CaptureOK(c)
  BY DEF Kept, ScreenType
<1>2. CASE ~c.session \/ c.pixels = NoPixels \/ c.frame
  <2>1. q = r
    BY <1>2 DEF capture_next
  <2> QED
    BY <2>1 DEF SameFlags, SameCanvas, OthersSame
<1>3. CASE ~(~c.session \/ c.pixels = NoPixels \/ c.frame)
  <2>1. q = With(r, o, d)
    BY <1>1, <1>3 DEF capture_next, With, ScreenType
  <2> HIDE DEF c
  <2>2. /\ d \in CaptureType /\ d.session = c.session /\ d.has = c.has /\ d.size = c.size
        /\ d.pixels = c.pixels /\ d.at = c.at /\ d.full = c.full /\ d.frame /\ d.whole = c.full /\ d.shm = c.shm
    BY <1>1 DEF CaptureType
  <2> HIDE DEF d, q
  <2>3. CaptureOK(d) /\ (Used(c) => Used(d))
    BY <1>1, <1>3, <2>2 DEF CaptureOK, Used
  <2>4. /\ Kept(q) /\ SameFlags(r, q) /\ SameCanvas(r, q) /\ OthersSame(r, q, o)
        /\ q.cap[o] = d
    BY <1>1, <2>1, <2>2, <2>3, WithParts DEF c
  <2> QED
    BY <2>2, <2>3, <2>4 DEF c, q
<1> QED
  BY <1>2, <1>3

LEMMA StoppedParts ==
  ASSUME NEW r, Kept(r), ~r.freed
  PROVE  LET q == screen_emit_stopped(r)
         IN  /\ Kept(q) /\ SameCanvas(r, q) /\ q.told = r.told /\ q.freed = r.freed
             /\ q.broken = r.broken /\ q.captures = r.captures
             /\ q.stopped /\ \A o \in Output : ~q.cap[o].session
<1> DEFINE q == screen_emit_stopped(r)
           new == [o \in Output |-> capture_stop(r.cap[o])]
<1>1. r \in ScreenType
  BY DEF Kept
<1>2. CASE r.stopped
  BY <1>2 DEF screen_emit_stopped, Kept, SameCanvas
<1>3. CASE ~r.stopped
  <2>1. q = [r EXCEPT !.stopped = TRUE, !.stopped_idle = TRUE, !.cap = new]
    BY <1>3 DEF screen_emit_stopped
  <2>2. ASSUME NEW o \in Output
        PROVE  new[o] \in CaptureType /\ ~new[o].session /\ CaptureOK(new[o])
    <3> DEFINE c == r.cap[o]
               d == capture_stop(c)
               n == NoPixels
    <3>1. c \in CaptureType /\ n \in Pictures
      <4>1. NoCapture.pixels = NoPixels
        BY DEF NoCapture
      <4> QED
        BY <1>1, <4>1, NoCaptureParts DEF ScreenType, CaptureType
    <3>2. d = [c EXCEPT !.frame = FALSE, !.whole = FALSE, !.session = FALSE, !.pixels = n]
      BY DEF capture_stop
    <3>3. new[o] = d
      OBVIOUS
    <3>4. n = NoPixels
      OBVIOUS
    <3> HIDE DEF c, d, n
    <3>5. d \in CaptureType /\ ~d.session /\ ~d.frame /\ d.pixels = n
      BY <3>1, <3>2 DEF CaptureType
    <3> QED
      BY <3>3, <3>4, <3>5 DEF CaptureOK
  <2>3. new \in [Output -> CaptureType]
    <3>1. new = [o \in Output |-> new[o]]
      OBVIOUS
    <3> HIDE DEF new
    <3> QED
      BY <2>2, <3>1
  <2> HIDE DEF new, q
  <2>4. /\ q \in ScreenType /\ SameCanvas(r, q) /\ q.told = r.told /\ q.freed = r.freed
        /\ q.broken = r.broken /\ q.captures = r.captures /\ q.cap = new /\ q.stopped
        /\ q.stopped_idle
    BY <1>1, <2>1, <2>3 DEF ScreenType, SameCanvas
  <2> QED
    BY <2>2, <2>4 DEF Kept, SameCanvas, Captured, q
<1> QED
  BY <1>2, <1>3

LEMMA FreedParts ==
  ASSUME NEW r, Kept(r)
  PROVE  LET q == rd_screen_free(r)
         IN  /\ Kept(q) /\ SameCanvas(r, q) /\ q.told = r.told /\ q.freed
             /\ q.captures = <<>> /\ \A o \in Output : ~q.cap[o].session
<1> DEFINE q == rd_screen_free(r)
           new == [o \in Output |-> NoCapture]
           none == <<>>
<1>1. r \in ScreenType
  BY DEF Kept
<1>2. /\ new \in [Output -> CaptureType] /\ none \in Seq(Output)
      /\ \A o \in Output : new[o] = NoCapture
  BY NoCaptureParts
<1>3. q = [r EXCEPT !.freed = TRUE, !.stopped_idle = FALSE, !.captures = none, !.cap = new]
  BY DEF rd_screen_free
<1>4. DOMAIN none = {}
  OBVIOUS
<1>5. none = <<>>
  OBVIOUS
<1> HIDE DEF q, new, none
<1>6. /\ q \in ScreenType /\ SameCanvas(r, q) /\ q.told = r.told /\ q.freed /\ ~q.stopped_idle
      /\ q.captures = none /\ q.cap = new
  BY <1>1, <1>2, <1>3 DEF ScreenType, SameCanvas
<1> QED
  BY <1>2, <1>4, <1>5, <1>6, NoCaptureParts DEF Kept, SameCanvas, q

\* What every handler does: a screen that is dead stays so, and nothing is
\* seen of it.
Handled(r, q) ==
  /\ Kept(q) /\ q.told = r.told /\ (r.dead => q.dead /\ q.seen = r.seen)
  /\ r.stopped => q.stopped \/ q.freed

\* Frames, other than those of o, are still waited for, in the same buffers.
FramesKept(r, q, o) ==
  \A p \in Output \ {o} : r.cap[p].frame /\ q.cap[p].session =>
    /\ q.cap[p].frame /\ q.cap[p].pixels = r.cap[p].pixels
    /\ q.cap[p].size = r.cap[p].size

\* Nothing has moved.
SamePlaces(r, q) ==
  /\ q.captures = r.captures /\ q.size = r.size
  /\ \A o \in Output : q.cap[o].at = r.cap[o].at /\ q.cap[o].size = r.cap[o].size

LEMMA PlacesParts ==
  ASSUME NEW r \in ScreenType, NEW q, SamePlaces(r, q), NEW g
  PROVE  Captured(q) = Captured(r) /\ (LaidOut(r, g) => LaidOut(q, g))
<1>1. \A i \in DOMAIN r.captures : r.captures[i] \in Output
  BY DEF ScreenType
<1>2. Tiled(q, g) = Tiled(r, g)
  BY <1>1 DEF Tiled, SamePlaces
<1>3. Captured(q) = Captured(r)
  BY DEF Captured, SamePlaces
<1> QED
  BY <1>1, <1>2, <1>3 DEF LaidOut, SamePlaces

LEMMA DroppedParts ==
  ASSUME NEW r, Kept(r), NEW o \in Output
  PROVE  LET q == Dropped(r, o)
         IN  /\ Kept(q) /\ SameCanvas(r, q) /\ OthersSame(r, q, o)
             /\ q.told = r.told /\ q.stopped = r.stopped /\ q.freed = r.freed
             /\ q.broken = r.broken
             /\ ~q.cap[o].session /\ ~q.cap[o].has
             /\ Captured(q) = Captured(r) \ {o}
<1> DEFINE q == Dropped(r, o)
           D == DOMAIN r.captures
           keep == {i \in DOMAIN r.captures : r.captures[i] # o}
           left == Picked(r.captures, keep)
           new == [r.cap EXCEPT ![o] = NoCapture]
<1>1. r \in ScreenType /\ r.captures \in Seq(Output)
  BY DEF Kept, ScreenType
<1>2. q = [r EXCEPT !.captures = left, !.cap = new]
  BY <1>1 DEF Dropped, ScreenType
<1>3. /\ new \in [Output -> CaptureType] /\ new[o] = NoCapture
      /\ \A p \in Output \ {o} : new[p] = r.cap[p]
  BY <1>1, NoCaptureParts DEF ScreenType
<1>4. left \in Seq(Output) /\ \E f : PickedBy(left, r.captures, keep, f)
  BY <1>1, PickedParts
<1>5. PICK f : PickedBy(left, r.captures, keep, f)
  BY <1>4
<1>6. /\ f \in [1 .. Len(left) -> keep] /\ \A i \in 1 .. Len(left) : left[i] = r.captures[f[i]]
      /\ \A i, j \in 1 .. Len(left) : i < j => f[i] < f[j]
      /\ \A k \in keep : \E i \in 1 .. Len(left) : f[i] = k
  BY <1>5 DEF PickedBy
<1>7. DOMAIN left = 1 .. Len(left) /\ Len(left) \in Nat
  BY <1>4
<1> HIDE DEF new, left, q
<1>8. /\ q \in ScreenType /\ SameCanvas(r, q) /\ q.cap = new /\ q.captures = left
      /\ q.told = r.told /\ q.stopped = r.stopped /\ q.freed = r.freed
      /\ q.broken = r.broken /\ q.stopped_idle = r.stopped_idle
  BY <1>1, <1>2, <1>3, <1>4 DEF ScreenType, SameCanvas
<1>9. ASSUME NEW i \in 1 .. Len(left)
      PROVE  left[i] \in Captured(r) /\ left[i] # o
  <2>1. f[i] \in D /\ r.captures[f[i]] # o /\ left[i] = r.captures[f[i]]
    BY <1>6
  <2> QED
    BY <2>1 DEF Captured
<1>10. ASSUME NEW p \in Captured(r), p # o
       PROVE  p \in Captured(q)
  <2>1. PICK k \in D : r.captures[k] = p
    BY DEF Captured
  <2>2. k \in keep
    BY <1>10, <2>1
  <2>3. PICK i \in 1 .. Len(left) : f[i] = k
    BY <1>6, <2>2
  <2>4. left[i] = p
    BY <1>6, <2>1, <2>3
  <2> QED
    BY <1>7, <1>8, <2>4 DEF Captured
<1>11. Captured(q) = Captured(r) \ {o}
  <2>1. \A p \in Captured(q) : p \in Captured(r) /\ p # o
    BY <1>7, <1>8, <1>9 DEF Captured
  <2> QED
    BY <1>10, <2>1
<1>12. ASSUME NEW i \in DOMAIN left, NEW j \in DOMAIN left, left[i] = left[j]
       PROVE  i = j
  <2>1. f[i] \in D /\ f[j] \in D /\ r.captures[f[i]] = r.captures[f[j]]
    BY <1>6, <1>7, <1>12
  <2>2. f[i] = f[j]
    BY <2>1 DEF Kept
  <2>3. f[i] \in Int /\ f[j] \in Int /\ i \in Int /\ j \in Int
    BY <1>1, <1>7, <2>1
  <2> QED
    BY <1>6, <1>7, <1>12, <2>2, <2>3
<1>13. ASSUME NEW p \in Output
       PROVE  CaptureOK(q.cap[p]) /\ (q.cap[p].session => r.cap[p].session /\ p # o)
  <2>1. CASE p = o
    BY <1>3, <1>8, <2>1, NoCaptureParts
  <2>2. CASE p # o
    BY <1>3, <1>8, <2>2 DEF Kept
  <2> QED
    BY <2>1, <2>2
<1>14. Kept(q)
  BY <1>8, <1>11, <1>12, <1>13 DEF Kept, SameCanvas
<1> QED
  BY <1>3, <1>8, <1>11, <1>14, NoCaptureParts DEF OthersSame, q

LEMMA AddedParts ==
  ASSUME NEW r, Kept(r), NEW o \in Output, o \notin Captured(r), ~r.stopped
  PROVE  LET q == screen_add_capture(r, o)
         IN  /\ Kept(q) /\ SameCanvas(r, q) /\ OthersSame(r, q, o)
             /\ q.told = r.told /\ q.stopped = r.stopped /\ q.freed = r.freed
             /\ q.broken = r.broken /\ q.captures # <<>>
             /\ Used(q.cap[o]) /\ ~q.cap[o].has /\ q.cap[o].session
             /\ Captured(q) = Captured(r) \cup {o}
<1> DEFINE q == screen_add_capture(r, o)
           n == Len(r.captures)
           more == Append(r.captures, o)
           d == [NoCapture EXCEPT !.session = TRUE]
           new == [r.cap EXCEPT ![o] = d]
<1>1. r \in ScreenType /\ r.captures \in Seq(Output)
  BY DEF Kept, ScreenType
<1>2. /\ n \in Nat /\ DOMAIN r.captures = 1 .. n /\ more \in Seq(Output)
      /\ DOMAIN more = 1 .. n + 1 /\ more[n + 1] = o
      /\ \A i \in 1 .. n : more[i] = r.captures[i]
  BY <1>1
<1>3. /\ d \in CaptureType /\ d.session /\ ~d.frame /\ ~d.has /\ d.pixels = NoPixels
      /\ d.size = <<0, 0>>
  <2> DEFINE c == NoCapture
  <2>1. /\ c \in CaptureType /\ ~c.frame /\ ~c.has /\ c.pixels = NoPixels /\ c.size = <<0, 0>>
    BY NoCaptureParts DEF NoCapture
  <2>2. d = [c EXCEPT !.session = TRUE]
    OBVIOUS
  <2> HIDE DEF c, d
  <2> QED
    BY <2>1, <2>2 DEF CaptureType
<1>4. CaptureOK(d) /\ Used(d)
  <2> HIDE DEF d
  <2> QED
    BY <1>3 DEF CaptureOK, Used
<1>5. q = [r EXCEPT !.captures = more, !.cap = new]
  BY <1>1 DEF screen_add_capture, ScreenType
<1> HIDE DEF d
<1>6. /\ new \in [Output -> CaptureType] /\ new[o] = d
      /\ \A p \in Output \ {o} : new[p] = r.cap[p]
  BY <1>1, <1>3 DEF ScreenType
<1> HIDE DEF new, more, q, n
<1>7. /\ q \in ScreenType /\ SameCanvas(r, q) /\ q.cap = new /\ q.captures = more
      /\ q.told = r.told /\ q.stopped = r.stopped /\ q.freed = r.freed
      /\ q.broken = r.broken /\ q.stopped_idle = r.stopped_idle
  BY <1>1, <1>2, <1>5, <1>6 DEF ScreenType, SameCanvas
<1>8. Captured(q) = Captured(r) \cup {o}
  <2>1. \A i \in 1 .. n + 1 : i = n + 1 \/ i \in 1 .. n
    BY <1>2
  <2>2. n + 1 \in 1 .. n + 1 /\ \A i \in 1 .. n : i \in 1 .. n + 1
    BY <1>2
  <2>3. \A p \in Captured(q) : p \in Captured(r) \/ p = o
    BY <1>2, <1>7, <2>1 DEF Captured
  <2>4. \A p \in Captured(r) : p \in Captured(q)
    BY <1>2, <1>7, <2>2 DEF Captured
  <2>5. o \in Captured(q)
    BY <1>2, <1>7, <2>2 DEF Captured
  <2> QED
    BY <2>3, <2>4, <2>5
<1>9. ASSUME NEW i \in 1 .. n + 1, NEW j \in 1 .. n + 1, more[i] = more[j]
      PROVE  i = j
  <2>1. ASSUME NEW k \in 1 .. n
        PROVE  more[k] \in Captured(r) /\ more[k] # o
    BY <1>2 DEF Captured
  <2>2. \A k \in 1 .. n + 1 : k = n + 1 \/ k \in 1 .. n
    BY <1>2
  <2>3. CASE i \in 1 .. n /\ j \in 1 .. n
    BY <1>2, <1>9, <2>3 DEF Kept
  <2>4. CASE i = n + 1 \/ j = n + 1
    BY <1>2, <1>9, <2>1, <2>2, <2>4
  <2> QED
    BY <2>2, <2>3, <2>4
<1>10. ASSUME NEW p \in Output
       PROVE  CaptureOK(q.cap[p]) /\ (q.cap[p].session => p \in Captured(q))
  <2>1. CASE p = o
    BY <1>4, <1>6, <1>7, <1>8, <2>1
  <2>2. CASE p # o
    BY <1>6, <1>7, <1>8, <2>2 DEF Kept
  <2> QED
    BY <2>1, <2>2
<1>11. Kept(q)
  BY <1>2, <1>7, <1>9, <1>10 DEF Kept, SameCanvas
<1>12. q.captures # <<>>
  BY <1>2, <1>7
<1> QED
  BY <1>3, <1>4, <1>6, <1>7, <1>8, <1>11, <1>12 DEF OthersSame, q

-----------------------------------------------------------------------------
(* The handlers.                                                           *)

\* The cells a frame brings that were not seen before.
NewCells(c, damage) == IF ~c.has \/ c.full THEN Cells(c.size) ELSE c.damage \cup damage

\* What is seen of the frame: its new cells, and what was seen elsewhere.
Seen(r, q, o, cells) ==
  LET c == r.cap[o]
  IN  /\ \A p \in cells \cap Cells(c.size) : Moved(p, c.at) \in Cells(r.size) =>
           DOMAIN q.seen = Cells(r.size) /\ q.seen[Moved(p, c.at)] = c.pixels[p]
      /\ DOMAIN r.seen = Cells(r.size) =>
           /\ DOMAIN q.seen = Cells(r.size)
           /\ \A x \in Cells(r.size) :
                (\A p \in cells \cap Cells(c.size) : x # Moved(p, c.at)) => q.seen[x] = r.seen[x]

LEMMA FrameReadyParts ==
  ASSUME NEW r, Kept(r), ~r.freed, NEW o \in Output, r.cap[o].frame, NEW damage,
         NEW frees \in BOOLEAN
  PROVE  LET q == frame_ready(r, o, damage, frees)
             c == r.cap[o]
             d == q.cap[o]
         IN  /\ Handled(r, q) /\ FramesKept(r, q, o) /\ Captured(q) \subseteq Captured(r)
             /\ q.dead => q.freed
             /\ ~q.dead =>
                  /\ SameFlags(r, q) /\ SamePlaces(r, q) /\ OthersSame(r, q, o)
                  /\ DOMAIN q.canvas = DOMAIN r.canvas
                  /\ d.pixels = c.pixels /\ d.pixels # NoPixels /\ d.has
                  /\ Used(c) => Used(d)
                  /\ Seen(r, q, o, NewCells(c, damage))
<1> DEFINE c == r.cap[o]
           e == [c EXCEPT !.frame = FALSE, !.full = FALSE, !.has = TRUE, !.damage = {}]
           got == With(r, o, e)
           cells == NewCells(c, damage)
           drawn == blit(got, o, cells)
           done == screen_emit(drawn, frees)
           q == frame_ready(r, o, damage, frees)
<1>1. r \in ScreenType /\ c \in CaptureType /\ CaptureOK(c) /\ r.damage = {} /\ DOMAIN r.canvas = Cells(r.size)
  BY DEF Kept, ScreenType
<1>2. q = IF done.dead THEN rd_screen_free(done) ELSE capture_next(done, o)
  <2>1. got = [r EXCEPT !.cap[o].frame = FALSE, !.cap[o].full = FALSE,
                        !.cap[o].has = TRUE, !.cap[o].damage = {}]
    BY <1>1 DEF With, ScreenType
  <2> QED
    BY <2>1 DEF frame_ready, NewCells
<1>3. /\ e \in CaptureType /\ e.session = c.session /\ ~e.frame
      /\ e.full = FALSE /\ e.has = TRUE /\ e.shm = c.shm
      /\ e.pixels = c.pixels /\ e.size = c.size /\ e.at = c.at
  BY <1>1 DEF CaptureType
<1>4. c.session /\ c.pixels # NoPixels
  BY <1>1 DEF CaptureOK
<1> HIDE DEF c, e
<1>5. CaptureOK(e) /\ (Used(c) => Used(e))
  BY <1>1, <1>3, <1>4 DEF CaptureOK, Used
<1>6. /\ Kept(got) /\ SameFlags(r, got) /\ SameCanvas(r, got) /\ got.cap[o] = e
      /\ OthersSame(r, got, o)
  BY <1>1, <1>3, <1>4, <1>5, WithParts DEF c
<1> HIDE DEF got, cells
<1>7. got \in ScreenType /\ DOMAIN got.canvas = Cells(got.size) /\ got.damage = {}
  BY <1>6 DEF Kept
<1>8. /\ drawn \in ScreenType /\ SameFlags(got, drawn) /\ drawn.dead = got.dead
      /\ drawn.cap = got.cap /\ drawn.size = got.size /\ drawn.seen = got.seen
      /\ DOMAIN drawn.canvas = Cells(drawn.size) /\ drawn.damage \subseteq Cells(drawn.size)
      /\ \A x \in drawn.damage : \E p \in cells \cap Cells(e.size) : x = Moved(p, e.at)
      /\ \A p \in cells \cap Cells(e.size) :
           e.pixels # NoPixels /\ Moved(p, e.at) \in Cells(got.size) =>
             Moved(p, e.at) \in drawn.damage /\ drawn.canvas[Moved(p, e.at)] = e.pixels[p]
  BY <1>5, <1>6, <1>7, BlitParts
<1> HIDE DEF drawn
<1> DEFINE old == IF DOMAIN drawn.seen = DOMAIN drawn.canvas THEN drawn.seen ELSE Blank(drawn.size)
<1>9. /\ done \in ScreenType /\ done.damage = {} /\ SameFlags(drawn, done)
      /\ done.cap = drawn.cap /\ done.canvas = drawn.canvas /\ done.size = drawn.size
      /\ drawn.dead \/ drawn.damage = {} => done.seen = drawn.seen /\ done.dead = drawn.dead
      /\ ~drawn.dead /\ drawn.damage # {} =>
           /\ done.dead = frees /\ DOMAIN done.seen = DOMAIN drawn.canvas
           /\ \A x \in DOMAIN drawn.canvas :
                done.seen[x] = IF x \in drawn.damage THEN drawn.canvas[x] ELSE old[x]
  BY <1>8, EmitParts
<1> HIDE DEF done, old
<1>10. /\ SameFlags(r, done) /\ done.cap = got.cap /\ done.size = r.size
       /\ r.dead => done.dead /\ done.seen = r.seen
  BY <1>6, <1>8, <1>9 DEF SameFlags, SameCanvas
<1>11. Kept(done) /\ Captured(done) = Captured(r)
  BY <1>6, <1>8, <1>9, <1>10 DEF Kept, SameFlags, Captured
<1>12. CASE done.dead
  <2>1. q = rd_screen_free(done)
    BY <1>2, <1>12
  <2> HIDE DEF q
  <2>2. /\ Kept(q) /\ SameCanvas(done, q) /\ q.told = done.told /\ q.freed
        /\ q.captures = <<>> /\ \A p \in Output : ~q.cap[p].session
    BY <1>11, <2>1, FreedParts
  <2>3. Handled(r, q) /\ FramesKept(r, q, o) /\ Captured(q) \subseteq Captured(r) /\ q.dead
    BY <1>10, <1>12, <2>2 DEF Handled, FramesKept, SameCanvas, SameFlags, Captured
  <2> QED
    BY <2>2, <2>3 DEF q
<1>13. CASE ~done.dead
  <2> DEFINE d == q.cap[o]
  <2>1. q = capture_next(done, o)
    BY <1>2, <1>13
  <2> HIDE DEF q
  <2>2. done.cap[o] = e
    BY <1>6, <1>10
  <2>3. /\ Kept(q) /\ SameFlags(done, q) /\ SameCanvas(done, q) /\ OthersSame(done, q, o)
        /\ d.session = e.session /\ d.has = e.has /\ d.size = e.size
        /\ d.pixels = e.pixels /\ d.at = e.at
        /\ Used(e) => Used(d)
    BY <1>11, <2>1, <2>2, NextParts
  <2> HIDE DEF d
  <2>4. OthersSame(r, q, o) /\ SameFlags(r, q)
    BY <1>6, <1>10, <2>3 DEF OthersSame, SameFlags
  <2>5. SamePlaces(r, q)
    <3>1. ASSUME NEW p \in Output
          PROVE  q.cap[p].at = r.cap[p].at /\ q.cap[p].size = r.cap[p].size
      <4>1. CASE p = o
        BY <1>3, <2>3, <4>1 DEF c, d
      <4>2. CASE p # o
        BY <2>4, <4>2 DEF OthersSame
      <4> QED
        BY <4>1, <4>2
    <3> QED
      BY <1>10, <2>3, <2>4, <3>1 DEF SamePlaces, SameFlags, SameCanvas
  <2>6. Handled(r, q) /\ FramesKept(r, q, o) /\ Captured(q) = Captured(r) /\ ~q.dead
    BY <1>10, <1>13, <2>3, <2>4 DEF Handled, FramesKept, SameCanvas, SameFlags, Captured, OthersSame
  <2>7. /\ DOMAIN q.canvas = DOMAIN r.canvas /\ d.pixels = c.pixels /\ d.pixels # NoPixels /\ d.has
        /\ Used(c) => Used(d)
    BY <1>1, <1>3, <1>4, <1>5, <1>8, <1>9, <1>10, <2>3 DEF SameCanvas
  <2>8. ~r.dead /\ ~drawn.dead /\ drawn.seen = r.seen /\ q.seen = done.seen /\ drawn.size = r.size
        /\ got.size = r.size
    BY <1>6, <1>8, <1>10, <1>13, <2>3 DEF SameCanvas
  <2>9. ASSUME NEW p \in cells \cap Cells(c.size), Moved(p, c.at) \in Cells(r.size)
        PROVE  DOMAIN q.seen = Cells(r.size) /\ q.seen[Moved(p, c.at)] = c.pixels[p]
    <3>1. Moved(p, c.at) \in drawn.damage /\ drawn.canvas[Moved(p, c.at)] = c.pixels[p]
      BY <1>3, <1>4, <1>8, <2>8, <2>9
    <3> QED
      BY <1>8, <1>9, <2>8, <2>9, <3>1
  <2>10. ASSUME DOMAIN r.seen = Cells(r.size)
         PROVE  /\ DOMAIN q.seen = Cells(r.size)
                /\ \A x \in Cells(r.size) :
                     (\A p \in cells \cap Cells(c.size) : x # Moved(p, c.at))
                       => q.seen[x] = r.seen[x]
    <3>1. CASE drawn.damage = {}
      BY <1>9, <2>8, <2>10, <3>1
    <3>2. CASE drawn.damage # {}
      <4>1. old = r.seen
        BY <1>8, <2>8, <2>10 DEF old
      <4>2. ASSUME NEW x \in Cells(r.size), \A p \in cells \cap Cells(c.size) : x # Moved(p, c.at)
            PROVE  x \notin drawn.damage
        BY <1>3, <1>8, <4>2
      <4> QED
        BY <1>8, <1>9, <2>8, <3>2, <4>1, <4>2
    <3> QED
      BY <3>1, <3>2
  <2>11. Seen(r, q, o, cells)
    BY <2>9, <2>10 DEF Seen, c
  <2> QED
    BY <2>4, <2>5, <2>6, <2>7, <2>11 DEF q, c, d, cells
<1> QED
  BY <1>12, <1>13

\* q has the frames of r, where they were.
Follows(r, q) ==
  /\ q.seen = r.seen
  /\ \A o \in Captured(q) : q.cap[o].has =>
       /\ o \in Captured(r) /\ r.cap[o].has /\ q.cap[o].pixels = r.cap[o].pixels
       /\ q.cap[o].size = r.cap[o].size /\ q.cap[o].at = r.cap[o].at

BuffersKept(r, q) ==
  \A o \in Captured(q) : q.cap[o].has =>
    /\ o \in Captured(r) /\ r.cap[o].has /\ q.cap[o].pixels = r.cap[o].pixels
    /\ q.cap[o].size = r.cap[o].size

LEMMA FollowsParts ==
  ASSUME NEW r, NEW u, NEW p, NEW q, Follows(r, u), BuffersKept(u, p), Shown(u, p), Follows(p, q)
  PROVE  BuffersKept(r, q) /\ Shown(r, q)
<1>1. BuffersKept(r, q)
  BY DEF Follows, BuffersKept
<1>2. CASE p.seen = u.seen /\ \A o \in Captured(p) : p.cap[o].has => p.cap[o].at = u.cap[o].at
  BY <1>2 DEF Follows, BuffersKept, Shown
<1>3. CASE \A o \in Captured(p) : p.cap[o].has =>
              \A x \in Cells(p.cap[o].size) :
                p.seen[Moved(x, p.cap[o].at)] = p.cap[o].pixels[x]
  <2>1. ASSUME NEW o \in Captured(q), q.cap[o].has, NEW x \in Cells(q.cap[o].size)
        PROVE  q.seen[Moved(x, q.cap[o].at)] = q.cap[o].pixels[x]
    <3>1. /\ o \in Captured(p) /\ p.cap[o].has /\ q.cap[o].pixels = p.cap[o].pixels
          /\ q.cap[o].size = p.cap[o].size /\ q.cap[o].at = p.cap[o].at /\ q.seen = p.seen
      BY <2>1 DEF Follows
    <3> QED
      BY <1>3, <2>1, <3>1
  <2> QED
    BY <1>1, <2>1 DEF Shown
<1> QED
  BY <1>1, <1>2, <1>3 DEF Shown

LEMMA FollowsSelf ==
  ASSUME NEW r
  PROVE  Follows(r, r) /\ BuffersKept(r, r) /\ Shown(r, r)
BY DEF Follows, BuffersKept, Shown

\* A layout, as long as the screen lives.
LEMMA LaidOutAnew ==
  ASSUME NEW r, Kept(r), NEW g \in [Output -> ScreenGeometry \cup {Gone}], Known(r, g),
         AllClear(g), r.captures # <<>>, \A o \in Captured(r) : Used(r.cap[o]),
         SeenWhole(r), NEW frees \in BOOLEAN, ~screen_layout(r, g, frees).dead
  PROVE  LET q == screen_layout(r, g, frees)
         IN  Sharing(q, g) /\ BuffersKept(r, q) /\ Shown(r, q)
<1> DEFINE q == screen_layout(r, g, frees)
<1>1. r \in ScreenType /\ r.captures \in Seq(Output)
  BY DEF Kept, ScreenType
<1>2. Captured(r) \subseteq Output
  BY <1>1 DEF Captured
<1>3. Fit(r)
  BY DEF Fit, Used
<1>4. ClearAll(r, g)
  <2>1. ASSUME NEW i \in DOMAIN r.captures, NEW j \in DOMAIN r.captures, i # j
        PROVE  Clear(g[r.captures[i]], g[r.captures[j]])
    <3>1. r.captures[i] # r.captures[j]
      BY <2>1 DEF Kept
    <3>2. r.captures[i] \in Captured(r) /\ r.captures[j] \in Captured(r)
      BY DEF Captured
    <3> QED
      BY <1>2, <3>1, <3>2 DEF Known, AllClear
  <2> QED
    BY <2>1 DEF ClearAll
<1>5. /\ Kept(q) /\ SameFlags(r, q) /\ SameCaptures(r, q)
      /\ q.captures # <<>> => LaidOut(q, g)
      /\ SeenWhole(q) /\ Shown(r, q)
  BY <1>3, <1>4, LayoutParts
<1> HIDE DEF q
<1>6. q.captures = r.captures /\ Captured(q) = Captured(r)
  BY <1>5 DEF SameFlags, Captured
<1>7. ASSUME NEW o \in Captured(r)
      PROVE  /\ q.cap[o].has = r.cap[o].has /\ q.cap[o].pixels = r.cap[o].pixels
             /\ q.cap[o].size = r.cap[o].size /\ (Used(r.cap[o]) => Used(q.cap[o]))
  <2> DEFINE c == r.cap[o]
             d == q.cap[o]
  <2>1. c \in CaptureType /\ d = [c EXCEPT !.at = d.at]
    BY <1>1, <1>2, <1>5 DEF ScreenType, SameCaptures
  <2> HIDE DEF c, d
  <2>2. d.has = c.has /\ d.pixels = c.pixels /\ d.size = c.size /\ (Used(c) => Used(d))
    BY <2>1, SameParts
  <2> QED
    BY <2>2 DEF c, d
<1>8. BuffersKept(r, q) /\ \A o \in Captured(q) : Used(q.cap[o])
  BY <1>6, <1>7 DEF BuffersKept
<1> QED
  BY <1>5, <1>6, <1>8 DEF Sharing, q

\* Going on with a capture.
LEMMA NextShares ==
  ASSUME NEW r, Kept(r), NEW o \in Output
  PROVE  LET q == capture_next(r, o)
         IN  /\ Captured(q) = Captured(r) /\ Follows(r, q) /\ Follows(q, r)
             /\ \A g : Sharing(r, g) => Sharing(q, g)
<1> DEFINE q == capture_next(r, o)
           c == r.cap[o]
           d == q.cap[o]
<1>1. /\ Kept(q) /\ SameFlags(r, q) /\ SameCanvas(r, q) /\ OthersSame(r, q, o)
      /\ d.session = c.session /\ d.has = c.has /\ d.size = c.size
      /\ d.pixels = c.pixels /\ d.at = c.at
      /\ Used(c) => Used(d)
  BY NextParts
<1>2. r \in ScreenType
  BY DEF Kept
<1> HIDE DEF q
<1>3. ASSUME NEW p \in Output
      PROVE  /\ q.cap[p].has = r.cap[p].has /\ q.cap[p].size = r.cap[p].size
             /\ q.cap[p].pixels = r.cap[p].pixels /\ q.cap[p].at = r.cap[p].at
             /\ Used(r.cap[p]) => Used(q.cap[p])
  BY <1>1 DEF OthersSame
<1>4. SamePlaces(r, q)
  BY <1>1, <1>3 DEF SamePlaces, SameFlags, SameCanvas
<1>5. Captured(q) = Captured(r) /\ \A g : LaidOut(r, g) => LaidOut(q, g)
  BY <1>2, <1>4, PlacesParts
<1>6. Captured(r) \subseteq Output
  BY <1>2 DEF Captured, ScreenType
<1>7. Follows(r, q) /\ Follows(q, r)
  BY <1>1, <1>3, <1>5, <1>6 DEF Follows, SameCanvas
<1>8. SeenWhole(r) => SeenWhole(q)
  BY <1>1, <1>3, <1>5, <1>6 DEF SeenWhole, SameCanvas
<1>9. ASSUME NEW g, Sharing(r, g)
      PROVE  Sharing(q, g)
  BY <1>1, <1>3, <1>5, <1>6, <1>8, <1>9 DEF Sharing, SameFlags
<1> QED
  BY <1>5, <1>7, <1>9 DEF q

LEMMA FrameFailedParts ==
  ASSUME NEW r, Kept(r), ~r.freed, NEW o \in Output,
         NEW reason \in {"constraints", "stopped", "unknown"}
  PROVE  LET q == frame_failed(r, o, reason)
         IN  /\ Handled(r, q) /\ FramesKept(r, q, o) /\ Captured(q) = Captured(r)
             /\ \A g : ~Ended(q) /\ Sharing(r, g) =>
                  Sharing(q, g) /\ BuffersKept(r, q) /\ Shown(r, q)
<1> DEFINE c == r.cap[o]
           e == [c EXCEPT !.frame = FALSE, !.damage = {}]
           lost == With(r, o, e)
           q == frame_failed(r, o, reason)
<1>1. r \in ScreenType /\ c \in CaptureType /\ CaptureOK(c)
  BY DEF Kept, ScreenType
<1>2. q = IF reason = "constraints" THEN lost
          ELSE IF reason = "stopped" THEN screen_emit_stopped(lost)
          ELSE capture_next(lost, o)
  <2>1. lost = [r EXCEPT !.cap[o].frame = FALSE, !.cap[o].damage = {}]
    BY <1>1 DEF With, ScreenType
  <2> QED
    BY <2>1 DEF frame_failed
<1>3. /\ e \in CaptureType /\ e.session = c.session /\ ~e.frame
      /\ e.full = c.full /\ e.has = c.has /\ e.pixels = c.pixels /\ e.size = c.size /\ e.at = c.at
      /\ e.shm = c.shm
  BY <1>1 DEF CaptureType
<1> HIDE DEF c, e
<1>4. CaptureOK(e) /\ (Used(c) => Used(e))
  BY <1>1, <1>3 DEF CaptureOK, Used
<1>5. /\ Kept(lost) /\ SameFlags(r, lost) /\ SameCanvas(r, lost) /\ lost.cap[o] = e
      /\ OthersSame(r, lost, o) /\ Captured(lost) = Captured(r)
  BY <1>1, <1>3, <1>4, WithParts DEF c
<1> HIDE DEF lost, q
<1>6. ASSUME NEW p \in Output
      PROVE  /\ lost.cap[p].has = r.cap[p].has /\ lost.cap[p].size = r.cap[p].size
             /\ lost.cap[p].pixels = r.cap[p].pixels /\ lost.cap[p].at = r.cap[p].at
             /\ Used(r.cap[p]) => Used(lost.cap[p])
  BY <1>3, <1>4, <1>5 DEF OthersSame, c
<1>7. SamePlaces(r, lost)
  BY <1>5, <1>6 DEF SamePlaces, SameFlags, SameCanvas
<1>8. \A g : LaidOut(r, g) => LaidOut(lost, g)
  BY <1>1, <1>7, PlacesParts
<1>9. Captured(r) \subseteq Output
  BY <1>1 DEF Captured, ScreenType
<1>10. Follows(r, lost) /\ (SeenWhole(r) => SeenWhole(lost))
  BY <1>5, <1>6, <1>9 DEF Follows, SeenWhole, SameCanvas
<1>11. ASSUME NEW g, Sharing(r, g)
       PROVE  Sharing(lost, g)
  BY <1>5, <1>6, <1>8, <1>9, <1>10, <1>11 DEF Sharing, SameFlags
<1>12. CASE reason = "constraints"
  <2>1. q = lost
    BY <1>2, <1>12
  <2>2. Handled(r, q) /\ FramesKept(r, q, o)
    BY <1>5, <2>1 DEF Handled, FramesKept, SameFlags, SameCanvas, OthersSame
  <2>3. BuffersKept(r, q) /\ Shown(r, q)
    BY <1>10, <2>1, FollowsSelf, FollowsParts
  <2> QED
    BY <1>5, <1>11, <2>1, <2>2, <2>3 DEF q
<1>13. CASE reason = "stopped"
  <2>1. q = screen_emit_stopped(lost) /\ ~lost.freed
    BY <1>2, <1>5, <1>13 DEF SameFlags
  <2>2. /\ Kept(q) /\ SameCanvas(lost, q) /\ q.told = lost.told /\ q.captures = lost.captures
        /\ q.stopped /\ \A p \in Output : ~q.cap[p].session
    BY <1>5, <2>1, StoppedParts
  <2>3. Handled(r, q) /\ FramesKept(r, q, o) /\ Captured(q) = Captured(r) /\ Ended(q)
    BY <1>5, <2>2 DEF Handled, FramesKept, SameFlags, SameCanvas, Captured, Ended
  <2> QED
    BY <2>3 DEF q
<1>14. CASE reason = "unknown"
  <2>1. q = capture_next(lost, o)
    BY <1>2, <1>14
  <2>2. Kept(q) /\ SameFlags(lost, q) /\ SameCanvas(lost, q) /\ OthersSame(lost, q, o)
    BY <1>5, <2>1, NextParts
  <2>3. /\ Captured(q) = Captured(lost) /\ Follows(lost, q)
        /\ \A g : Sharing(lost, g) => Sharing(q, g)
    BY <1>5, <2>1, NextShares
  <2>4. Handled(r, q) /\ FramesKept(r, q, o)
    BY <1>5, <2>2 DEF Handled, FramesKept, SameFlags, SameCanvas, OthersSame
  <2>5. BuffersKept(r, q) /\ Shown(r, q)
    BY <1>10, <2>3, FollowsSelf, FollowsParts
  <2> QED
    BY <1>5, <1>11, <2>3, <2>4, <2>5 DEF q
<1> QED
  BY <1>12, <1>13, <1>14

\* New constraints for a capture.
LEMMA ConstrainedParts ==
  ASSUME NEW c \in CaptureType, CaptureOK(c), NEW to \in Offered
  PROVE  LET d == Constrained(c, to)
         IN  /\ d \in CaptureType /\ CaptureOK(d)
             /\ d.session = c.session /\ d.frame = c.frame /\ d.has = c.has /\ d.pixels = c.pixels
             /\ d.size = c.size /\ d.at = c.at /\ d.pending \in Size
             /\ Used(c) => Used(d)
             /\ d.shm = "none" => c.shm = "none"
<1> DEFINE shm == IF "XRGB" \in to.formats THEN "XRGB"
                  ELSE IF c.shm = "none" /\ "ARGB" \in to.formats THEN "ARGB"
                  ELSE c.shm
           d == Constrained(c, to)
<1>1. d = [c EXCEPT !.pending = to.size, !.shm = shm]
  BY DEF Constrained
<1>2. shm \in {"none", "ARGB", "XRGB"} /\ to.size \in Size /\ to.size \in Nat \X Nat
  BY DEF CaptureType, Offered, Size
<1> HIDE DEF shm, d
<1>3. /\ d \in CaptureType /\ d.session = c.session /\ d.frame = c.frame /\ d.has = c.has
      /\ d.pixels = c.pixels /\ d.size = c.size /\ d.at = c.at /\ d.pending \in Size
      /\ d.full = c.full /\ d.whole = c.whole /\ d.shm = shm
  BY <1>1, <1>2 DEF CaptureType
<1>4. shm = "none" => c.shm = "none"
  BY DEF shm
<1>5. CaptureOK(d) /\ (Used(c) => Used(d))
  BY <1>3, <1>4 DEF CaptureOK, Used
<1> QED
  BY <1>3, <1>4, <1>5 DEF d

LEMMA BufferParts ==
  ASSUME NEW c \in CaptureType, c.pending \in Size
  PROVE  LET d == create_buffer([c EXCEPT !.frame = FALSE])
         IN  /\ d \in CaptureType /\ CaptureOK(d) /\ d.session = c.session
             /\ ~d.frame /\ ~d.has
             /\ c.session /\ c.shm # "none" => Used(d)
<1> DEFINE e == [c EXCEPT !.frame = FALSE]
           b == Blank(c.pending)
           d == create_buffer(e)
<1>1. /\ e \in CaptureType /\ ~e.frame /\ e.session = c.session /\ e.pending = c.pending /\ e.shm = c.shm
  BY DEF CaptureType
<1> HIDE DEF e
<1>2. d = [e EXCEPT !.size = c.pending, !.pixels = b, !.format = c.shm, !.has = FALSE, !.full = TRUE]
  BY <1>1 DEF create_buffer
<1>3. c.pending \in Nat \X Nat /\ c.shm \in {"none", "ARGB", "XRGB"}
  BY DEF CaptureType
<1>4. b \in [Cells(c.pending) -> Int] /\ b \in Pictures /\ Cells(c.pending) # {}
  BY <1>3, PictureParts
<1>5. b # NoPixels
  <2>1. DOMAIN NoPixels = {}
    BY DEF NoPixels
  <2> QED
    BY <1>4, <2>1
<1> HIDE DEF d, b
<1>6. /\ d \in CaptureType /\ d.session = c.session /\ ~d.frame /\ d.has = FALSE /\ d.full = TRUE
      /\ d.size = c.pending /\ d.pixels = b /\ d.shm = c.shm
  BY <1>1, <1>2, <1>3, <1>4 DEF CaptureType
<1>7. CaptureOK(d)
  BY <1>4, <1>6 DEF CaptureOK
<1>8. c.session /\ c.shm # "none" => Used(d)
  BY <1>5, <1>6 DEF Used
<1> QED
  BY <1>6, <1>7, <1>8 DEF d, e

LEMMA SessionDoneParts ==
  ASSUME NEW r, Kept(r), NEW g \in [Output -> ScreenGeometry \cup {Gone}], Known(r, g),
         NEW o \in Output, NEW to \in Offered, NEW frees \in BOOLEAN
  PROVE  LET q == session_done(r, g, o, to, frees)
         IN  /\ Handled(r, q) /\ Captured(q) = Captured(r)
             /\ FramesKept(r, q, o)
             /\ ~NeedsBuffer(Constrained(r.cap[o], to)) => FramesKept(r, q, "none")
             /\ NeedsBuffer(Constrained(r.cap[o], to)) /\ Used(r.cap[o]) => ~q.cap[o].has
             /\ ~Ended(q) /\ Sharing(r, g) /\ AllClear(g) =>
                  Sharing(q, g) /\ BuffersKept(r, q) /\ Shown(r, q)
<1> DEFINE c == r.cap[o]
           e == Constrained(c, to)
           told == With(r, o, e)
           b == create_buffer([e EXCEPT !.frame = FALSE])
           fresh == With(told, o, b)
           placed == screen_layout(fresh, g, frees)
           q == session_done(r, g, o, to, frees)
<1>1. r \in ScreenType /\ c \in CaptureType /\ CaptureOK(c) /\ Captured(r) \subseteq Output
  BY DEF Kept, ScreenType, Captured
<1>2. q = IF e.shm = "none" THEN told
          ELSE IF ~NeedsBuffer(e) THEN capture_next(told, o)
          ELSE IF placed.dead THEN placed ELSE capture_next(placed, o)
  <2>1. told = [r EXCEPT !.cap[o] = Constrained(@, to)]
    BY <1>1 DEF With, ScreenType
  <2>2. told.cap[o] = e
    BY <1>1 DEF With, ScreenType
  <2>3. [told EXCEPT !.cap[o] = create_buffer([@ EXCEPT !.frame = FALSE])] = fresh
    <3>1. told.cap \in [Output -> {told.cap[p] : p \in Output}] /\ DOMAIN told.cap = Output
      BY <1>1 DEF With, ScreenType
    <3> HIDE DEF e
    <3> QED
      BY <2>2, <3>1 DEF With
  <2> HIDE DEF e, fresh
  <2> QED
    BY <2>1, <2>2, <2>3 DEF session_done, placed
<1>3. /\ e \in CaptureType /\ CaptureOK(e)
      /\ e.session = c.session /\ e.frame = c.frame /\ e.has = c.has /\ e.pixels = c.pixels
      /\ e.size = c.size /\ e.at = c.at /\ e.pending \in Size
      /\ Used(c) => Used(e)
      /\ e.shm = "none" => c.shm = "none"
  BY <1>1, ConstrainedParts
<1> HIDE DEF e, c
<1>4. /\ told \in ScreenType /\ Kept(told) /\ SameFlags(r, told) /\ SameCanvas(r, told) /\ told.cap[o] = e
      /\ OthersSame(r, told, o) /\ Captured(told) = Captured(r)
  BY <1>1, <1>3, WithParts DEF c
<1> HIDE DEF told, q
<1>5. ASSUME NEW p \in Output
      PROVE  /\ told.cap[p].has = r.cap[p].has /\ told.cap[p].size = r.cap[p].size
             /\ told.cap[p].pixels = r.cap[p].pixels /\ told.cap[p].at = r.cap[p].at
             /\ told.cap[p].frame = r.cap[p].frame /\ told.cap[p].session = r.cap[p].session
             /\ Used(r.cap[p]) => Used(told.cap[p])
  BY <1>3, <1>4 DEF OthersSame, c
<1>6. SamePlaces(r, told)
  BY <1>4, <1>5 DEF SamePlaces, SameFlags, SameCanvas
<1>7. LaidOut(r, g) => LaidOut(told, g)
  BY <1>1, <1>6, PlacesParts
<1>8. Follows(r, told) /\ (SeenWhole(r) => SeenWhole(told))
  BY <1>1, <1>4, <1>5 DEF Follows, SeenWhole, SameCanvas
<1>9. Sharing(r, g) => Sharing(told, g)
  BY <1>1, <1>4, <1>5, <1>7, <1>8 DEF Sharing, SameFlags
<1>10. Handled(r, told) /\ FramesKept(r, told, o) /\ FramesKept(r, told, "none")
  BY <1>4, <1>5 DEF Handled, FramesKept, SameFlags, SameCanvas
<1>11. CASE e.shm = "none"
  <2>1. q = told
    BY <1>2, <1>11
  <2>2. BuffersKept(r, q) /\ Shown(r, q)
    BY <1>8, <2>1, FollowsSelf, FollowsParts
  <2>3. Used(c) => ~q.cap[o].has
    BY <1>3, <1>4, <1>11, <2>1 DEF Used
  <2> QED
    BY <1>4, <1>9, <1>10, <2>1, <2>2, <2>3 DEF q, c
<1>12. CASE e.shm # "none" /\ ~NeedsBuffer(e)
  <2>1. q = capture_next(told, o)
    BY <1>2, <1>12
  <2>2. /\ Kept(q) /\ SameFlags(told, q) /\ SameCanvas(told, q) /\ OthersSame(told, q, o)
        /\ q.cap[o].pixels = told.cap[o].pixels /\ q.cap[o].size = told.cap[o].size
        /\ told.cap[o].frame => q.cap[o].frame
    BY <1>4, <2>1, NextParts
  <2>3. /\ Captured(q) = Captured(told) /\ Follows(told, q)
        /\ Sharing(told, g) => Sharing(q, g)
    BY <1>4, <2>1, NextShares
  <2>4. Handled(r, q)
    BY <1>4, <2>2 DEF Handled, SameFlags, SameCanvas
  <2>5. FramesKept(r, q, o) /\ FramesKept(r, q, "none")
    BY <1>5, <2>2 DEF FramesKept, OthersSame
  <2>6. BuffersKept(r, q) /\ Shown(r, q)
    BY <1>8, <2>3, FollowsSelf, FollowsParts
  <2> QED
    BY <1>4, <1>9, <1>12, <2>3, <2>4, <2>5, <2>6 DEF q, e, c
<1>13. CASE e.shm # "none" /\ NeedsBuffer(e)
  <2>1. /\ b \in CaptureType /\ CaptureOK(b) /\ b.session = e.session /\ ~b.frame /\ ~b.has
        /\ e.session /\ e.shm # "none" => Used(b)
    BY <1>3, BufferParts
  <2> HIDE DEF b
  <2>2. /\ Kept(fresh) /\ SameFlags(told, fresh) /\ SameCanvas(told, fresh) /\ fresh.cap[o] = b
        /\ OthersSame(told, fresh, o) /\ Captured(fresh) = Captured(told)
    BY <1>4, <2>1, WithParts
  <2> HIDE DEF fresh
  <2>3. Known(fresh, g)
    BY <1>4, <2>2 DEF Known
  <2>4. /\ Kept(placed) /\ SameFlags(fresh, placed) /\ SameCaptures(fresh, placed)
        /\ fresh.dead => placed.dead /\ placed.seen = fresh.seen
    BY <2>2, <2>3, LayoutParts
  <2>5. ASSUME Sharing(r, g), AllClear(g), ~placed.dead
        PROVE  Sharing(placed, g) /\ BuffersKept(fresh, placed) /\ Shown(fresh, placed)
    <3>1. Sharing(told, g)
      BY <1>9, <2>5
    <3>2. \A p \in Captured(fresh) : Used(fresh.cap[p])
      BY <1>1, <1>4, <1>13, <2>1, <2>2, <3>1 DEF Sharing, OthersSame, Used
    <3>3. SeenWhole(fresh) /\ fresh.captures # <<>>
      BY <1>1, <1>4, <2>1, <2>2, <3>1 DEF Sharing, SeenWhole, SameCanvas, OthersSame, SameFlags
    <3> QED
      BY <2>2, <2>3, <2>5, <3>2, <3>3, LaidOutAnew
  <2> HIDE DEF placed
  <2>6. Captured(placed) = Captured(r)
    BY <1>4, <2>2, <2>4 DEF Captured, SameFlags
  <2>7. FramesKept(r, placed, o)
    <3>1. ASSUME NEW p \in Output, p # o
          PROVE  /\ placed.cap[p].frame = r.cap[p].frame /\ placed.cap[p].pixels = r.cap[p].pixels
                 /\ placed.cap[p].size = r.cap[p].size
      <4> DEFINE u == fresh.cap[p]
                 v == placed.cap[p]
      <4>1. u \in CaptureType /\ v = [u EXCEPT !.at = v.at]
        BY <2>2, <2>4 DEF Kept, ScreenType, SameCaptures
      <4> HIDE DEF u, v
      <4>2. v.frame = u.frame /\ v.pixels = u.pixels /\ v.size = u.size
        BY <4>1, SameParts
      <4>3. u = r.cap[p]
        BY <1>4, <2>2, <3>1 DEF OthersSame, u
      <4> QED
        BY <4>2, <4>3 DEF v
    <3> QED
      BY <3>1 DEF FramesKept
  <2>12. ~placed.cap[o].has
    <3> DEFINE v == placed.cap[o]
    <3>1. v = [b EXCEPT !.at = v.at]
      BY <2>2, <2>4 DEF SameCaptures
    <3> HIDE DEF v
    <3>2. v.has = b.has
      BY <2>1, <3>1, SameParts
    <3> QED
      BY <2>1, <3>2 DEF v
  <2>8. Handled(r, placed)
    BY <1>4, <2>2, <2>4 DEF Handled, SameFlags, SameCanvas
  <2>9. Follows(r, fresh)
    BY <1>1, <1>4, <1>5, <2>1, <2>2 DEF Follows, SameCanvas, OthersSame
  <2>10. CASE placed.dead
    <3>1. q = placed
      BY <1>2, <1>13, <2>10
    <3> QED
      BY <1>13, <2>6, <2>7, <2>8, <2>10, <2>12, <3>1 DEF q, c, e, Ended
  <2>11. CASE ~placed.dead
    <3>1. q = capture_next(placed, o)
      BY <1>2, <1>13, <2>11
    <3>2. Kept(q) /\ SameFlags(placed, q) /\ SameCanvas(placed, q) /\ OthersSame(placed, q, o)
          /\ q.cap[o].has = placed.cap[o].has
      BY <2>4, <3>1, NextParts
    <3>3. /\ Captured(q) = Captured(placed) /\ Follows(placed, q)
          /\ Sharing(placed, g) => Sharing(q, g)
      BY <2>4, <3>1, NextShares
    <3>4. Handled(r, q) /\ FramesKept(r, q, o)
      BY <2>7, <2>8, <3>2 DEF Handled, FramesKept, SameFlags, SameCanvas, OthersSame
    <3>5. ASSUME Sharing(r, g), AllClear(g)
          PROVE  Sharing(q, g) /\ BuffersKept(r, q) /\ Shown(r, q)
      BY <2>5, <2>9, <2>11, <3>3, <3>5, FollowsParts
    <3> QED
      BY <1>13, <2>6, <2>12, <3>2, <3>3, <3>4, <3>5 DEF q, c, e
  <2> QED
    BY <2>10, <2>11
<1> QED
  BY <1>11, <1>12, <1>13

\* A capture less, laid out anew.
LEMMA DroppedLaidOut ==
  ASSUME NEW r, Kept(r), NEW g \in [Output -> ScreenGeometry \cup {Gone}], Known(r, g),
         NEW o \in Output, NEW frees \in BOOLEAN
  PROVE  LET u == Dropped(r, o)
             q == screen_layout(u, g, frees)
         IN  /\ Handled(r, q) /\ Captured(q) = Captured(r) \ {o}
             /\ FramesKept(r, q, "none")
             /\ u.captures # <<>> /\ ~Ended(q) /\ Sharing(r, g) /\ AllClear(g) =>
                  Sharing(q, g) /\ BuffersKept(r, q) /\ Shown(r, q)
<1> DEFINE u == Dropped(r, o)
           q == screen_layout(u, g, frees)
<1>1. r \in ScreenType /\ Captured(r) \subseteq Output
  BY DEF Kept, ScreenType, Captured
<1>2. /\ Kept(u) /\ SameCanvas(r, u) /\ OthersSame(r, u, o)
      /\ u.told = r.told /\ u.stopped = r.stopped /\ ~u.cap[o].session /\ ~u.cap[o].has
      /\ Captured(u) = Captured(r) \ {o}
  BY DroppedParts
<1> HIDE DEF u
<1>3. Known(u, g)
  BY <1>2 DEF Known
<1>4. /\ Kept(q) /\ SameFlags(u, q) /\ SameCaptures(u, q)
      /\ u.dead => q.dead /\ q.seen = u.seen
  BY <1>2, <1>3, LayoutParts
<1>5. ASSUME u.captures # <<>>, ~q.dead, Sharing(r, g), AllClear(g)
      PROVE  Sharing(q, g) /\ BuffersKept(u, q) /\ Shown(u, q)
  <2>1. \A p \in Captured(u) : Used(u.cap[p])
    BY <1>1, <1>2, <1>5 DEF Sharing, OthersSame
  <2>2. SeenWhole(u)
    BY <1>1, <1>2, <1>5 DEF Sharing, SeenWhole, SameCanvas, OthersSame
  <2> QED
    BY <1>2, <1>3, <1>5, <2>1, <2>2, LaidOutAnew
<1> HIDE DEF q
<1>6. Captured(q) = Captured(r) \ {o}
  BY <1>2, <1>4 DEF Captured, SameFlags
<1>7. Handled(r, q)
  BY <1>2, <1>4 DEF Handled, SameFlags, SameCanvas
<1>8. FramesKept(r, q, "none")
  <2>1. ASSUME NEW p \in Output, q.cap[p].session
        PROVE  /\ q.cap[p].frame = r.cap[p].frame /\ q.cap[p].pixels = r.cap[p].pixels
               /\ q.cap[p].size = r.cap[p].size
    <3> DEFINE c == u.cap[p]
               v == q.cap[p]
    <3>1. c \in CaptureType /\ v = [c EXCEPT !.at = v.at]
      BY <1>2, <1>4 DEF Kept, ScreenType, SameCaptures
    <3> HIDE DEF c, v
    <3>2. v.frame = c.frame /\ v.pixels = c.pixels /\ v.size = c.size /\ v.session = c.session
      BY <3>1, SameParts
    <3>3. p # o
      BY <1>2, <2>1, <3>2 DEF c, v
    <3>4. c = r.cap[p]
      BY <1>2, <3>3 DEF OthersSame, c
    <3> QED
      BY <3>2, <3>4 DEF v
  <2> QED
    BY <2>1 DEF FramesKept
<1>9. Follows(r, u)
  BY <1>1, <1>2 DEF Follows, SameCanvas, OthersSame
<1>10. ASSUME u.captures # <<>>, ~q.dead, Sharing(r, g), AllClear(g)
       PROVE  Sharing(q, g) /\ BuffersKept(r, q) /\ Shown(r, q)
  BY <1>5, <1>9, <1>10, FollowsSelf, FollowsParts
<1> QED
  BY <1>6, <1>7, <1>8, <1>10 DEF Ended, u, q

\* Nothing more is shared.
LEMMA StoppedHandled ==
  ASSUME NEW r, Kept(r), ~r.freed
  PROVE  LET q == screen_emit_stopped(r)
         IN  /\ Handled(r, q) /\ Captured(q) = Captured(r) /\ FramesKept(r, q, "none")
             /\ Ended(q)
<1> DEFINE q == screen_emit_stopped(r)
<1>1. /\ Kept(q) /\ SameCanvas(r, q) /\ q.told = r.told /\ q.captures = r.captures
      /\ q.stopped /\ \A o \in Output : ~q.cap[o].session
  BY StoppedParts
<1> HIDE DEF q
<1>2. Handled(r, q) /\ Captured(q) = Captured(r) /\ FramesKept(r, q, "none") /\ Ended(q)
  BY <1>1 DEF Handled, FramesKept, Captured, SameCanvas, Ended
<1> QED
  BY <1>2 DEF q

LEMMA SessionStoppedParts ==
  ASSUME NEW r, Kept(r), ~r.freed, NEW g \in [Output -> ScreenGeometry \cup {Gone}], Known(r, g),
         NEW o \in Output, NEW frees \in BOOLEAN
  PROVE  LET q == session_stopped(r, g, o, frees)
         IN  /\ Handled(r, q) /\ Captured(q) \subseteq Captured(r) /\ FramesKept(r, q, "none")
             /\ ~Ended(q) /\ Sharing(r, g) /\ AllClear(g) =>
                  Sharing(q, g) /\ BuffersKept(r, q) /\ Shown(r, q)
<1> DEFINE q == session_stopped(r, g, o, frees)
           u == Dropped(r, o)
<1>1. CASE ~Named /\ Len(r.captures) > 1
  <2>1. q = screen_layout(u, g, frees)
    BY <1>1 DEF session_stopped
  <2>2. u.captures # <<>>
    <3>1. r.captures \in Seq(Output) /\ Captured(u) = Captured(r) \ {o}
      BY DroppedParts DEF Kept, ScreenType
    <3>2. 1 \in DOMAIN r.captures /\ 2 \in DOMAIN r.captures
      BY <1>1, <3>1
    <3>3. r.captures[1] # r.captures[2]
      BY <3>2 DEF Kept
    <3>4. r.captures[1] \in Captured(r) /\ r.captures[2] \in Captured(r)
      BY <3>2 DEF Captured
    <3>5. Captured(u) # {}
      BY <3>1, <3>3, <3>4
    <3> HIDE DEF u
    <3>6. u.captures = <<>> => DOMAIN u.captures = {}
      OBVIOUS
    <3> QED
      BY <3>5, <3>6 DEF Captured
  <2> HIDE DEF q, u
  <2>3. /\ Handled(r, q) /\ Captured(q) = Captured(r) \ {o}
        /\ FramesKept(r, q, "none")
        /\ ~Ended(q) /\ Sharing(r, g) /\ AllClear(g) =>
             Sharing(q, g) /\ BuffersKept(r, q) /\ Shown(r, q)
    BY <2>1, <2>2, DroppedLaidOut DEF u
  <2> QED
    BY <2>3 DEF q
<1>2. CASE ~(~Named /\ Len(r.captures) > 1)
  <2>1. q = screen_emit_stopped(r)
    BY <1>2 DEF session_stopped
  <2> HIDE DEF q
  <2>2. Handled(r, q) /\ Captured(q) = Captured(r) /\ FramesKept(r, q, "none") /\ Ended(q)
    BY <2>1, StoppedHandled
  <2> QED
    BY <2>2 DEF q
<1> QED
  BY <1>1, <1>2

LEMMA OutputRemovedParts ==
  ASSUME NEW r, Kept(r), ~r.freed, NEW g \in [Output -> ScreenGeometry \cup {Gone}], Known(r, g),
         NEW o \in Output, NEW frees \in BOOLEAN
  PROVE  LET q == screen_output_removed(r, g, o, frees)
         IN  /\ Handled(r, q) /\ Captured(q) = Captured(r) \ {o} /\ FramesKept(r, q, "none")
             /\ ~Ended(q) /\ Sharing(r, g) /\ AllClear(g) =>
                  Sharing(q, g) /\ BuffersKept(r, q) /\ Shown(r, q)
<1> DEFINE q == screen_output_removed(r, g, o, frees)
           u == Dropped(r, o)
<1>1. CASE o \notin Captured(r)
  <2>1. q = r
    BY <1>1 DEF screen_output_removed
  <2>2. Handled(r, r) /\ FramesKept(r, r, "none") /\ BuffersKept(r, r) /\ Shown(r, r)
    BY FollowsSelf DEF Handled, FramesKept
  <2> QED
    BY <1>1, <2>1, <2>2
<1>2. CASE o \in Captured(r) /\ (u.captures = <<>> \/ Named)
  <2>1. q = screen_emit_stopped(u)
    BY <1>2 DEF screen_output_removed
  <2>2. /\ Kept(u) /\ SameCanvas(r, u) /\ OthersSame(r, u, o)
        /\ u.told = r.told /\ u.freed = r.freed
        /\ Captured(u) = Captured(r) \ {o}
    BY DroppedParts
  <2> HIDE DEF q, u
  <2>3. Kept(q) /\ q.stopped /\ \A p \in Output : ~q.cap[p].session
    BY <2>1, <2>2, StoppedParts
  <2>4. Handled(u, q) /\ Captured(q) = Captured(u) /\ Ended(q)
    BY <2>1, <2>2, StoppedHandled
  <2>5. Handled(r, q) /\ Captured(q) = Captured(r) \ {o} /\ FramesKept(r, q, "none") /\ Ended(q)
    BY <2>2, <2>3, <2>4 DEF Handled, FramesKept, SameCanvas
  <2> QED
    BY <2>5 DEF q
<1>3. CASE o \in Captured(r) /\ ~(u.captures = <<>> \/ Named)
  <2>1. q = screen_layout(u, g, frees) /\ u.captures # <<>>
    BY <1>3 DEF screen_output_removed
  <2> HIDE DEF q, u
  <2>2. /\ Handled(r, q) /\ Captured(q) = Captured(r) \ {o}
        /\ FramesKept(r, q, "none")
        /\ ~Ended(q) /\ Sharing(r, g) /\ AllClear(g) =>
             Sharing(q, g) /\ BuffersKept(r, q) /\ Shown(r, q)
    BY <2>1, DroppedLaidOut DEF u
  <2> QED
    BY <2>2 DEF q
<1> QED
  BY <1>1, <1>2, <1>3

\* g has the output as it is now.
LEMMA OutputChangedParts ==
  ASSUME NEW r, Kept(r), NEW g \in [Output -> ScreenGeometry \cup {Gone}],
         NEW o \in Output, g[o] # Gone, Known(r, g), NEW frees \in BOOLEAN
  PROVE  LET q == screen_output_changed(r, g, o, frees)
         IN  /\ Handled(r, q) /\ Captured(q) \subseteq Captured(r) \cup {o}
             /\ FramesKept(r, q, "none")
             /\ /\ ~Ended(q) /\ AllClear(g) /\ r.captures # <<>> /\ SeenWhole(r)
                /\ \A p \in Captured(r) : Used(r.cap[p])
                /\ o \notin Captured(r) => LaidOut(r, g)
                => Sharing(q, g) /\ BuffersKept(r, q) /\ Shown(r, q)
<1> DEFINE q == screen_output_changed(r, g, o, frees)
           Going(x) == /\ AllClear(g) /\ x.captures # <<>> /\ SeenWhole(x)
                       /\ \A p \in Captured(x) : Used(x.cap[p])
<1>1. r \in ScreenType /\ Captured(r) \subseteq Output
  BY DEF Kept, ScreenType, Captured
<1>2. ASSUME NEW u, Kept(u), Known(u, g)
      PROVE  LET w == screen_layout(u, g, frees)
             IN  /\ Kept(w) /\ SameFlags(u, w) /\ Captured(w) = Captured(u)
                 /\ u.dead => w.dead /\ w.seen = u.seen
                 /\ \A p \in Output : /\ w.cap[p].frame = u.cap[p].frame
                                      /\ w.cap[p].pixels = u.cap[p].pixels
                                      /\ w.cap[p].size = u.cap[p].size
                                      /\ w.cap[p].session = u.cap[p].session
                 /\ ~w.dead /\ Going(u) => Sharing(w, g) /\ BuffersKept(u, w) /\ Shown(u, w)
  <2> DEFINE w == screen_layout(u, g, frees)
  <2>1. /\ Kept(w) /\ SameFlags(u, w) /\ SameCaptures(u, w)
        /\ u.dead => w.dead /\ w.seen = u.seen
    BY <1>2, LayoutParts
  <2>2. ~w.dead /\ Going(u) => Sharing(w, g) /\ BuffersKept(u, w) /\ Shown(u, w)
    BY <1>2, LaidOutAnew
  <2> HIDE DEF w, Going
  <2>3. ASSUME NEW p \in Output
        PROVE  /\ w.cap[p].frame = u.cap[p].frame /\ w.cap[p].pixels = u.cap[p].pixels
               /\ w.cap[p].size = u.cap[p].size /\ w.cap[p].session = u.cap[p].session
    <3> DEFINE c == u.cap[p]
               v == w.cap[p]
    <3>1. c \in CaptureType /\ v = [c EXCEPT !.at = v.at]
      BY <1>2, <2>1 DEF Kept, ScreenType, SameCaptures
    <3> HIDE DEF c, v
    <3>2. v.frame = c.frame /\ v.pixels = c.pixels /\ v.size = c.size /\ v.session = c.session
      BY <3>1, SameParts
    <3> QED
      BY <3>2 DEF c, v
  <2>4. Captured(w) = Captured(u)
    BY <2>1 DEF Captured, SameFlags
  <2> QED
    BY <2>1, <2>2, <2>3, <2>4 DEF w
<1>3. CASE r.stopped \/ r.dead
  <2>1. q = r
    BY <1>3 DEF screen_output_changed
  <2>2. Handled(r, r) /\ FramesKept(r, r, "none")
    BY DEF Handled, FramesKept
  <2> QED
    BY <1>3, <2>1, <2>2 DEF Ended
<1>4. CASE ~(r.stopped \/ r.dead) /\ o \in Captured(r)
  <2>1. q = screen_layout(r, g, frees)
    BY <1>4 DEF screen_output_changed
  <2> HIDE DEF q
  <2>2. /\ Kept(q) /\ SameFlags(r, q) /\ Captured(q) = Captured(r)
        /\ r.dead => q.dead /\ q.seen = r.seen
        /\ \A p \in Output : /\ q.cap[p].frame = r.cap[p].frame
                             /\ q.cap[p].pixels = r.cap[p].pixels
                             /\ q.cap[p].size = r.cap[p].size
        /\ ~q.dead /\ Going(r) => Sharing(q, g) /\ BuffersKept(r, q) /\ Shown(r, q)
    BY <1>2, <2>1
  <2>3. Handled(r, q) /\ FramesKept(r, q, "none")
    BY <2>2 DEF Handled, FramesKept, SameFlags
  <2> QED
    BY <2>2, <2>3 DEF q, Ended
<1>5. CASE ~(r.stopped \/ r.dead) /\ o \notin Captured(r) /\ Named
  <2>1. q = r
    BY <1>5 DEF screen_output_changed
  <2>2. Handled(r, r) /\ FramesKept(r, r, "none") /\ BuffersKept(r, r) /\ Shown(r, r)
    BY FollowsSelf DEF Handled, FramesKept
  <2> QED
    BY <1>5, <2>1, <2>2 DEF Sharing
<1>6. CASE ~(r.stopped \/ r.dead) /\ o \notin Captured(r) /\ ~Named
  <2> DEFINE u == screen_add_capture(r, o)
  <2>1. q = screen_layout(u, g, frees)
    BY <1>6 DEF screen_output_changed
  <2>2. /\ Kept(u) /\ SameCanvas(r, u) /\ OthersSame(r, u, o)
        /\ u.told = r.told /\ u.stopped = r.stopped /\ u.captures # <<>>
        /\ Used(u.cap[o]) /\ ~u.cap[o].has
        /\ Captured(u) = Captured(r) \cup {o}
    BY <1>6, AddedParts
  <2> HIDE DEF q, u
  <2>3. Known(u, g)
    BY <2>2 DEF Known
  <2>4. /\ Kept(q) /\ SameFlags(u, q) /\ Captured(q) = Captured(u)
        /\ u.dead => q.dead /\ q.seen = u.seen
        /\ \A p \in Output : /\ q.cap[p].frame = u.cap[p].frame
                             /\ q.cap[p].pixels = u.cap[p].pixels
                             /\ q.cap[p].size = u.cap[p].size
        /\ ~q.dead /\ Going(u) => Sharing(q, g) /\ BuffersKept(u, q) /\ Shown(u, q)
    BY <1>2, <2>1, <2>2, <2>3
  <2>5. ~r.cap[o].frame
    BY <1>6 DEF Kept, CaptureOK
  <2>6. Handled(r, q) /\ FramesKept(r, q, "none")
    BY <2>2, <2>4, <2>5 DEF Handled, FramesKept, SameFlags, SameCanvas, OthersSame
  <2>7. Going(r) => Going(u)
    <3>1. ASSUME Going(r)
          PROVE  \A p \in Captured(u) : Used(u.cap[p])
      BY <1>1, <2>2, <3>1 DEF OthersSame
    <3>2. ASSUME Going(r)
          PROVE  SeenWhole(u)
      BY <1>1, <2>2, <3>2 DEF SeenWhole, SameCanvas, OthersSame
    <3> QED
      BY <2>2, <3>1, <3>2
  <2>8. Follows(r, u)
    BY <1>1, <2>2 DEF Follows, SameCanvas, OthersSame
  <2>9. ASSUME ~q.dead, Going(r)
        PROVE  Sharing(q, g) /\ BuffersKept(r, q) /\ Shown(r, q)
    <3> HIDE DEF Going
    <3> QED
      BY <2>4, <2>7, <2>8, <2>9, FollowsSelf, FollowsParts
  <2>10. ~Ended(q) => ~q.dead
    BY DEF Ended
  <2> QED
    BY <2>2, <2>4, <2>6, <2>9, <2>10 DEF q
<1> QED
  BY <1>3, <1>4, <1>5, <1>6

-----------------------------------------------------------------------------
(* The screen at first.                                                    *)

LEMMA ListedParts ==
  ASSUME NEW S \in SUBSET Output
  PROVE  /\ Listed(S) \in Seq(S) /\ {Listed(S)[i] : i \in DOMAIN Listed(S)} = S
         /\ \A i, j \in DOMAIN Listed(S) : Listed(S)[i] = Listed(S)[j] => i = j
<1> DEFINE n == Cardinality(S)
           q == Listed(S)
<1>1. IsFiniteSet(S)
  BY FS_Subset, ScreenAssumption
<1>2. n \in Nat /\ ExistsBijection(1 .. n, S)
  BY <1>1, FS_CardinalityType
<1>3. PICK f : f \in Surjection(1 .. n, S)
  BY <1>2 DEF ExistsBijection, Bijection
<1>4. f \in [1 .. n -> S] /\ {f[i] : i \in DOMAIN f} = S
  BY <1>3 DEF Surjection
<1>5. q \in [1 .. n -> S] /\ {q[i] : i \in DOMAIN q} = S
  BY <1>4 DEF Listed
<1> HIDE DEF q
<1>6. q \in Surjection(1 .. n, S)
  BY <1>5 DEF Surjection
<1>7. IsFiniteSet(1 .. n) /\ Cardinality(1 .. n) = n
  <2>1. IsFiniteSet(1 .. n) /\ Cardinality(1 .. n) = IF 1 > n THEN 0 ELSE n - 1 + 1
    BY <1>2, FS_Interval
  <2> QED
    BY <1>2, <2>1
<1>8. q \in Injection(1 .. n, S)
  BY <1>6, <1>7, FS_SurjSameCardinalityImpliesInj
<1>9. \A i, j \in DOMAIN q : q[i] = q[j] => i = j
  BY <1>8 DEF Injection, IsInjective
<1>10. q \in Seq(S)
  BY <1>2, <1>5
<1> QED
  BY <1>5, <1>9, <1>10 DEF q

\* What the frame function is told of at first: nothing.
LEMMA NewScreenParts ==
  ASSUME NEW g \in FirstOuts
  PROVE  LET q == NewScreen(g)
         IN  /\ g \in [Output -> ScreenGeometry \cup {Gone}] /\ AllClear(g)
             /\ Kept(q) /\ Known(q, g) /\ ~Ended(q)
             /\ Sharing(q, g) /\ \A o \in Output : ~q.cap[o].frame /\ ~q.cap[o].has
<1> DEFINE all == {o \in Output : g[o] # Gone}
           known == Listed(all)
           used == IF Named THEN <<known[1]>> ELSE known
           cap(o) == [NoCapture EXCEPT !.session = \E i \in DOMAIN used : used[i] = o]
           caps == [o \in Output |-> cap(o)]
           z == <<0, 0>>
           blank == Blank(z)
           new == [captures |-> used, cap |-> caps,
                   canvas |-> blank, size |-> z, damage |-> {},
                   seen |-> blank, told |-> 0, stopped |-> FALSE,
                   stopped_idle |-> FALSE, dead |-> FALSE, freed |-> FALSE,
                   broken |-> FALSE]
           q == NewScreen(g)
<1>1. q = screen_layout(new, g, FALSE)
  BY DEF NewScreen
<1>2. /\ g \in [Output -> ScreenGeometry \cup {Gone}] /\ \E o \in Output : g[o] # Gone
      /\ \A o, p \in Output : o # p /\ g[o] # Gone /\ g[p] # Gone => Disjoint(g[o], g[p])
  BY FirstAssumption
<1>3. AllClear(g)
  BY <1>2 DEF AllClear, Disjoint, Clear, Apart
<1>4. /\ known \in Seq(all) /\ {known[i] : i \in DOMAIN known} = all
      /\ \A i, j \in DOMAIN known : known[i] = known[j] => i = j
  BY ListedParts
<1>5. 1 \in DOMAIN known /\ known[1] \in all
  <2>1. DOMAIN known = 1 .. Len(known) /\ Len(known) \in Nat
    BY <1>4
  <2>2. \E i \in DOMAIN known : TRUE
    BY <1>2, <1>4
  <2>3. 1 \in DOMAIN known
    BY <2>1, <2>2
  <2> QED
    BY <1>4, <2>3
<1> HIDE DEF known
<1>6. /\ used \in Seq(Output) /\ used # <<>>
      /\ \A i \in DOMAIN used : g[used[i]] # Gone
      /\ \A i, j \in DOMAIN used : used[i] = used[j] => i = j
  <2>1. CASE Named
    <3> DEFINE one == <<known[1]>>
    <3>1. used = one
      BY <2>1
    <3>2. /\ one \in Seq(Output) /\ one # <<>> /\ DOMAIN one = {1} /\ one[1] = known[1]
      BY <1>5
    <3> HIDE DEF one, used
    <3> QED
      BY <1>5, <3>1, <3>2
  <2>2. CASE ~Named
    <3>1. used = known
      BY <2>2
    <3>2. used # <<>>
      BY <1>5, <3>1
    <3>3. \A i \in DOMAIN known : known[i] \in Output /\ g[known[i]] # Gone
      BY <1>4
    <3>4. known \in Seq(Output)
      BY <1>4
    <3> HIDE DEF used
    <3> QED
      BY <1>4, <3>1, <3>2, <3>3, <3>4
  <2> QED
    BY <2>1, <2>2
<1> HIDE DEF used
<1>7. ASSUME NEW o \in Output
      PROVE  /\ cap(o) \in CaptureType /\ CaptureOK(cap(o)) /\ ~cap(o).frame /\ ~cap(o).has
             /\ cap(o).session <=> \E i \in DOMAIN used : used[i] = o
             /\ cap(o).session => Used(cap(o))
  <2> DEFINE c == NoCapture
             b == \E i \in DOMAIN used : used[i] = o
             d == [c EXCEPT !.session = b]
  <2>1. c \in CaptureType /\ ~c.frame /\ ~c.has /\ c.pixels = NoPixels /\ c.size = <<0, 0>>
    BY NoCaptureParts DEF NoCapture
  <2>2. b \in BOOLEAN
    OBVIOUS
  <2>3. cap(o) = d
    OBVIOUS
  <2> HIDE DEF c, b, d, cap
  <2>4. /\ d \in CaptureType /\ d.session = b /\ ~d.frame /\ ~d.has /\ d.pixels = NoPixels
        /\ d.size = <<0, 0>>
    BY <2>1, <2>2 DEF CaptureType, d
  <2>5. CaptureOK(d) /\ (d.session => Used(d))
    BY <2>4 DEF CaptureOK, Used
  <2> QED
    BY <2>3, <2>4, <2>5 DEF b
<1> HIDE DEF cap
<1>8. caps \in [Output -> CaptureType] /\ \A o \in Output : caps[o] = cap(o)
  BY <1>7
<1>9. z \in Nat \X Nat /\ blank \in Pictures /\ DOMAIN blank = Cells(z)
  <2>1. z \in Nat \X Nat
    OBVIOUS
  <2> HIDE DEF z
  <2> QED
    BY <2>1, PictureParts
<1> HIDE DEF caps, z, blank
<1>10. /\ new \in ScreenType /\ new.captures = used /\ new.cap = caps /\ new.canvas = blank
       /\ new.size = z /\ new.damage = {} /\ ~new.stopped /\ ~new.stopped_idle /\ ~new.dead
       /\ ~new.freed /\ ~new.broken
  BY <1>6, <1>8, <1>9 DEF ScreenType
<1> HIDE DEF new, q
<1>11. Captured(new) \subseteq Output /\ \A o \in Output : caps[o].session <=> o \in Captured(new)
  BY <1>6, <1>7, <1>8, <1>10 DEF Captured
<1>12. Kept(new)
  BY <1>6, <1>7, <1>8, <1>9, <1>10, <1>11 DEF Kept
<1>13. Known(new, g)
  BY <1>6, <1>10 DEF Known, Captured
<1>14. \A o \in Captured(new) : Used(new.cap[o])
  BY <1>7, <1>8, <1>10, <1>11
<1>15. \A o \in Output : ~new.cap[o].has /\ ~new.cap[o].frame
  BY <1>7, <1>8, <1>10
<1>16. SeenWhole(new) /\ new.captures # <<>>
  BY <1>6, <1>10, <1>11, <1>15 DEF SeenWhole
<1>17. /\ Kept(q) /\ SameFlags(new, q) /\ SameCaptures(new, q)
       /\ (\A o \in Captured(new) : ~new.cap[o].has) => q.dead = new.dead
  BY <1>1, <1>2, <1>12, <1>13, LayoutParts
<1>18. ~q.dead
  BY <1>10, <1>11, <1>15, <1>17
<1>19. Sharing(q, g)
  BY <1>1, <1>2, <1>3, <1>12, <1>13, <1>14, <1>16, <1>18, LaidOutAnew
<1>20. Known(q, g) /\ ~Ended(q)
  BY <1>10, <1>13, <1>17, <1>18 DEF Known, Captured, SameFlags, Ended
<1>21. ASSUME NEW o \in Output
       PROVE  ~q.cap[o].frame /\ ~q.cap[o].has
  <2> DEFINE c == new.cap[o]
             d == q.cap[o]
  <2>1. c \in CaptureType /\ d = [c EXCEPT !.at = d.at]
    BY <1>10, <1>17 DEF ScreenType, SameCaptures
  <2> HIDE DEF c, d
  <2>2. d.frame = c.frame /\ d.has = c.has
    BY <2>1, SameParts
  <2> QED
    BY <1>15, <2>2 DEF c, d
<1> QED
  BY <1>2, <1>3, <1>17, <1>19, <1>20, <1>21 DEF q

-----------------------------------------------------------------------------
(* Events.                                                                 *)

LEMMA EventParts ==
  ASSUME NEW e \in Event_Type
  PROVE  /\ e.on \in Output
         /\ e.kind \in {"ready", "failed", "constraints", "stopped", "removed", "output"}
         /\ e.kind = "ready" => e.arg \in SUBSET (Int \X Int)
         /\ e.kind = "failed" => e.arg \in {"constraints", "stopped", "unknown"}
         /\ e.kind = "constraints" => e.arg \in Offered
         /\ e.kind = "output" => e.arg \in ScreenGeometry
BY DEF Event_Type

LEMMA PickedLen ==
  ASSUME NEW T, NEW q \in Seq(T), NEW keep \in SUBSET DOMAIN q, NEW p \in Seq(T),
         NEW f, PickedBy(p, q, keep, f)
  PROVE  Len(p) <= Len(q)
<1> DEFINE m == Len(p)
           n == Len(q)
<1>1. m \in Nat /\ n \in Nat /\ DOMAIN q = 1 .. n
  OBVIOUS
<1>2. f \in [1 .. m -> 1 .. n] /\ \A i, j \in 1 .. m : i < j => f[i] < f[j]
  BY <1>1 DEF PickedBy
<1> HIDE DEF m, n
<1>3. f \in Injection(1 .. m, 1 .. n)
  <2>1. ASSUME NEW i \in 1 .. m, NEW j \in 1 .. m, f[i] = f[j]
        PROVE  i = j
    <3>1. f[i] \in Int /\ f[j] \in Int /\ i \in Int /\ j \in Int
      BY <1>2
    <3> QED
      BY <1>2, <2>1, <3>1
  <2> QED
    BY <1>2, <2>1 DEF Injection, IsInjective
<1>4. \A k \in Nat : IsFiniteSet(1 .. k) /\ Cardinality(1 .. k) = k
  <2>1. ASSUME NEW k \in Nat
        PROVE  IsFiniteSet(1 .. k) /\ Cardinality(1 .. k) = k
    <3>1. IsFiniteSet(1 .. k) /\ Cardinality(1 .. k) = IF 1 > k THEN 0 ELSE k - 1 + 1
      BY FS_Interval
    <3> QED
      BY <3>1
  <2> QED
    BY <2>1
<1>5. Cardinality(1 .. m) <= Cardinality(1 .. n)
  BY <1>1, <1>3, <1>4, FS_Injection
<1>6. m <= n
  BY <1>1, <1>4, <1>5
<1> QED
  BY <1>6 DEF m, n

\* The event behind the first.
LEMMA TailParts ==
  ASSUME NEW T, NEW q \in Seq(T), q # <<>>
  PROVE  /\ Head(q) = q[1] /\ 1 \in DOMAIN q /\ Tail(q) \in Seq(T)
         /\ Len(q) \in Nat \ {0} /\ Len(Tail(q)) = Len(q) - 1
         /\ DOMAIN q = 1 .. Len(q) /\ DOMAIN Tail(q) = 1 .. Len(q) - 1
         /\ \A i \in DOMAIN Tail(q) : Tail(q)[i] = q[i + 1] /\ i + 1 \in DOMAIN q
OBVIOUS

\* The places Deliver keeps.
Held(r, q, replaced) ==
  {i \in DOMAIN q :
     \/ q[i].kind \in {"output", "removed"}
     \/ /\ r.cap[q[i].on].session
        /\ q[i].kind \in {"ready", "failed"} => q[i].on # replaced}

LEMMA Delivered ==
  ASSUME TypeInv, NEW q \in Seq(Event_Type), Len(q) <= MaxEvents, Answered(s, q),
         NEW r, Handled(s, r), NEW replaced, Deliver(r, q, replaced),
         NEW o, FramesKept(s, r, o),
         \A i \in DOMAIN q : q[i].kind \in {"ready", "failed"} /\ q[i].on = o => o = replaced
  PROVE  /\ s' = r /\ events' \in Seq(Event_Type) /\ Len(events') <= MaxEvents
         /\ Answered(r, events')
         /\ session' \in [Output -> {"none", "new", "on", "stopped"}]
         /\ \A p \in Output : session'[p] # "none" <=> r.cap[p].session
         /\ \E f : PickedBy(events', q, Held(r, q, replaced), f)
<1> DEFINE keep == Held(r, q, replaced)
<1>1. /\ s' = r /\ events' = Picked(q, keep)
      /\ session' = [p \in Output |->
           IF ~r.cap[p].session THEN "none"
           ELSE IF ~s.cap[p].session THEN "new" ELSE session[p]]
  BY DEF Deliver, Held
<1>2. keep \in SUBSET DOMAIN q
  BY DEF Held
<1> HIDE DEF keep
<1>3. events' \in Seq(Event_Type) /\ \E f : PickedBy(events', q, keep, f)
  BY <1>1, <1>2, PickedParts
<1>4. PICK f : PickedBy(events', q, keep, f)
  BY <1>3
<1>5. Len(events') <= Len(q)
  BY <1>2, <1>3, <1>4, PickedLen
<1>6. Len(events') <= MaxEvents
  <2>1. Len(events') \in Nat /\ Len(q) \in Nat /\ MaxEvents \in Nat
    BY <1>3, ScreenAssumption
  <2> QED
    BY <1>5, <2>1
<1>7. /\ session' \in [Output -> {"none", "new", "on", "stopped"}]
      /\ \A p \in Output : session'[p] # "none" <=> r.cap[p].session
  BY <1>1 DEF TypeInv
<1>8. /\ DOMAIN events' = 1 .. Len(events') /\ f \in [1 .. Len(events') -> keep]
      /\ \A i \in 1 .. Len(events') : events'[i] = q[f[i]]
      /\ \A i, j \in 1 .. Len(events') : i < j => f[i] < f[j]
  BY <1>3, <1>4 DEF PickedBy
<1>9. ASSUME NEW i \in DOMAIN events', events'[i].kind \in {"ready", "failed"}
      PROVE  r.cap[events'[i].on].frame
  <2> DEFINE e == events'[i]
  <2>1. f[i] \in keep /\ f[i] \in DOMAIN q /\ e = q[f[i]]
    BY <1>2, <1>8
  <2>2. r.cap[e.on].session /\ e.on # replaced
    BY <1>9, <2>1 DEF Held, keep
  <2>3. s.cap[e.on].frame /\ e.on \in Output
    BY <1>9, <2>1, EventParts DEF Answered
  <2>4. e.on # o
    BY <1>9, <2>1, <2>2
  <2> HIDE DEF e
  <2>5. r.cap[e.on].frame
    BY <2>2, <2>3, <2>4 DEF FramesKept
  <2> QED
    BY <2>5 DEF e
<1>10. ASSUME NEW i \in DOMAIN events', NEW j \in DOMAIN events',
              events'[i].kind \in {"ready", "failed"}, events'[j].kind \in {"ready", "failed"},
              events'[i].on = events'[j].on
       PROVE  i = j
  <2>1. f[i] \in DOMAIN q /\ f[j] \in DOMAIN q /\ events'[i] = q[f[i]] /\ events'[j] = q[f[j]]
    BY <1>2, <1>8
  <2>2. f[i] = f[j]
    BY <1>10, <2>1 DEF Answered
  <2>3. f[i] \in Int /\ f[j] \in Int /\ i \in Int /\ j \in Int
    BY <1>8, <2>1
  <2> QED
    BY <1>8, <2>2, <2>3
<1>11. Answered(r, events')
  BY <1>9, <1>10 DEF Answered
<1> QED
  BY <1>1, <1>3, <1>6, <1>7, <1>11 DEF keep

\* What the handler of the first event does: it leaves r, and the frames of
\* all captures but o are waited for as before.
Handling(r, replaced, o) ==
  /\ Deliver(r, Tail(events), replaced) /\ Handled(s, r) /\ FramesKept(s, r, o)
  /\ \A i \in DOMAIN Tail(events) :
       Tail(events)[i].kind \in {"ready", "failed"} /\ Tail(events)[i].on = o => o = replaced
  /\ \A p \in Output : p = replaced /\ Used(s.cap[p]) => ~r.cap[p].has
  /\ outs' \in [Output -> ScreenGeometry \cup {Gone}] /\ Known(r, outs')
  /\ \/ /\ Head(events).kind = "ready" /\ outs' = outs
        /\ \E frees \in BOOLEAN : r = frame_ready(s, Head(events).on, Head(events).arg, frees)
     \/ /\ Head(events).kind # "ready"
        /\ /\ ~Ended(s) /\ ~Ended(r) /\ Sharing(s, outs) /\ AllClear(outs) /\ AllClear(outs')
           => Sharing(r, outs') /\ BuffersKept(s, r) /\ Shown(s, r)
  /\ \/ outs' = outs /\ Head(events).kind \notin {"output", "removed"}
     \/ Head(events).kind = "output" /\ outs' = [outs EXCEPT ![Head(events).on] = Head(events).arg]
     \/ Head(events).kind = "removed" /\ outs' = [outs EXCEPT ![Head(events).on] = Gone]

LEMMA DispatchParts ==
  ASSUME TypeInv, Dispatch
  PROVE  \E r, replaced, o : Handling(r, replaced, o)
<1> DEFINE e == Head(events)
           q == Tail(events)
           o == e.on
<1>1. /\ Kept(s) /\ Known(s, outs) /\ outs \in [Output -> ScreenGeometry \cup {Gone}]
      /\ events \in Seq(Event_Type) /\ Answered(s, events)
  BY DEF TypeInv
<1>2. ~s.freed /\ events # <<>> /\ \E frees \in BOOLEAN : Handle(e, frees)
  BY DEF Dispatch
<1>3. PICK frees \in BOOLEAN : Handle(e, frees)
  BY <1>2
<1>4. /\ e = events[1] /\ 1 \in DOMAIN events
      /\ \A i \in DOMAIN q : q[i] = events[i + 1] /\ i + 1 \in DOMAIN events /\ i + 1 # 1
  <2>1. /\ e = events[1] /\ 1 \in DOMAIN events /\ DOMAIN q = 1 .. Len(events) - 1
        /\ Len(events) \in Nat
        /\ \A i \in DOMAIN q : q[i] = events[i + 1] /\ i + 1 \in DOMAIN events
    BY <1>1, <1>2, TailParts
  <2>2. \A i \in DOMAIN q : i + 1 # 1
    <3> HIDE DEF q
    <3> QED
      BY <2>1
  <2> QED
    BY <2>1, <2>2
<1>5. e \in Event_Type
  BY <1>1, <1>4
<1>6. /\ o \in Output
      /\ e.kind = "failed" => e.arg \in {"constraints", "stopped", "unknown"}
      /\ e.kind = "constraints" => e.arg \in Offered
      /\ e.kind = "output" => e.arg \in ScreenGeometry
  BY <1>5, EventParts
<1> HIDE DEF e, q
<1>7. ASSUME NEW i \in DOMAIN q, q[i].kind \in {"ready", "failed"}, q[i].on = o,
             e.kind \in {"ready", "failed"}
      PROVE  FALSE
  BY <1>1, <1>4, <1>7 DEF Answered
<1>8. ASSUME NEW r, Captured(r) \subseteq Captured(s)
      PROVE  Known(r, outs)
  BY <1>1, <1>8 DEF Known
<1>9. CASE e.kind = "ready"
  <2> DEFINE r == frame_ready(s, o, e.arg, frees)
  <2>1. Deliver(r, q, "none") /\ outs' = outs
    BY <1>3, <1>9 DEF Handle, q
  <2>2. s.cap[o].frame
    BY <1>1, <1>4, <1>9 DEF Answered
  <2>3. Handled(s, r) /\ FramesKept(s, r, o) /\ Captured(r) \subseteq Captured(s)
    BY <1>1, <1>2, <1>6, <2>2, FrameReadyParts
  <2>4. \E f \in BOOLEAN : r = frame_ready(s, o, e.arg, f)
    OBVIOUS
  <2> HIDE DEF r
  <2>5. Handling(r, "none", o)
    BY <1>1, <1>7, <1>8, <1>9, <2>1, <2>3, <2>4, ScreenAssumption DEF Handling, q, e
  <2> QED
    BY <2>5
<1>10. CASE e.kind = "failed"
  <2> DEFINE r == frame_failed(s, o, e.arg)
  <2>1. Deliver(r, q, "none") /\ outs' = outs
    BY <1>3, <1>10 DEF Handle, q
  <2>2. /\ Handled(s, r) /\ FramesKept(s, r, o) /\ Captured(r) = Captured(s)
        /\ ~Ended(r) /\ Sharing(s, outs) => Sharing(r, outs) /\ BuffersKept(s, r) /\ Shown(s, r)
    BY <1>1, <1>2, <1>6, <1>10, FrameFailedParts
  <2> HIDE DEF r
  <2>3. Handling(r, "none", o)
    BY <1>1, <1>7, <1>8, <1>10, <2>1, <2>2, ScreenAssumption DEF Handling, q, e
  <2> QED
    BY <2>3
<1>11. CASE e.kind = "constraints"
  <2> DEFINE r == session_done(s, outs, o, e.arg, frees)
             replaced == IF NeedsBuffer(Constrained(s.cap[o], e.arg)) THEN o ELSE "none"
  <2>1. Deliver(r, q, replaced) /\ outs' = outs
    BY <1>3, <1>11 DEF Handle, q
  <2>2. /\ Handled(s, r) /\ FramesKept(s, r, o) /\ Captured(r) = Captured(s)
        /\ ~NeedsBuffer(Constrained(s.cap[o], e.arg)) => FramesKept(s, r, "none")
        /\ NeedsBuffer(Constrained(s.cap[o], e.arg)) /\ Used(s.cap[o]) => ~r.cap[o].has
        /\ ~Ended(r) /\ Sharing(s, outs) /\ AllClear(outs) =>
             Sharing(r, outs) /\ BuffersKept(s, r) /\ Shown(s, r)
    BY <1>1, <1>6, <1>11, SessionDoneParts
  <2> HIDE DEF r
  <2>3. /\ FramesKept(s, r, replaced)
        /\ \A p \in Output : p = replaced /\ Used(s.cap[p]) => ~r.cap[p].has
    BY <2>2, ScreenAssumption
  <2> HIDE DEF replaced
  <2>4. Handling(r, replaced, replaced)
    BY <1>1, <1>8, <1>11, <2>1, <2>2, <2>3 DEF Handling, q, e
  <2> QED
    BY <2>4
<1>12. CASE e.kind = "stopped"
  <2> DEFINE r == session_stopped(s, outs, o, frees)
  <2>1. Deliver(r, q, "none") /\ outs' = outs
    BY <1>3, <1>12 DEF Handle, q
  <2>2. /\ Handled(s, r) /\ FramesKept(s, r, "none") /\ Captured(r) \subseteq Captured(s)
        /\ ~Ended(r) /\ Sharing(s, outs) /\ AllClear(outs) =>
             Sharing(r, outs) /\ BuffersKept(s, r) /\ Shown(s, r)
    BY <1>1, <1>2, <1>6, SessionStoppedParts
  <2> HIDE DEF r
  <2>3. Handling(r, "none", "none")
    BY <1>1, <1>8, <1>12, <2>1, <2>2, ScreenAssumption DEF Handling, q, e
  <2> QED
    BY <2>3
<1>13. CASE e.kind = "output"
  <2> DEFINE g == [outs EXCEPT ![o] = e.arg]
             r == screen_output_changed(s, g, o, frees)
  <2>1. Deliver(r, q, "none") /\ outs' = g
    BY <1>3, <1>13 DEF Handle, output_done, q
  <2>2. /\ g \in [Output -> ScreenGeometry \cup {Gone}] /\ g[o] = e.arg
        /\ \A p \in Output : p # o => g[p] = outs[p]
    BY <1>1, <1>6, <1>13
  <2>3. g[o] # Gone
    BY <1>6, <1>13, <2>2, ScreenAssumption
  <2>4. Captured(s) \subseteq Output
    BY <1>1 DEF Kept, ScreenType, Captured
  <2> HIDE DEF g
  <2>5. Known(s, g)
    BY <1>1, <2>2, <2>3, <2>4 DEF Known
  <2>6. /\ Handled(s, r) /\ FramesKept(s, r, "none") /\ Captured(r) \subseteq Captured(s) \cup {o}
        /\ /\ ~Ended(r) /\ AllClear(g) /\ s.captures # <<>> /\ SeenWhole(s)
           /\ \A p \in Captured(s) : Used(s.cap[p])
           /\ o \notin Captured(s) => LaidOut(s, g)
           => Sharing(r, g) /\ BuffersKept(s, r) /\ Shown(s, r)
    BY <1>1, <1>6, <2>2, <2>3, <2>5, OutputChangedParts
  <2> HIDE DEF r
  <2>7. Known(r, g)
    BY <2>3, <2>5, <2>6 DEF Known
  <2>8. ASSUME Sharing(s, outs), o \notin Captured(s)
        PROVE  LaidOut(s, g)
    <3>1. \A i \in DOMAIN s.captures : s.captures[i] \in Captured(s)
      BY DEF Captured
    <3>2. \A i \in DOMAIN s.captures : g[s.captures[i]] = outs[s.captures[i]]
      BY <2>2, <2>4, <2>8, <3>1
    <3>3. Tiled(s, g) = Tiled(s, outs)
      BY <3>2 DEF Tiled
    <3> QED
      BY <2>8, <3>3 DEF Sharing, LaidOut
  <2>9. /\ ~Ended(r) /\ Sharing(s, outs) /\ AllClear(g)
        => Sharing(r, g) /\ BuffersKept(s, r) /\ Shown(s, r)
    BY <2>6, <2>8 DEF Sharing
  <2>10. Handling(r, "none", "none")
    BY <1>13, <2>1, <2>2, <2>6, <2>7, <2>9, ScreenAssumption DEF Handling, q, e, g
  <2> QED
    BY <2>10
<1>14. CASE e.kind = "removed"
  <2> DEFINE g == [outs EXCEPT ![o] = Gone]
             r == screen_output_removed(s, outs, o, frees)
  <2>1. Deliver(r, q, "none") /\ outs' = g
    BY <1>3, <1>14 DEF Handle, registry_global_remove, q
  <2>2. /\ g \in [Output -> ScreenGeometry \cup {Gone}] /\ g[o] = Gone
        /\ \A p \in Output : p # o => g[p] = outs[p]
    BY <1>1, <1>6
  <2>3. /\ Handled(s, r) /\ Captured(r) = Captured(s) \ {o} /\ FramesKept(s, r, "none")
        /\ ~Ended(r) /\ Sharing(s, outs) /\ AllClear(outs) =>
             Sharing(r, outs) /\ BuffersKept(s, r) /\ Shown(s, r)
    BY <1>1, <1>2, <1>6, OutputRemovedParts
  <2>4. Captured(s) \subseteq Output
    BY <1>1 DEF Kept, ScreenType, Captured
  <2> HIDE DEF r, g
  <2>5. Known(r, g)
    BY <1>1, <2>2, <2>3, <2>4 DEF Known
  <2>6. ASSUME Sharing(r, outs)
        PROVE  Sharing(r, g)
    <3>1. \A i \in DOMAIN r.captures : r.captures[i] \in Captured(r)
      BY DEF Captured
    <3>2. \A i \in DOMAIN r.captures : g[r.captures[i]] = outs[r.captures[i]]
      BY <2>2, <2>3, <2>4, <3>1
    <3>3. Tiled(r, g) = Tiled(r, outs)
      BY <3>2 DEF Tiled
    <3> QED
      BY <2>6, <3>3 DEF Sharing, LaidOut
  <2>7. Handling(r, "none", "none")
    BY <1>14, <2>1, <2>2, <2>3, <2>5, <2>6, ScreenAssumption DEF Handling, q, e, g
  <2> QED
    BY <2>7
<1> QED
  BY <1>3, <1>9, <1>10, <1>11, <1>12, <1>13, <1>14 DEF Handle

\* A new event behind the others.
LEMMA SentParts ==
  ASSUME NEW e \in Event_Type, events \in Seq(Event_Type), Len(events) <= MaxEvents, Send(e)
  PROVE  /\ events' \in Seq(Event_Type) /\ Len(events') <= MaxEvents
         /\ Len(events) \in Nat /\ DOMAIN events = 1 .. Len(events)
         /\ Len(events') = Len(events) + 1 /\ DOMAIN events' = 1 .. Len(events) + 1
         /\ events'[Len(events) + 1] = e
         /\ \A i \in DOMAIN events : i \in DOMAIN events' /\ events'[i] = events[i]
         /\ \A i \in DOMAIN events' : i \in DOMAIN events \/ i = Len(events) + 1
<1>1. events' = Append(events, e) /\ Len(events) < MaxEvents
  BY DEF Send
<1>2. Len(events') <= MaxEvents
  <2>1. Len(events) \in Nat /\ Len(events') = Len(events) + 1 /\ MaxEvents \in Nat
    BY <1>1, ScreenAssumption
  <2> QED
    BY <1>1, <2>1
<1>3. /\ events' \in Seq(Event_Type) /\ Len(events) \in Nat /\ DOMAIN events = 1 .. Len(events)
      /\ Len(events') = Len(events) + 1 /\ DOMAIN events' = 1 .. Len(events) + 1
      /\ events'[Len(events) + 1] = e
      /\ \A i \in 1 .. Len(events) : events'[i] = events[i]
  BY <1>1
<1> QED
  BY <1>2, <1>3

LEMMA SentAnswered ==
  ASSUME NEW e \in Event_Type, events \in Seq(Event_Type), Len(events) <= MaxEvents, Send(e),
         Answered(s, events), NEW r, \A o \in Output : s.cap[o].frame => r.cap[o].frame,
         e.kind \in {"ready", "failed"} => Requested(e.on)
  PROVE  Answered(r, events')
<1> DEFINE n == Len(events)
<1>1. /\ events' \in Seq(Event_Type) /\ DOMAIN events' = 1 .. n + 1 /\ events'[n + 1] = e
      /\ \A i \in DOMAIN events : i \in DOMAIN events' /\ events'[i] = events[i]
      /\ \A i \in DOMAIN events' : i \in DOMAIN events \/ i = n + 1
  BY SentParts
<1> HIDE DEF n
<1>2. \A i \in DOMAIN events : events[i].on \in Output
  BY EventParts
<1>3. e.on \in Output
  BY EventParts
<1>4. ASSUME NEW i \in DOMAIN events', events'[i].kind \in {"ready", "failed"}
      PROVE  r.cap[events'[i].on].frame
  <2>1. CASE i \in DOMAIN events
    BY <1>1, <1>2, <1>4, <2>1 DEF Answered
  <2>2. CASE i = n + 1
    BY <1>1, <1>3, <1>4, <2>2 DEF Requested
  <2> QED
    BY <1>1, <2>1, <2>2
<1>5. ASSUME NEW i \in DOMAIN events, events[i].kind \in {"ready", "failed"},
             e.kind \in {"ready", "failed"}, events[i].on = e.on
      PROVE  FALSE
  BY <1>5 DEF Requested
<1>6. ASSUME NEW i \in DOMAIN events', NEW j \in DOMAIN events',
             events'[i].kind \in {"ready", "failed"}, events'[j].kind \in {"ready", "failed"},
             events'[i].on = events'[j].on
      PROVE  i = j
  <2>1. CASE i \in DOMAIN events /\ j \in DOMAIN events
    BY <1>1, <1>6, <2>1 DEF Answered
  <2>2. CASE i = n + 1 /\ j = n + 1
    BY <2>2
  <2>3. CASE i \in DOMAIN events /\ j = n + 1
    BY <1>1, <1>5, <1>6, <2>3
  <2>4. CASE i = n + 1 /\ j \in DOMAIN events
    BY <1>1, <1>5, <1>6, <2>4
  <2> QED
    BY <1>1, <2>1, <2>2, <2>3, <2>4
<1> QED
  BY <1>4, <1>6 DEF Answered

\* The compositor writes into a buffer.
LEMMA WrittenParts ==
  ASSUME NEW r, Kept(r), NEW o \in Output, r.cap[o].pixels # NoPixels,
         NEW new \in [Cells(r.cap[o].size) -> Int]
  PROVE  LET q == With(r, o, [r.cap[o] EXCEPT !.pixels = new])
             c == r.cap[o]
             d == q.cap[o]
         IN  /\ Kept(q) /\ SameFlags(r, q) /\ SameCanvas(r, q) /\ OthersSame(r, q, o)
             /\ Captured(q) = Captured(r)
             /\ d.pixels = new /\ new # NoPixels
             /\ d.session = c.session /\ d.frame = c.frame /\ d.has = c.has /\ d.at = c.at
             /\ d.size = c.size /\ (Used(c) => Used(d))
<1> DEFINE c == r.cap[o]
           d == [c EXCEPT !.pixels = new]
           q == With(r, o, d)
<1>1. r \in ScreenType /\ c \in CaptureType /\ CaptureOK(c)
  BY DEF Kept, ScreenType
<1>2. c.size \in Size /\ c.size \in Nat \X Nat /\ new \in [Cells(c.size) -> Int]
  BY <1>1 DEF CaptureOK, Size
<1> HIDE DEF c
<1>3. new \in Pictures /\ new # NoPixels
  <2>1. Cells(c.size) # {} /\ new \in Pictures
    BY <1>2, PictureParts
  <2>2. DOMAIN NoPixels = {}
    BY DEF NoPixels
  <2> QED
    BY <1>2, <2>1, <2>2
<1>4. /\ d \in CaptureType /\ d.pixels = new
      /\ d.session = c.session /\ d.frame = c.frame /\ d.has = c.has /\ d.at = c.at
      /\ d.size = c.size /\ d.full = c.full /\ d.whole = c.whole /\ d.shm = c.shm
  BY <1>1, <1>3 DEF CaptureType
<1> HIDE DEF d
<1>5. CaptureOK(d) /\ (Used(c) => Used(d))
  BY <1>1, <1>2, <1>3, <1>4, c.pixels # NoPixels DEF CaptureOK, Used, c
<1>6. /\ Kept(q) /\ SameFlags(r, q) /\ SameCanvas(r, q) /\ q.cap[o] = d
      /\ OthersSame(r, q, o) /\ Captured(q) = Captured(r)
  BY <1>1, <1>4, <1>5, WithParts DEF c
<1> QED
  BY <1>3, <1>4, <1>5, <1>6 DEF c, d

-----------------------------------------------------------------------------
(* The invariants hold at first.                                           *)

LEMMA TypeStart ==
  ScreenInit => TypeInv
<1> SUFFICES ASSUME ScreenInit
             PROVE  TypeInv
  OBVIOUS
<1> USE DEF ScreenInit
<1>1. /\ outs \in FirstOuts /\ s = NewScreen(outs)
      /\ session = [o \in Output |-> IF s.cap[o].session THEN "new" ELSE "none"]
      /\ events = <<>> /\ changes = 0
  OBVIOUS
<1>2. /\ outs \in [Output -> ScreenGeometry \cup {Gone}]
      /\ Kept(s) /\ Known(s, outs)
  BY <1>1, NewScreenParts
<1>3. FirstOffer \in Offered /\ FirstOffer.size \in Nat \X Nat
  BY ScreenAssumption DEF Offered, Size
<1>4. offer \in [Output -> Offered]
  BY <1>3
<1> DEFINE first == [c \in Cells(FirstOffer.size) |-> 1]
<1>5. first \in Pictures /\ DOMAIN first = Cells(FirstOffer.size)
  <2>1. first \in [Cells(FirstOffer.size) -> Int]
    OBVIOUS
  <2> QED
    BY <1>3, <2>1, PictureParts
<1>6. Cells(FirstOffer.size) \subseteq Int \X Int
  BY <1>3, PictureParts
<1>7. \A o \in Output : content[o] = first /\ owed[o] = Cells(FirstOffer.size) /\ offer[o] = FirstOffer
  OBVIOUS
<1>8. content \in [Output -> Pictures] /\ owed \in [Output -> SUBSET (Int \X Int)]
  <2>1. content = [o \in Output |-> first] /\ owed = [o \in Output |-> Cells(FirstOffer.size)]
    OBVIOUS
  <2> HIDE DEF first, ScreenInit
  <2> QED
    BY <1>5, <1>6, <2>1
<1>9. session \in [Output -> {"none", "new", "on", "stopped"}]
      /\ \A o \in Output : session[o] # "none" <=> s.cap[o].session
  BY <1>1
<1>10. events \in Seq(Event_Type) /\ Len(events) = 0 /\ DOMAIN events = {}
  BY <1>1
<1>11. Answered(s, events)
  BY <1>10 DEF Answered
<1>12. Len(events) <= MaxEvents /\ changes \in 0 .. MaxChanges
  BY <1>1, <1>10, ScreenAssumption
<1> HIDE DEF first, ScreenInit
<1>13. \A o \in Output : DOMAIN content[o] = Cells(offer[o].size) /\ owed[o] \subseteq DOMAIN content[o]
  BY <1>5, <1>7
<1> QED
  BY <1>2, <1>4, <1>8, <1>9, <1>10, <1>11, <1>12, <1>13 DEF TypeInv

-----------------------------------------------------------------------------
(* Every step keeps the types.                                             *)

LEMMA TypeFacts ==
  ASSUME TypeInv, NEW o \in Output
  PROVE  /\ offer[o] \in Offered /\ offer[o].size \in Size /\ offer[o].size \in Nat \X Nat
         /\ Cells(offer[o].size) \subseteq Int \X Int
         /\ content[o] \in [Cells(offer[o].size) -> Int]
         /\ owed[o] \subseteq Cells(offer[o].size) /\ owed[o] \in SUBSET (Int \X Int)
         /\ s.cap[o] \in CaptureType /\ CaptureOK(s.cap[o])
         /\ s.cap[o].size \in Nat \X Nat
         /\ s.cap[o].pixels # NoPixels =>
              s.cap[o].pixels \in [Cells(s.cap[o].size) -> Int]
         /\ s.cap[o].frame => s.cap[o].session /\ s.cap[o].pixels # NoPixels
<1>1. offer[o] \in Offered /\ Kept(s)
  BY DEF TypeInv
<1>2. offer[o].size \in Size /\ offer[o].size \in Nat \X Nat
  BY <1>1 DEF Offered, Size
<1>3. Cells(offer[o].size) \subseteq Int \X Int
  BY <1>2, PictureParts
<1>4. /\ content[o] \in Pictures /\ DOMAIN content[o] = Cells(offer[o].size)
      /\ owed[o] \subseteq DOMAIN content[o]
  BY DEF TypeInv
<1>5. content[o] \in [Cells(offer[o].size) -> Int]
  BY <1>2, <1>4, PictureParts
<1>6. s.cap[o] \in CaptureType /\ CaptureOK(s.cap[o])
  BY <1>1 DEF Kept, ScreenType
<1>7. /\ s.cap[o].size \in Nat \X Nat
      /\ s.cap[o].pixels # NoPixels => s.cap[o].pixels \in [Cells(s.cap[o].size) -> Int]
  BY <1>6, CaptureParts
<1>8. s.cap[o].frame => s.cap[o].session /\ s.cap[o].pixels # NoPixels
  BY <1>6 DEF CaptureOK
<1> QED
  BY <1>1, <1>2, <1>3, <1>4, <1>5, <1>6, <1>7, <1>8

LEMMA EventTyped ==
  ASSUME NEW o \in Output
  PROVE  /\ \A a \in SUBSET (Int \X Int) : Event(o, "ready", a) \in Event_Type
         /\ \A a \in {"constraints", "stopped", "unknown"} : Event(o, "failed", a) \in Event_Type
         /\ \A a \in Offered : Event(o, "constraints", a) \in Event_Type
         /\ \A k \in {"stopped", "removed"} : Event(o, k, 0) \in Event_Type
         /\ \A a \in ScreenGeometry : Event(o, "output", a) \in Event_Type
         /\ \A k, a : Event(o, k, a).on = o /\ Event(o, k, a).kind = k /\ Event(o, k, a).arg = a
<1>1. \A a \in SUBSET (Int \X Int) : Event(o, "ready", a) \in Event_Type
  BY DEF Event, Event_Type
<1>2. \A a \in {"constraints", "stopped", "unknown"} : Event(o, "failed", a) \in Event_Type
  BY DEF Event, Event_Type
<1>3. \A a \in Offered : Event(o, "constraints", a) \in Event_Type
  BY DEF Event, Event_Type
<1>4. \A k \in {"stopped", "removed"} : Event(o, k, 0) \in Event_Type
  BY DEF Event, Event_Type
<1>5. \A a \in ScreenGeometry : Event(o, "output", a) \in Event_Type
  BY DEF Event, Event_Type
<1>6. \A k, a : Event(o, k, a).on = o /\ Event(o, k, a).kind = k /\ Event(o, k, a).arg = a
  BY DEF Event
<1> QED
  BY <1>1, <1>2, <1>3, <1>4, <1>5, <1>6

LEMMA KeptParts ==
  ASSUME NEW r, Kept(r), NEW q \in ScreenType, q.captures = r.captures, q.cap = r.cap,
         q.canvas = r.canvas, q.size = r.size, q.damage = r.damage, q.stopped = r.stopped,
         q.stopped_idle => q.stopped /\ ~q.freed
  PROVE  Kept(q) /\ Captured(q) = Captured(r)
BY DEF Kept, Captured

LEMMA TailAnswered ==
  ASSUME TypeInv, events # <<>>
  PROVE  Tail(events) \in Seq(Event_Type) /\ Len(Tail(events)) <= MaxEvents /\ Answered(s, Tail(events))
<1>1. events \in Seq(Event_Type) /\ Len(events) <= MaxEvents /\ Answered(s, events)
  BY DEF TypeInv
<1> DEFINE q == Tail(events)
<1>2. /\ q \in Seq(Event_Type) /\ Len(events) \in Nat /\ Len(q) = Len(events) - 1
      /\ DOMAIN q = 1 .. Len(events) - 1
      /\ \A i \in DOMAIN q : q[i] = events[i + 1] /\ i + 1 \in DOMAIN events
  BY <1>1, TailParts
<1>3. Len(q) <= MaxEvents
  BY <1>1, <1>2, ScreenAssumption
<1> HIDE DEF q
<1>4. \A i \in DOMAIN q : q[i].kind \in {"ready", "failed"} => s.cap[q[i].on].frame
  BY <1>1, <1>2 DEF Answered
<1>5. ASSUME NEW i \in DOMAIN q, NEW j \in DOMAIN q,
             q[i].kind \in {"ready", "failed"}, q[j].kind \in {"ready", "failed"},
             q[i].on = q[j].on
      PROVE  i = j
  <2>1. i + 1 = j + 1
    BY <1>1, <1>2, <1>5 DEF Answered
  <2> QED
    BY <1>2, <2>1
<1>6. Answered(s, q)
  BY <1>4, <1>5 DEF Answered
<1> QED
  BY <1>2, <1>3, <1>6 DEF q

LEMMA DispatchTyped ==
  ASSUME TypeInv, Dispatch
  PROVE  TypeInv'
<1>1. PICK r, replaced, o : Handling(r, replaced, o)
  BY DispatchParts
<1> DEFINE q == Tail(events)
<1>2. q \in Seq(Event_Type) /\ Len(q) <= MaxEvents /\ Answered(s, q)
  BY TailAnswered DEF Dispatch
<1>3. /\ Deliver(r, q, replaced) /\ Handled(s, r) /\ FramesKept(s, r, o)
      /\ \A i \in DOMAIN q : q[i].kind \in {"ready", "failed"} /\ q[i].on = o => o = replaced
      /\ outs' \in [Output -> ScreenGeometry \cup {Gone}] /\ Known(r, outs')
  BY <1>1 DEF Handling
<1> HIDE DEF q
<1>4. /\ s' = r /\ events' \in Seq(Event_Type) /\ Len(events') <= MaxEvents
      /\ Answered(r, events')
      /\ session' \in [Output -> {"none", "new", "on", "stopped"}]
      /\ \A p \in Output : session'[p] # "none" <=> r.cap[p].session
  BY <1>2, <1>3, Delivered
<1>5. Kept(r)
  BY <1>3 DEF Handled
<1>6. /\ owed' = [p \in Output |-> IF session'[p] = "new" THEN DOMAIN content[p] ELSE owed[p]]
      /\ content' = content /\ offer' = offer /\ changes' = changes
  BY DEF Dispatch
<1>7. /\ offer \in [Output -> Offered] /\ content \in [Output -> Pictures]
      /\ owed \in [Output -> SUBSET (Int \X Int)] /\ changes \in 0 .. MaxChanges
      /\ \A p \in Output : DOMAIN content[p] = Cells(offer[p].size) /\ owed[p] \subseteq DOMAIN content[p]
  BY DEF TypeInv
<1>8. \A p \in Output : DOMAIN content[p] \subseteq Int \X Int
  BY <1>7, TypeFacts
<1>9. owed' \in [Output -> SUBSET (Int \X Int)]
  BY <1>6, <1>7, <1>8
<1>10. \A p \in Output : DOMAIN content'[p] = Cells(offer'[p].size) /\ owed'[p] \subseteq DOMAIN content'[p]
  BY <1>6, <1>7
<1> QED
  BY <1>3, <1>4, <1>5, <1>6, <1>7, <1>9, <1>10 DEF TypeInv

LEMMA FreeTyped ==
  ASSUME TypeInv, Free
  PROVE  TypeInv'
<1> DEFINE r == rd_screen_free(s)
<1>1. Kept(s) /\ Known(s, outs) /\ events \in Seq(Event_Type) /\ Len(events) <= MaxEvents
      /\ Answered(s, events)
  BY DEF TypeInv
<1>2. /\ Kept(r) /\ SameCanvas(s, r) /\ r.told = s.told /\ r.freed /\ r.captures = <<>>
      /\ \A p \in Output : ~r.cap[p].session
  BY <1>1, FreedParts
<1> HIDE DEF r
<1>3. Deliver(r, events, "none")
  BY DEF Free, r
<1>4. Handled(s, r) /\ FramesKept(s, r, "none")
  BY <1>2 DEF Handled, FramesKept, SameCanvas
<1>5. \A i \in DOMAIN events :
        events[i].kind \in {"ready", "failed"} /\ events[i].on = "none" => "none" = "none"
  OBVIOUS
<1>6. /\ s' = r /\ events' \in Seq(Event_Type) /\ Len(events') <= MaxEvents
      /\ Answered(r, events')
      /\ session' \in [Output -> {"none", "new", "on", "stopped"}]
      /\ \A p \in Output : session'[p] # "none" <=> r.cap[p].session
  BY <1>1, <1>3, <1>4, <1>5, Delivered
<1>7. Known(r, outs)
  BY <1>2 DEF Known, Captured
<1>8. UNCHANGED <<outs, content, owed, offer, changes>>
  BY DEF Free
<1> QED
  BY <1>2, <1>6, <1>7, <1>8 DEF TypeInv

\* A stopped screen has no frames, and no answers to them are on their way.
LEMMA NothingAsked ==
  ASSUME TypeInv, s.stopped, NEW r
  PROVE  /\ \A o \in Output : ~s.cap[o].session /\ session[o] = "none"
         /\ Answered(r, events)
<1>1. Kept(s) /\ Answered(s, events) /\ events \in Seq(Event_Type)
      /\ \A o \in Output : session[o] # "none" <=> s.cap[o].session
  BY DEF TypeInv
<1>2. \A o \in Output : ~s.cap[o].session /\ ~s.cap[o].frame
  BY <1>1 DEF Kept, CaptureOK
<1>3. \A i \in DOMAIN events : events[i].kind \notin {"ready", "failed"}
  <2>1. \A i \in DOMAIN events : events[i] \in Event_Type
    BY <1>1
  <2>2. \A i \in DOMAIN events : events[i].on \in Output
    BY <2>1, EventParts
  <2> QED
    BY <1>1, <1>2, <2>2 DEF Answered
<1>4. Answered(r, events)
  BY <1>3 DEF Answered
<1> QED
  BY <1>1, <1>2, <1>4

LEMMA IdleTyped ==
  ASSUME TypeInv, screen_stopped_idle
  PROVE  TypeInv'
<1>1. PICK frees \in BOOLEAN :
        s' = FreedIfDead([s EXCEPT !.stopped_idle = FALSE,
               !.told = IF s.dead THEN @ ELSE @ + 1, !.dead = @ \/ frees])
  BY DEF screen_stopped_idle
<1> DEFINE told == IF s.dead THEN s.told ELSE s.told + 1
           dead == s.dead \/ frees
           r == [s EXCEPT !.stopped_idle = FALSE, !.told = told, !.dead = dead]
<1>2. Kept(s) /\ s.stopped_idle /\ Known(s, outs)
  BY DEF TypeInv, screen_stopped_idle
<1>3. s \in ScreenType /\ s.stopped /\ ~s.freed
  BY <1>2 DEF Kept
<1>4. r \in ScreenType
  <2>1. told \in Nat /\ dead \in BOOLEAN
    BY <1>3 DEF ScreenType
  <2> HIDE DEF told, dead
  <2> QED
    BY <1>3, <2>1 DEF ScreenType
<1>5. /\ r.captures = s.captures /\ r.cap = s.cap /\ r.canvas = s.canvas /\ r.size = s.size
      /\ r.damage = s.damage /\ r.stopped = s.stopped /\ ~r.stopped_idle
  BY <1>3 DEF ScreenType
<1> HIDE DEF r
<1>6. Kept(r) /\ Captured(r) = Captured(s)
  BY <1>2, <1>4, <1>5, KeptParts
<1>7. s' = FreedIfDead(r)
  BY <1>1 DEF r
<1>8. \A p \in Output : ~s.cap[p].session /\ session[p] = "none"
  BY <1>3, NothingAsked
<1>9. Answered(FreedIfDead(r), events)
  BY <1>3, NothingAsked
<1>10. /\ Kept(FreedIfDead(r)) /\ Captured(FreedIfDead(r)) \subseteq Captured(s)
       /\ \A p \in Output : ~FreedIfDead(r).cap[p].session
  <2>1. CASE r.dead
    <3>1. FreedIfDead(r) = rd_screen_free(r)
      BY <2>1 DEF FreedIfDead
    <3>2. /\ Kept(rd_screen_free(r)) /\ rd_screen_free(r).captures = <<>>
          /\ \A p \in Output : ~rd_screen_free(r).cap[p].session
      BY <1>6, FreedParts
    <3>3. Captured(rd_screen_free(r)) = {}
      BY <3>2 DEF Captured
    <3> QED
      BY <3>1, <3>2, <3>3
  <2>2. CASE ~r.dead
    <3>1. FreedIfDead(r) = r
      BY <2>2 DEF FreedIfDead
    <3> QED
      BY <1>5, <1>6, <1>8, <3>1
  <2> QED
    BY <2>1, <2>2
<1>11. Known(FreedIfDead(r), outs)
  BY <1>2, <1>10 DEF Known
<1>12. UNCHANGED <<outs, session, content, owed, offer, events, changes>>
  BY DEF screen_stopped_idle
<1> HIDE DEF FreedIfDead
<1>13. Kept(s') /\ Known(s', outs) /\ Answered(s', events)
       /\ \A p \in Output : ~s'.cap[p].session
  BY <1>7, <1>9, <1>10, <1>11
<1> QED
  BY <1>8, <1>12, <1>13 DEF TypeInv

\* The connection ends.
LEMMA BrokenTyped ==
  ASSUME TypeInv, Kept(s'), Known(s', outs), \A p \in Output : ~s'.cap[p].session,
         events' = <<>>, session' = [o \in Output |-> "none"],
         UNCHANGED <<outs, content, owed, offer>>, changes' \in 0 .. MaxChanges
  PROVE  TypeInv'
<1>1. events' \in Seq(Event_Type) /\ Len(events') = 0 /\ DOMAIN events' = {}
  OBVIOUS
<1>2. Answered(s', events') /\ Len(events') <= MaxEvents
  BY <1>1, ScreenAssumption DEF Answered
<1>3. session' \in [Output -> {"none", "new", "on", "stopped"}]
  OBVIOUS
<1>4. \A p \in Output : session'[p] # "none" <=> s'.cap[p].session
  OBVIOUS
<1> QED
  BY <1>1, <1>2, <1>3, <1>4 DEF TypeInv

LEMMA LoseTyped ==
  ASSUME TypeInv, Lose
  PROVE  TypeInv'
<1> DEFINE u == screen_emit_stopped(s)
           r == [u EXCEPT !.broken = TRUE]
<1>1. Kept(s) /\ Known(s, outs) /\ ~s.freed /\ changes \in 0 .. MaxChanges
  BY DEF TypeInv, Lose, Shared
<1>2. Kept(u) /\ u.captures = s.captures /\ u.freed = s.freed /\ u.stopped
      /\ \A p \in Output : ~u.cap[p].session
  BY <1>1, StoppedParts
<1> HIDE DEF u
<1>3. u \in ScreenType /\ (u.stopped_idle => u.stopped /\ ~u.freed)
  BY <1>2 DEF Kept
<1>4. /\ r \in ScreenType /\ r.captures = u.captures /\ r.cap = u.cap /\ r.canvas = u.canvas
      /\ r.size = u.size /\ r.damage = u.damage /\ r.stopped = u.stopped
      /\ r.stopped_idle = u.stopped_idle /\ r.freed = u.freed
  BY <1>3 DEF ScreenType
<1>5. s' = r /\ events' = <<>> /\ session' = [o \in Output |-> "none"]
      /\ UNCHANGED <<outs, content, owed, offer>>
      /\ changes' = changes + 1 /\ changes < MaxChanges
  BY DEF Lose, u, Change
<1> HIDE DEF r
<1>6. Kept(r) /\ Captured(r) = Captured(u)
  BY <1>2, <1>3, <1>4, KeptParts
<1>7. Known(r, outs)
  BY <1>1, <1>2, <1>6 DEF Known, Captured
<1>8. \A p \in Output : ~r.cap[p].session
  BY <1>2, <1>4
<1>9. changes' \in 0 .. MaxChanges
  BY <1>1, <1>5, ScreenAssumption
<1> QED
  BY <1>5, <1>6, <1>7, <1>8, <1>9, BrokenTyped

LEMMA CloseTyped ==
  ASSUME TypeInv, Close
  PROVE  TypeInv'
<1> DEFINE cleared == [o \in Output |-> NoCapture]
           nobody == <<>>
           r == [s EXCEPT !.captures = nobody, !.cap = cleared, !.stopped = TRUE, !.broken = TRUE]
<1>1. Kept(s) /\ ~s.freed /\ changes \in 0 .. MaxChanges
  BY DEF TypeInv, Close, Shared
<1>12. nobody \in Seq(Output) /\ nobody = <<>>
  OBVIOUS
<1>2. cleared \in [Output -> CaptureType]
  BY NoCaptureParts
<1>3. \A p \in Output : CaptureOK(cleared[p]) /\ ~cleared[p].session
  BY NoCaptureParts
<1> HIDE DEF cleared, nobody
<1>4. s \in ScreenType
  BY <1>1 DEF Kept
<1>5. r \in ScreenType
  BY <1>2, <1>4, <1>12 DEF ScreenType
<1>6. /\ r.captures = nobody /\ r.cap = cleared /\ r.canvas = s.canvas /\ r.size = s.size
      /\ r.damage = s.damage /\ r.stopped = TRUE /\ r.freed = s.freed
  BY <1>4 DEF ScreenType
<1>7. s' = r /\ events' = <<>> /\ session' = [o \in Output |-> "none"]
      /\ UNCHANGED <<outs, content, owed, offer, changes>>
  BY DEF Close, cleared, nobody
<1> HIDE DEF r
<1>8. DOMAIN r.captures = {} /\ Captured(r) = {}
  BY <1>6, <1>12 DEF Captured
<1>9. DOMAIN r.canvas = Cells(r.size) /\ r.damage = {}
  BY <1>1, <1>6 DEF Kept
<1>10. Kept(r)
  BY <1>1, <1>3, <1>5, <1>6, <1>8, <1>9 DEF Kept
<1>11. Known(r, outs) /\ \A p \in Output : ~r.cap[p].session
  BY <1>3, <1>6, <1>8 DEF Known
<1> QED
  BY <1>1, <1>7, <1>10, <1>11, BrokenTyped

\* What the compositor keeps.
Served ==
  /\ offer \in [Output -> Offered]
  /\ content \in [Output -> Pictures] /\ owed \in [Output -> SUBSET (Int \X Int)]
  /\ \A o \in Output : DOMAIN content[o] = Cells(offer[o].size) /\ owed[o] \subseteq DOMAIN content[o]
  /\ changes \in 0 .. MaxChanges

\* An event is sent; the screen keeps its sessions and frames.
LEMMA SentTyped ==
  ASSUME TypeInv, NEW e \in Event_Type, Send(e),
         e.kind \in {"ready", "failed"} => Requested(e.on),
         Kept(s'), Known(s', outs),
         \A o \in Output : /\ s'.cap[o].session <=> s.cap[o].session
                           /\ s.cap[o].frame => s'.cap[o].frame,
         session' \in [Output -> {"none", "new", "on", "stopped"}],
         \A o \in Output : session'[o] # "none" <=> session[o] # "none",
         outs' = outs, Served'
  PROVE  TypeInv'
<1>1. events \in Seq(Event_Type) /\ Len(events) <= MaxEvents /\ Answered(s, events)
  BY DEF TypeInv
<1>2. events' \in Seq(Event_Type) /\ Len(events') <= MaxEvents
  BY <1>1, SentParts
<1>3. Answered(s', events')
  BY <1>1, SentAnswered
<1>4. \A o \in Output : session'[o] # "none" <=> s'.cap[o].session
  BY DEF TypeInv
<1> QED
  BY <1>2, <1>3, <1>4 DEF TypeInv, Served

LEMMA ServedSame ==
  ASSUME TypeInv, UNCHANGED <<content, owed, offer>>, UNCHANGED changes \/ Change
  PROVE  Served'
<1>1. Served
  BY DEF TypeInv, Served
<1>2. changes' \in 0 .. MaxChanges
  BY <1>1, ScreenAssumption DEF Served, Change
<1> QED
  BY <1>1, <1>2 DEF Served

LEMMA ToldTyped ==
  ASSUME TypeInv, NEW e \in Event_Type, Send(e),
         e.kind \in {"ready", "failed"} => Requested(e.on),
         session' \in [Output -> {"none", "new", "on", "stopped"}],
         \A o \in Output : session'[o] # "none" <=> session[o] # "none",
         UNCHANGED <<s, outs, content, owed, offer>>, UNCHANGED changes \/ Change
  PROVE  TypeInv'
<1>1. Served'
  BY ServedSame
<1>2. Kept(s') /\ Known(s', outs)
  BY DEF TypeInv
<1>3. \A o \in Output : /\ s'.cap[o].session <=> s.cap[o].session
                        /\ s.cap[o].frame => s'.cap[o].frame
  OBVIOUS
<1> QED
  BY <1>1, <1>2, <1>3, SentTyped

LEMMA EventsTyped ==
  ASSUME TypeInv, NEW o \in Output,
         \/ Offer(o) \/ Refuse(o) \/ Fail(o) \/ Stop(o) \/ Withdraw(o)
         \/ \E g \in ScreenGeometry : Announce(o, g)
  PROVE  TypeInv'
<1>1. /\ session \in [Output -> {"none", "new", "on", "stopped"}] /\ offer[o] \in Offered
  BY TypeFacts DEF TypeInv
<1>2. ASSUME NEW to \in {"on", "stopped"}, session[o] # "none"
      PROVE  /\ [session EXCEPT ![o] = to] \in [Output -> {"none", "new", "on", "stopped"}]
             /\ \A p \in Output : [session EXCEPT ![o] = to][p] # "none" <=> session[p] # "none"
  BY <1>1, <1>2
<1>3. CASE Offer(o)
  <2> DEFINE e == Event(o, "constraints", offer[o])
  <2>1. e \in Event_Type /\ e.kind = "constraints"
    BY <1>1, EventTyped
  <2>2. Send(e) /\ session' = [session EXCEPT ![o] = "on"] /\ session[o] # "none"
        /\ UNCHANGED <<s, outs, content, owed, offer, changes>>
    BY <1>3 DEF Offer
  <2> HIDE DEF e
  <2>3. e.kind \notin {"ready", "failed"}
    BY <2>1
  <2> QED
    BY <1>2, <2>1, <2>2, <2>3, ToldTyped
<1>4. CASE Refuse(o)
  <2> DEFINE e == Event(o, "failed", "constraints")
  <2>1. e \in Event_Type /\ e.on = o
    BY EventTyped
  <2>2. Send(e) /\ Requested(o) /\ UNCHANGED <<s, outs, session, content, owed, offer, changes>>
    BY <1>4 DEF Refuse
  <2> HIDE DEF e
  <2> QED
    BY <1>1, <2>1, <2>2, ToldTyped
<1>5. CASE Fail(o)
  <2> DEFINE e == Event(o, "failed", "unknown")
  <2>1. e \in Event_Type /\ e.on = o
    BY EventTyped
  <2>2. Send(e) /\ Requested(o) /\ Change /\ UNCHANGED <<s, outs, session, content, owed, offer>>
    BY <1>5 DEF Fail
  <2> HIDE DEF e
  <2> QED
    BY <1>1, <2>1, <2>2, ToldTyped
<1>6. CASE Stop(o)
  <2>1. /\ session' = [session EXCEPT ![o] = "stopped"] /\ session[o] # "none" /\ Change
        /\ UNCHANGED <<s, outs, content, owed, offer>>
    BY <1>6 DEF Stop
  <2>2. \E e \in Event_Type : Send(e) /\ (e.kind \in {"ready", "failed"} => Requested(e.on))
    <3>1. CASE Send(Event(o, "stopped", 0))
      <4>1. Event(o, "stopped", 0) \in Event_Type /\ Event(o, "stopped", 0).kind = "stopped"
        BY EventTyped
      <4> QED
        BY <3>1, <4>1
    <3>2. CASE Requested(o) /\ Send(Event(o, "failed", "stopped"))
      <4>1. Event(o, "failed", "stopped") \in Event_Type /\ Event(o, "failed", "stopped").on = o
        BY EventTyped
      <4> QED
        BY <3>2, <4>1
    <3> QED
      BY <1>6, <3>1, <3>2 DEF Stop
  <2>3. PICK e \in Event_Type : Send(e) /\ (e.kind \in {"ready", "failed"} => Requested(e.on))
    BY <2>2
  <2> QED
    BY <1>2, <2>1, <2>3, ToldTyped
<1>7. CASE Withdraw(o)
  <2> DEFINE e == Event(o, "removed", 0)
  <2>1. e \in Event_Type /\ e.kind = "removed"
    BY EventTyped
  <2>2. Send(e) /\ Change /\ UNCHANGED <<s, outs, session, content, owed, offer>>
    BY <1>7 DEF Withdraw
  <2> HIDE DEF e
  <2>3. e.kind \notin {"ready", "failed"}
    BY <2>1
  <2> QED
    BY <1>1, <2>1, <2>2, <2>3, ToldTyped
<1>8. CASE \E g \in ScreenGeometry : Announce(o, g)
  <2>1. PICK g \in ScreenGeometry : Announce(o, g)
    BY <1>8
  <2> DEFINE e == Event(o, "output", g)
  <2>2. e \in Event_Type /\ e.kind = "output"
    BY EventTyped
  <2>3. Send(e) /\ Change /\ UNCHANGED <<s, outs, session, content, owed, offer>>
    BY <2>1 DEF Announce
  <2> HIDE DEF e
  <2>4. e.kind \notin {"ready", "failed"}
    BY <2>2
  <2> QED
    BY <1>1, <2>2, <2>3, <2>4, ToldTyped
<1> QED
  BY <1>3, <1>4, <1>5, <1>6, <1>7, <1>8

LEMMA PaintTyped ==
  ASSUME TypeInv, NEW o \in Output, NEW c \in DOMAIN content[o], Paint(o, c)
  PROVE  TypeInv'
<1>1. /\ content' = [content EXCEPT ![o][c] = 3 - @]
      /\ owed' = [owed EXCEPT ![o] = @ \cup {c}]
      /\ UNCHANGED <<s, outs, session, offer, events>> /\ Change
  BY DEF Paint
<1>2. /\ content \in [Output -> Pictures] /\ owed \in [Output -> SUBSET (Int \X Int)]
      /\ changes \in 0 .. MaxChanges
  BY DEF TypeInv
<1>3. /\ content[o] \in [Cells(offer[o].size) -> Int] /\ offer[o].size \in Nat \X Nat
      /\ Cells(offer[o].size) \subseteq Int \X Int /\ owed[o] \subseteq Cells(offer[o].size)
  BY TypeFacts
<1> DEFINE new == [content[o] EXCEPT ![c] = 3 - @]
<1>4. new \in [Cells(offer[o].size) -> Int]
  BY <1>3
<1>5. new \in Pictures /\ DOMAIN new = Cells(offer[o].size)
  BY <1>3, <1>4, PictureParts
<1>6. content' = [content EXCEPT ![o] = new]
  BY <1>1
<1> HIDE DEF new
<1>7. content' \in [Output -> Pictures]
  BY <1>2, <1>5, <1>6
<1>8. owed' \in [Output -> SUBSET (Int \X Int)]
  <2>1. owed[o] \cup {c} \in SUBSET (Int \X Int)
    BY <1>3
  <2> QED
    BY <1>1, <1>2, <2>1
<1>9. \A p \in Output : DOMAIN content'[p] = Cells(offer[p].size) /\ owed'[p] \subseteq DOMAIN content'[p]
  <2>1. ASSUME NEW p \in Output
        PROVE  DOMAIN content'[p] = Cells(offer[p].size) /\ owed'[p] \subseteq DOMAIN content'[p]
    <3>1. DOMAIN content[p] = Cells(offer[p].size) /\ owed[p] \subseteq DOMAIN content[p]
      BY DEF TypeInv
    <3>2. CASE p = o
      <4>1. content'[p] = new /\ owed'[p] = owed[o] \cup {c}
        BY <1>1, <1>2, <1>6, <3>2
      <4> QED
        BY <1>3, <1>5, <3>1, <3>2, <4>1
    <3>3. CASE p # o
      BY <1>1, <1>2, <1>6, <3>1, <3>3
    <3> QED
      BY <3>2, <3>3
  <2> QED
    BY <2>1
<1>10. changes' \in 0 .. MaxChanges
  BY <1>1, <1>2, ScreenAssumption DEF Change
<1> QED
  BY <1>1, <1>7, <1>8, <1>9, <1>10 DEF TypeInv

LEMMA ConstrainTyped ==
  ASSUME TypeInv, NEW o \in Output, NEW size \in BufferSize, NEW f \in ShmFormats,
         Constrain(o, [size |-> size, formats |-> f])
  PROVE  TypeInv'
<1> DEFINE to == [size |-> size, formats |-> f]
           first == [c \in Cells(to.size) |-> 1]
<1>1. to \in Offered /\ to.size \in Nat \X Nat
  BY ScreenAssumption DEF Offered, Size
<1> HIDE DEF to
<1>2. Constrain(o, to)
  BY DEF to
<1>3. /\ offer' = [offer EXCEPT ![o] = to] /\ content' = [content EXCEPT ![o] = first]
      /\ owed' = [owed EXCEPT ![o] = Cells(to.size)]
      /\ UNCHANGED <<s, outs, session>> /\ Change
  BY <1>2 DEF Constrain
<1>4. /\ content \in [Output -> Pictures] /\ owed \in [Output -> SUBSET (Int \X Int)]
      /\ offer \in [Output -> Offered] /\ changes \in 0 .. MaxChanges
      /\ \A p \in Output : DOMAIN content[p] = Cells(offer[p].size) /\ owed[p] \subseteq DOMAIN content[p]
  BY DEF TypeInv
<1>5. first \in Pictures /\ DOMAIN first = Cells(to.size) /\ Cells(to.size) \subseteq Int \X Int
  <2>1. first \in [Cells(to.size) -> Int]
    OBVIOUS
  <2> QED
    BY <1>1, <2>1, PictureParts
<1> HIDE DEF first
<1>6. changes' \in 0 .. MaxChanges
  BY <1>3, <1>4, ScreenAssumption DEF Change
<1>7. Served'
  <2>1. offer' \in [Output -> Offered] /\ content' \in [Output -> Pictures]
        /\ owed' \in [Output -> SUBSET (Int \X Int)]
    BY <1>1, <1>3, <1>4, <1>5
  <2>2. \A p \in Output : DOMAIN content'[p] = Cells(offer'[p].size) /\ owed'[p] \subseteq DOMAIN content'[p]
    BY <1>3, <1>4, <1>5
  <2> QED
    BY <1>6, <2>1, <2>2 DEF Served
<1>8. CASE session[o] = "on"
  <2> DEFINE e == Event(o, "constraints", to)
  <2>1. e \in Event_Type /\ e.kind = "constraints"
    BY <1>1, EventTyped
  <2>2. Send(e)
    BY <1>2, <1>8 DEF Constrain
  <2> HIDE DEF e
  <2>3. e.kind \notin {"ready", "failed"}
    BY <2>1
  <2>4. Kept(s') /\ Known(s', outs) /\ session' \in [Output -> {"none", "new", "on", "stopped"}]
    BY <1>3 DEF TypeInv
  <2>5. \A p \in Output : /\ s'.cap[p].session <=> s.cap[p].session
                          /\ s.cap[p].frame => s'.cap[p].frame
    BY <1>3
  <2> QED
    BY <1>3, <1>7, <2>1, <2>2, <2>3, <2>4, <2>5, SentTyped
<1>9. CASE session[o] # "on"
  <2>1. events' = events
    BY <1>2, <1>9 DEF Constrain
  <2> QED
    BY <1>3, <1>7, <2>1 DEF TypeInv, Served
<1> QED
  BY <1>8, <1>9

\* The screen with new pixels in one buffer.
Wrote(o, new) == s' = With(s, o, [s.cap[o] EXCEPT !.pixels = new])

LEMMA Asked ==
  ASSUME TypeInv, NEW o \in Output, Requested(o)
  PROVE  /\ s.cap[o].pixels \in [Cells(s.cap[o].size) -> Int] /\ s.cap[o].pixels # NoPixels
         /\ s.cap[o].frame /\ session[o] = "on"
BY TypeFacts DEF Requested

LEMMA CopyParts ==
  ASSUME TypeInv, NEW o \in Output, NEW c \in DOMAIN content[o], Copy(o, c)
  PROVE  \E new \in [Cells(s.cap[o].size) -> Int] :
           /\ Wrote(o, new) /\ \A p \in Cells(s.cap[o].size) \ owed[o] : new[p] = s.cap[o].pixels[p]
<1> DEFINE new == [s.cap[o].pixels EXCEPT ![c] = content[o][c]]
<1>1. /\ Requested(o) /\ c \in owed[o]
      /\ s' = [s EXCEPT !.cap[o].pixels[c] = content[o][c]]
  BY DEF Copy
<1>2. s.cap[o].pixels \in [Cells(s.cap[o].size) -> Int] /\ content[o][c] \in Int
  BY <1>1, Asked, TypeFacts
<1>3. new \in [Cells(s.cap[o].size) -> Int]
      /\ \A p \in Cells(s.cap[o].size) \ owed[o] : new[p] = s.cap[o].pixels[p]
  BY <1>1, <1>2
<1>4. Wrote(o, new)
  BY <1>1 DEF Wrote, With
<1> QED
  BY <1>3, <1>4

LEMMA ReadyParts ==
  ASSUME TypeInv, NEW o \in Output, Ready(o)
  PROVE  \E new \in [Cells(s.cap[o].size) -> Int] :
           /\ Wrote(o, new) /\ s.cap[o].size = offer[o].size
           /\ \A p \in Cells(s.cap[o].size) :
                new[p] = IF p \in owed[o] \/ s.cap[o].whole THEN content[o][p] ELSE s.cap[o].pixels[p]
<1> DEFINE new == [c \in DOMAIN s.cap[o].pixels |->
                     IF c \in owed[o] \/ s.cap[o].whole THEN content[o][c] ELSE s.cap[o].pixels[c]]
<1>1. /\ Requested(o) /\ s.cap[o].size = offer[o].size
      /\ s' = [s EXCEPT !.cap[o].pixels = [c \in DOMAIN @ |->
             IF c \in owed[o] \/ s.cap[o].whole THEN content[o][c] ELSE @[c]]]
  BY DEF Ready, Matches
<1>2. /\ s.cap[o].pixels \in [Cells(s.cap[o].size) -> Int]
      /\ content[o] \in [Cells(s.cap[o].size) -> Int]
  BY <1>1, Asked, TypeFacts
<1>3. new \in [Cells(s.cap[o].size) -> Int]
      /\ \A p \in Cells(s.cap[o].size) :
           new[p] = IF p \in owed[o] \/ s.cap[o].whole THEN content[o][p] ELSE s.cap[o].pixels[p]
  BY <1>2
<1>4. Wrote(o, new)
  BY <1>1 DEF Wrote, With
<1> QED
  BY <1>1, <1>3, <1>4

LEMMA ReadyAgainParts ==
  ASSUME TypeInv, NEW o \in Output, ReadyAgain(o)
  PROVE  /\ content[o] \in [Cells(s.cap[o].size) -> Int] /\ Wrote(o, content[o])
         /\ s.cap[o].size = offer[o].size
<1>1. /\ Requested(o) /\ s.cap[o].size = offer[o].size
      /\ s' = [s EXCEPT !.cap[o].pixels = content[o]]
  BY DEF ReadyAgain, Matches
<1>2. content[o] \in [Cells(s.cap[o].size) -> Int]
  BY <1>1, TypeFacts
<1>3. Wrote(o, content[o])
  BY <1>1 DEF Wrote, With
<1> QED
  BY <1>1, <1>2, <1>3

LEMMA WroteParts ==
  ASSUME TypeInv, NEW o \in Output, Requested(o),
         NEW new \in [Cells(s.cap[o].size) -> Int], Wrote(o, new)
  PROVE  LET c == s.cap[o]
             d == s'.cap[o]
         IN  /\ Kept(s') /\ SameFlags(s, s') /\ SameCanvas(s, s') /\ OthersSame(s, s', o)
             /\ Captured(s') = Captured(s)
             /\ d.pixels = new /\ new # NoPixels
             /\ d.session = c.session /\ d.frame = c.frame /\ d.has = c.has /\ d.at = c.at
             /\ d.size = c.size /\ (Used(c) => Used(d))
<1>1. Kept(s) /\ s.cap[o].pixels # NoPixels
  BY Asked DEF TypeInv
<1>2. s' = With(s, o, [s.cap[o] EXCEPT !.pixels = new])
  BY DEF Wrote
<1> QED
  BY <1>1, <1>2, WrittenParts

LEMMA WrittenTyped ==
  ASSUME TypeInv, NEW o \in Output,
         \/ \E c \in DOMAIN content[o] : Copy(o, c)
         \/ Ready(o) \/ ReadyAgain(o)
  PROVE  TypeInv'
<1>1. ASSUME NEW new \in [Cells(s.cap[o].size) -> Int], Wrote(o, new), Requested(o)
      PROVE  /\ Kept(s') /\ (outs' = outs => Known(s', outs))
             /\ \A p \in Output : /\ s'.cap[p].session <=> s.cap[p].session
                                  /\ s.cap[p].frame => s'.cap[p].frame
  <2>1. /\ Kept(s') /\ OthersSame(s, s', o) /\ Captured(s') = Captured(s)
        /\ s'.cap[o].session = s.cap[o].session /\ s'.cap[o].frame = s.cap[o].frame
    BY <1>1, WroteParts
  <2> QED
    BY <2>1 DEF Known, OthersSame, TypeInv
<1>2. CASE \E c \in DOMAIN content[o] : Copy(o, c)
  <2>1. PICK c \in DOMAIN content[o] : Copy(o, c)
    BY <1>2
  <2>2. PICK new \in [Cells(s.cap[o].size) -> Int] : Wrote(o, new)
    BY <2>1, CopyParts
  <2>3. Requested(o) /\ UNCHANGED <<outs, session, content, owed, offer, events, changes>>
    BY <2>1 DEF Copy
  <2>4. Kept(s') /\ Known(s', outs)
        /\ \A p \in Output : /\ s'.cap[p].session <=> s.cap[p].session
                             /\ s.cap[p].frame => s'.cap[p].frame
    BY <1>1, <2>2, <2>3
  <2>5. Answered(s', events)
    <3>1. Answered(s, events) /\ events \in Seq(Event_Type)
      BY DEF TypeInv
    <3>2. \A i \in DOMAIN events : events[i] \in Event_Type
      BY <3>1
    <3>3. \A i \in DOMAIN events : events[i].on \in Output
      BY <3>2, EventParts
    <3> QED
      BY <2>4, <3>1, <3>3 DEF Answered
  <2> QED
    BY <2>3, <2>4, <2>5 DEF TypeInv
<1>3. CASE Ready(o)
  <2>1. PICK new \in [Cells(s.cap[o].size) -> Int] : Wrote(o, new)
    BY <1>3, ReadyParts
  <2> DEFINE e == Event(o, "ready", owed[o])
  <2>2. e \in Event_Type /\ e.on = o
    BY EventTyped, TypeFacts
  <2>3. Send(e) /\ Requested(o) /\ owed' = [owed EXCEPT ![o] = {}]
        /\ UNCHANGED <<outs, session, content, offer, changes>>
    BY <1>3 DEF Ready
  <2> HIDE DEF e
  <2>4. Kept(s') /\ Known(s', outs)
        /\ \A p \in Output : /\ s'.cap[p].session <=> s.cap[p].session
                             /\ s.cap[p].frame => s'.cap[p].frame
    BY <1>1, <2>1, <2>3
  <2>5. Served'
    <3>1. Served
      BY DEF TypeInv, Served
    <3>2. /\ owed' \in [Output -> SUBSET (Int \X Int)]
          /\ \A p \in Output : owed'[p] \subseteq owed[p]
      BY <2>3, <3>1 DEF Served
    <3> QED
      BY <2>3, <3>1, <3>2 DEF Served
  <2>6. session' \in [Output -> {"none", "new", "on", "stopped"}]
        /\ \A p \in Output : session'[p] # "none" <=> session[p] # "none"
    BY <2>3 DEF TypeInv
  <2> QED
    BY <2>2, <2>3, <2>4, <2>5, <2>6, SentTyped
<1>4. CASE ReadyAgain(o)
  <2>1. content[o] \in [Cells(s.cap[o].size) -> Int] /\ Wrote(o, content[o])
    BY <1>4, ReadyAgainParts
  <2> DEFINE e == Event(o, "ready", DOMAIN content[o])
  <2>2. e \in Event_Type /\ e.on = o
    <3>1. DOMAIN content[o] \in SUBSET (Int \X Int)
      BY TypeFacts
    <3> QED
      BY <3>1, EventTyped
  <2>3. Send(e) /\ Requested(o) /\ UNCHANGED <<outs, session, content, owed, offer, changes>>
    BY <1>4 DEF ReadyAgain
  <2> HIDE DEF e
  <2>4. Kept(s') /\ Known(s', outs)
        /\ \A p \in Output : /\ s'.cap[p].session <=> s.cap[p].session
                             /\ s.cap[p].frame => s'.cap[p].frame
    BY <1>1, <2>1, <2>3
  <2>5. Served'
    BY <2>3, ServedSame
  <2>6. session' \in [Output -> {"none", "new", "on", "stopped"}]
        /\ \A p \in Output : session'[p] # "none" <=> session[p] # "none"
    BY <2>3 DEF TypeInv
  <2> QED
    BY <2>2, <2>3, <2>4, <2>5, <2>6, SentTyped
<1> QED
  BY <1>2, <1>3, <1>4

LEMMA TypeStep ==
  ASSUME TypeInv, [ScreenNext]_screenVars
  PROVE  TypeInv'
<1>1. CASE UNCHANGED screenVars
  BY <1>1 DEF screenVars, TypeInv
<1>2. CASE Dispatch
  BY <1>2, DispatchTyped
<1>3. CASE screen_stopped_idle
  BY <1>3, IdleTyped
<1>4. CASE Free
  BY <1>4, FreeTyped
<1>5. CASE Lose
  BY <1>5, LoseTyped
<1>6. CASE Close
  BY <1>6, CloseTyped
<1>7. ASSUME NEW o \in Output,
             \/ Offer(o) \/ Refuse(o) \/ Fail(o) \/ Stop(o) \/ Withdraw(o)
             \/ \E g \in ScreenGeometry : Announce(o, g)
      PROVE  TypeInv'
  BY <1>7, EventsTyped
<1>8. ASSUME NEW o \in Output,
             \/ \E c \in DOMAIN content[o] : Copy(o, c)
             \/ Ready(o) \/ ReadyAgain(o)
      PROVE  TypeInv'
  BY <1>8, WrittenTyped
<1>9. ASSUME NEW o \in Output, NEW c \in DOMAIN content[o], Paint(o, c)
      PROVE  TypeInv'
  BY <1>9, PaintTyped
<1>10. ASSUME NEW o \in Output, NEW size \in BufferSize, NEW f \in ShmFormats,
              Constrain(o, [size |-> size, formats |-> f])
       PROVE  TypeInv'
  BY <1>10, ConstrainTyped
<1> QED
  BY <1>1, <1>2, <1>3, <1>4, <1>5, <1>6, <1>7, <1>8, <1>9, <1>10 DEF ScreenNext

\* What the client and the compositor keep of a session is of its type, and
\* agrees: a session there is one there, an answer is to a frame asked for.
THEOREM TypesKept == ScreenSpec => []TypeInv
<1>1. TypeInv /\ [ScreenNext]_screenVars => TypeInv'
  BY TypeStep
<1> QED
  BY TypeStart, <1>1, PTL DEF ScreenSpec

\* The screen keeps its types, no more captures than outputs, and buffers,
\* frames and sessions that belong together (rd_screen_new and the handlers).
THEOREM ScreenTypeCorrect == ScreenSpec => []ScreenTypeOK
<1>1. ASSUME TypeInv
      PROVE  ScreenTypeOK
  <2>1. Kept(s) /\ s \in ScreenType
    BY <1>1 DEF TypeInv, Kept
  <2>2. s.captures \in Seq(Output) /\ Len(s.captures) \in Nat
        /\ DOMAIN s.captures = 1 .. Len(s.captures)
    BY <2>1 DEF ScreenType
  <2>3. Len(s.captures) <= Cardinality(Output)
    <3> DEFINE n == Len(s.captures)
    <3>1. IsFiniteSet(1 .. n) /\ Cardinality(1 .. n) = n
      <4>1. 1 \in Int /\ n \in Int /\ (1 > n <=> n = 0)
        BY <2>2
      <4> QED
        BY <2>2, <4>1, FS_Interval
    <3>2. s.captures \in [1 .. n -> Output]
      BY <2>2
    <3>3. \A i, j \in 1 .. n : s.captures[i] = s.captures[j] => i = j
      BY <2>1, <2>2 DEF Kept
    <3> DEFINE S == {s.captures[i] : i \in 1 .. n}
    <3>4. s.captures \in Injection(1 .. n, Output)
      BY <3>2, <3>3 DEF Injection, IsInjective
    <3> QED
      BY <3>1, <3>4, FS_Injection, ScreenAssumption
  <2>4. ASSUME NEW o \in Output
        PROVE  /\ s.cap[o].pixels # NoPixels => DOMAIN s.cap[o].pixels = Cells(s.cap[o].size)
               /\ s.cap[o].session => o \in Captured(s)
               /\ s.cap[o].frame => s.cap[o].session /\ s.cap[o].pixels # NoPixels
               /\ session[o] \in {"none", "new", "on", "stopped"}
               /\ owed[o] \subseteq DOMAIN content[o]
    <3>1. CaptureOK(s.cap[o]) /\ (s.cap[o].session => o \in Captured(s))
      BY <2>1 DEF Kept
    <3>2. session[o] \in {"none", "new", "on", "stopped"} /\ owed[o] \subseteq DOMAIN content[o]
      BY <1>1 DEF TypeInv
    <3> QED
      BY <3>1, <3>2 DEF CaptureOK
  <2>5. DOMAIN s.canvas = Cells(s.size) /\ s.damage = {}
    BY <2>1 DEF Kept
  <2>6. Len(events) <= MaxEvents /\ changes \in 0 .. MaxChanges
    BY <1>1 DEF TypeInv
  <2> QED
    BY <2>2, <2>3, <2>4, <2>5, <2>6 DEF ScreenTypeOK
<1> QED
  BY TypesKept, <1>1, PTL

\* A screen that was freed, or whose frame function freed it, calls nobody
\* again (screen_emit, screen_stopped_idle, rd_screen_free).
THEOREM FreedKeepsSilent == ScreenSpec => FreedIsSilent
<1> DEFINE Silent == s.freed \/ s.dead => s'.seen = s.seen /\ s'.told = s.told
<1>1. ASSUME TypeInv, [ScreenNext]_screenVars
      PROVE  Silent \/ UNCHANGED screenVars
  <2>1. Kept(s)
    BY <1>1 DEF TypeInv
  <2>2. CASE Dispatch
    <3>1. PICK r, replaced, o : Handling(r, replaced, o)
      BY <1>1, <2>2, DispatchParts
    <3>2. s' = r /\ Handled(s, r) /\ ~s.freed
      BY <2>2, <3>1 DEF Handling, Deliver, Dispatch
    <3> QED
      BY <3>2 DEF Handled
  <2>3. CASE screen_stopped_idle
    <3>1. PICK frees \in BOOLEAN :
            s' = FreedIfDead([s EXCEPT !.stopped_idle = FALSE,
                   !.told = IF s.dead THEN @ ELSE @ + 1, !.dead = @ \/ frees])
      BY <2>3 DEF screen_stopped_idle
    <3>2. ~s.freed /\ s \in ScreenType
      BY <2>1, <2>3 DEF Kept, screen_stopped_idle
    <3> DEFINE told == IF s.dead THEN s.told ELSE s.told + 1
               dead == s.dead \/ frees
               r == [s EXCEPT !.stopped_idle = FALSE, !.told = told, !.dead = dead]
    <3>3. s' = FreedIfDead(r)
      BY <3>1
    <3>4. r.told = told /\ r.seen = s.seen
      BY <3>2 DEF ScreenType
    <3> HIDE DEF r
    <3>5. r \in ScreenType
      <4>1. told \in Nat /\ dead \in BOOLEAN
        BY <3>2 DEF ScreenType
      <4> HIDE DEF told, dead
      <4> QED
        BY <3>2, <4>1 DEF r, ScreenType
    <3>6. FreedIfDead(r).told = r.told /\ FreedIfDead(r).seen = r.seen
      BY <3>5 DEF FreedIfDead, rd_screen_free, ScreenType
    <3> QED
      BY <3>2, <3>3, <3>4, <3>6
  <2>4. CASE Free
    BY <2>4 DEF Free
  <2>5. CASE Lose
    <3> DEFINE u == screen_emit_stopped(s)
    <3>1. ~s.freed
      BY <2>5 DEF Lose, Shared
    <3>2. u.seen = s.seen /\ u.told = s.told /\ Kept(u)
      BY <2>1, <3>1, StoppedParts DEF SameCanvas
    <3>3. s' = [u EXCEPT !.broken = TRUE]
      BY <2>5 DEF Lose
    <3> HIDE DEF u
    <3> QED
      BY <3>2, <3>3 DEF Kept, ScreenType
  <2>6. CASE Close
    BY <2>1, <2>6 DEF Close, Kept, ScreenType
  <2>7. ASSUME NEW o \in Output,
               \/ \E c \in DOMAIN content[o] : Copy(o, c)
               \/ Ready(o) \/ ReadyAgain(o)
        PROVE  Silent
    <3>1. PICK new \in [Cells(s.cap[o].size) -> Int] : Wrote(o, new) /\ Requested(o)
      BY <1>1, <2>7, CopyParts, ReadyParts, ReadyAgainParts DEF Copy, Ready, ReadyAgain
    <3> QED
      BY <1>1, <3>1, WroteParts DEF SameFlags, SameCanvas
  <2>8. ASSUME NEW o \in Output,
               \/ Offer(o) \/ Refuse(o) \/ Fail(o) \/ Stop(o) \/ Withdraw(o)
               \/ \E g \in ScreenGeometry : Announce(o, g)
               \/ \E c \in DOMAIN content[o] : Paint(o, c)
               \/ \E size \in BufferSize, f \in ShmFormats :
                    Constrain(o, [size |-> size, formats |-> f])
        PROVE  s' = s
    BY <2>8 DEF Offer, Refuse, Fail, Stop, Withdraw, Announce, Paint, Constrain
  <2> QED
    BY <1>1, <2>2, <2>3, <2>4, <2>5, <2>6, <2>7, <2>8 DEF ScreenNext
<1>2. TypeInv /\ [ScreenNext]_screenVars => [Silent]_screenVars
  BY <1>1
<1> QED
  BY TypesKept, <1>2, PTL DEF ScreenSpec, FreedIsSilent

-----------------------------------------------------------------------------
(* Outputs stay side by side.                                              *)

LEMMA ClearBoth ==
  ASSUME NEW g, NEW h
  PROVE  /\ Clear(g, h) => Clear(h, g)
         /\ Disjoint(g, h) => Clear(h, g)
<1>1. Clear(g, h) => Clear(h, g)
  BY DEF Clear, Apart
<1>2. Disjoint(g, h) => Clear(h, g)
  BY DEF Disjoint, Clear, Apart
<1> QED
  BY <1>1, <1>2

\* What OutsClear says of event j and output p.
ClearAt(g, q, j, p) ==
  /\ \A i \in 1 .. j - 1 :
       /\ q[i].kind = "output" /\ q[i].on = p
       /\ \A m \in i + 1 .. j - 1 : ~About(q[m], p)
       => Clear(q[i].arg, q[j].arg)
  /\ (\A m \in 1 .. j - 1 : ~About(q[m], p)) /\ g[p] # Gone => Clear(g[p], q[j].arg)

LEMMA ClearAts ==
  ASSUME NEW g, NEW q
  PROVE  OutsClear(g, q) <=>
           /\ AllClear(g)
           /\ \A j \in DOMAIN q, p \in Output :
                q[j].kind = "output" /\ q[j].on # p => ClearAt(g, q, j, p)
BY DEF OutsClear, ClearAt

\* Events that say nothing of outputs may be left out.
LEMMA PickedClear ==
  ASSUME NEW T, NEW q \in Seq(T), NEW p \in Seq(T), NEW g,
         NEW keep \in SUBSET DOMAIN q, NEW f, PickedBy(p, q, keep, f),
         \A i \in DOMAIN q : q[i].kind \in {"output", "removed"} => i \in keep,
         OutsClear(g, q)
  PROVE  OutsClear(g, p)
<1>1. /\ Len(p) \in Nat /\ DOMAIN p = 1 .. Len(p) /\ DOMAIN q = 1 .. Len(q) /\ Len(q) \in Nat
      /\ f \in [1 .. Len(p) -> keep] /\ \A i \in 1 .. Len(p) : p[i] = q[f[i]]
      /\ \A i, j \in 1 .. Len(p) : i < j => f[i] < f[j]
      /\ \A k \in keep : \E i \in 1 .. Len(p) : f[i] = k
  BY DEF PickedBy
<1>2. \A i \in 1 .. Len(p) : f[i] \in 1 .. Len(q)
  BY <1>1
<1>3. \A i, j \in 1 .. Len(p) : f[i] < f[j] => i < j
  <2>1. ASSUME NEW i \in 1 .. Len(p), NEW j \in 1 .. Len(p), f[i] < f[j], ~(i < j)
        PROVE  FALSE
    <3>1. f[i] \in Nat /\ f[j] \in Nat
      BY <1>2
    <3>2. j < i \/ i = j
      BY <1>1, <2>1
    <3>3. CASE j < i
      <4>1. f[j] < f[i]
        BY <1>1, <3>3
      <4> QED
        BY <2>1, <3>1, <4>1
    <3>4. CASE i = j
      BY <2>1, <3>1, <3>4
    <3> QED
      BY <3>2, <3>3, <3>4
  <2> QED
    BY <2>1
\* An event about an output between two that are kept is kept.
<1>4. ASSUME NEW o \in Output, NEW j \in 1 .. Len(p), NEW m \in 1 .. f[j] - 1, About(q[m], o)
      PROVE  \E n \in 1 .. j - 1 : f[n] = m /\ About(p[n], o)
  <2>1. m \in DOMAIN q
    BY <1>1, <1>2
  <2>2. m \in keep
    BY <1>4, <2>1 DEF About
  <2>3. PICK n \in 1 .. Len(p) : f[n] = m
    BY <1>1, <2>2
  <2>4. f[n] < f[j]
    BY <1>2, <2>3
  <2>5. n < j
    BY <1>3, <2>4
  <2>6. n \in 1 .. j - 1
    BY <1>1, <2>5
  <2> QED
    BY <1>1, <1>4, <2>3, <2>6
<1>5. ASSUME NEW j \in DOMAIN p, NEW o \in Output, p[j].kind = "output", p[j].on # o
      PROVE  ClearAt(g, p, j, o)
  <2>1. j \in 1 .. Len(p) /\ f[j] \in DOMAIN q /\ p[j] = q[f[j]]
    BY <1>1, <1>2
  <2>2. ClearAt(g, q, f[j], o)
    BY <1>5, <2>1, ClearAts
  <2>3. ASSUME NEW i \in 1 .. j - 1, p[i].kind = "output", p[i].on = o,
               \A m \in i + 1 .. j - 1 : ~About(p[m], o)
        PROVE  Clear(p[i].arg, p[j].arg)
    <3>1. i \in 1 .. Len(p) /\ i < j
      BY <1>1, <2>1
    <3>2. p[i] = q[f[i]] /\ f[i] < f[j] /\ f[i] \in 1 .. Len(q) /\ f[j] \in 1 .. Len(q)
      BY <1>1, <1>2, <2>1, <3>1
    <3>3. f[i] \in 1 .. f[j] - 1
      BY <1>1, <3>2
    <3>4. ASSUME NEW m \in f[i] + 1 .. f[j] - 1, About(q[m], o)
          PROVE  FALSE
      <4>1. m \in 1 .. f[j] - 1 /\ m \in Nat /\ f[i] < m
        BY <3>2
      <4>2. PICK n \in 1 .. j - 1 : f[n] = m /\ About(p[n], o)
        BY <1>4, <2>1, <3>4, <4>1
      <4>3. n \in 1 .. Len(p)
        BY <1>1, <2>1
      <4>4. i < n
        BY <1>3, <3>1, <4>1, <4>2, <4>3
      <4>5. n \in i + 1 .. j - 1
        BY <3>1, <4>4
      <4> QED
        BY <2>3, <4>2, <4>5
    <3>5. Clear(q[f[i]].arg, q[f[j]].arg)
      BY <2>2, <2>3, <3>2, <3>3, <3>4 DEF ClearAt
    <3> QED
      BY <2>1, <3>2, <3>5
  <2>4. ASSUME \A m \in 1 .. j - 1 : ~About(p[m], o), g[o] # Gone
        PROVE  Clear(g[o], p[j].arg)
    <3>1. \A m \in 1 .. f[j] - 1 : ~About(q[m], o)
      BY <1>4, <2>1, <2>4
    <3> QED
      BY <2>1, <2>2, <2>4, <3>1 DEF ClearAt
  <2> QED
    BY <2>3, <2>4 DEF ClearAt
<1>6. AllClear(g)
  BY ClearAts
<1> QED
  BY <1>5, <1>6, ClearAts

\* The first event is taken, and with it what it says of an output.
LEMMA TakenClear ==
  ASSUME NEW T, NEW q \in Seq(T), q # <<>>, NEW g, DOMAIN g = Output, OutsClear(g, q),
         NEW h,
         \/ h = g /\ q[1].kind \notin {"output", "removed"}
         \/ q[1].on \in Output /\ q[1].kind = "output" /\ h = [g EXCEPT ![q[1].on] = q[1].arg]
         \/ q[1].on \in Output /\ q[1].kind = "removed" /\ h = [g EXCEPT ![q[1].on] = Gone]
  PROVE  AllClear(h) /\ OutsClear(h, Tail(q))
<1> DEFINE t == Tail(q)
           n == Len(q)
<1>1. /\ n \in Nat \ {0} /\ DOMAIN q = 1 .. n /\ DOMAIN t = 1 .. n - 1 /\ 1 \in DOMAIN q
      /\ \A i \in DOMAIN t : t[i] = q[i + 1] /\ i + 1 \in DOMAIN q
  BY TailParts
<1> HIDE DEF t, n
<1>2. AllClear(g)
  BY ClearAts
\* What the first event leaves as it was.
<1>3. ASSUME NEW p \in Output, ~About(q[1], p)
      PROVE  h[p] = g[p]
  BY <1>3 DEF About
<1>4. ASSUME NEW p \in Output, About(q[1], p), h[p] # Gone
      PROVE  q[1].kind = "output" /\ q[1].on = p /\ h[p] = q[1].arg
  BY <1>4 DEF About
<1>5. AllClear(h)
  <2>1. ASSUME NEW o \in Output, NEW p \in Output, o # p, h[o] # Gone, h[p] # Gone, About(q[1], o)
        PROVE  Clear(h[o], h[p]) /\ Clear(h[p], h[o])
    <3>1. q[1].kind = "output" /\ q[1].on = o /\ h[o] = q[1].arg
      BY <1>4, <2>1
    <3>2. h[p] = g[p]
      BY <1>3, <2>1, <3>1 DEF About
    <3>3. ClearAt(g, q, 1, p)
      BY <1>1, <2>1, <3>1, ClearAts
    <3>4. \A m \in 1 .. 1 - 1 : ~About(q[m], p)
      OBVIOUS
    <3>5. Clear(g[p], q[1].arg)
      BY <2>1, <3>2, <3>3, <3>4 DEF ClearAt
    <3> QED
      BY <3>1, <3>2, <3>5, ClearBoth
  <2>2. ASSUME NEW o \in Output, NEW p \in Output, o # p, h[o] # Gone, h[p] # Gone,
               ~About(q[1], o), ~About(q[1], p)
        PROVE  Clear(h[o], h[p])
    BY <1>2, <1>3, <2>2 DEF AllClear
  <2> QED
    BY <2>1, <2>2 DEF AllClear
<1>6. ASSUME NEW j \in DOMAIN t, NEW p \in Output, t[j].kind = "output", t[j].on # p
      PROVE  ClearAt(h, t, j, p)
  <2>1. /\ j \in 1 .. n - 1 /\ j + 1 \in DOMAIN q /\ t[j] = q[j + 1] /\ (j + 1) - 1 = j
        /\ \A m \in 1 .. j - 1 : t[m] = q[m + 1]
    BY <1>1
  <2>2. ClearAt(g, q, j + 1, p)
    BY <1>6, <2>1, ClearAts
  <2>3. /\ \A i \in 1 .. j :
             /\ q[i].kind = "output" /\ q[i].on = p
             /\ \A m \in i + 1 .. j : ~About(q[m], p)
             => Clear(q[i].arg, t[j].arg)
        /\ (\A m \in 1 .. j : ~About(q[m], p)) /\ g[p] # Gone => Clear(g[p], t[j].arg)
    BY <2>1, <2>2 DEF ClearAt
  <2>4. ASSUME NEW i \in 0 .. j - 1, \A m \in i + 1 .. j - 1 : ~About(t[m], p)
        PROVE  \A m \in (i + 1) + 1 .. j : ~About(q[m], p)
    <3>1. ASSUME NEW m \in (i + 1) + 1 .. j
          PROVE  ~About(q[m], p)
      <4>1. m - 1 \in i + 1 .. j - 1 /\ m - 1 \in 1 .. j - 1 /\ (m - 1) + 1 = m
        BY <2>1
      <4> QED
        BY <2>1, <2>4, <4>1
    <3> QED
      BY <3>1
  <2>5. ASSUME NEW i \in 1 .. j - 1, t[i].kind = "output", t[i].on = p,
               \A m \in i + 1 .. j - 1 : ~About(t[m], p)
        PROVE  Clear(t[i].arg, t[j].arg)
    <3>3. t[i] = q[i + 1]
      BY <2>1
    <3>4. j \in Int /\ i \in Int
      BY <2>1
    <3>5. i + 1 \in 1 .. j /\ i \in 0 .. j - 1
      BY <3>4
    <3>1. i + 1 \in 1 .. j /\ t[i] = q[i + 1] /\ i \in 0 .. j - 1
      BY <3>3, <3>5
    <3>2. \A m \in (i + 1) + 1 .. j : ~About(q[m], p)
      BY <2>4, <2>5, <3>1
    <3> QED
      BY <2>3, <2>5, <3>1, <3>2
  <2>6. ASSUME \A m \in 1 .. j - 1 : ~About(t[m], p), h[p] # Gone
        PROVE  Clear(h[p], t[j].arg)
    <3>1. \A m \in 2 .. j : ~About(q[m], p)
      <4>1. 0 \in 0 .. j - 1 /\ 0 + 1 = 1 /\ 1 + 1 = 2
        BY <2>1
      <4> QED
        BY <2>4, <2>6, <4>1
    <3>2. CASE About(q[1], p)
      <4>1. q[1].kind = "output" /\ q[1].on = p /\ h[p] = q[1].arg
        BY <1>4, <2>6, <3>2
      <4>2. 1 \in 1 .. j /\ 1 + 1 = 2
        BY <2>1
      <4> QED
        BY <2>3, <3>1, <4>1, <4>2
    <3>3. CASE ~About(q[1], p)
      <4>1. h[p] = g[p]
        BY <1>3, <3>3
      <4>2. \A m \in 1 .. j : ~About(q[m], p)
        <5>1. \A m \in 1 .. j : m = 1 \/ m \in 2 .. j
          BY <2>1
        <5> QED
          BY <3>1, <3>3, <5>1
      <4> QED
        BY <2>3, <2>6, <4>1, <4>2
    <3> QED
      BY <3>2, <3>3
  <2> QED
    BY <2>5, <2>6 DEF ClearAt
<1>7. OutsClear(h, t)
  BY <1>5, <1>6, ClearAts
<1> QED
  BY <1>5, <1>7 DEF t

LEMMA LatestParts ==
  ASSUME TypeInv, NEW p \in Output
  PROVE  /\ (\A m \in DOMAIN events : ~About(events[m], p)) => Latest(p) = outs[p]
         /\ \A i \in DOMAIN events :
              /\ events[i].kind = "output" /\ events[i].on = p
              /\ \A m \in i + 1 .. Len(events) : ~About(events[m], p)
              => Latest(p) = events[i].arg
<1> DEFINE said == {i \in DOMAIN events : events[i].on = p /\ events[i].kind \in {"output", "removed"}}
           top == CHOOSE i \in said : \A j \in said : j <= i
<1>1. Latest(p) = IF said = {} THEN outs[p]
                  ELSE IF events[top].kind = "output" THEN events[top].arg ELSE Gone
  BY DEF Latest
<1>2. DOMAIN events = 1 .. Len(events) /\ Len(events) \in Nat
  BY DEF TypeInv
<1>3. \A i \in DOMAIN events : i \in said <=> About(events[i], p)
  BY DEF About
<1>4. said \subseteq DOMAIN events
  OBVIOUS
<1>5. ASSUME \A m \in DOMAIN events : ~About(events[m], p)
      PROVE  Latest(p) = outs[p]
  BY <1>1, <1>3, <1>4, <1>5
<1>6. ASSUME NEW i \in DOMAIN events, events[i].kind = "output", events[i].on = p,
             \A m \in i + 1 .. Len(events) : ~About(events[m], p)
      PROVE  Latest(p) = events[i].arg
  <2>1. i \in said
    BY <1>6
  <2> HIDE DEF said
  <2>2. \A j \in said : j <= i
    <3>1. ASSUME NEW j \in said, ~(j <= i)
          PROVE  FALSE
      <4>1. j \in 1 .. Len(events) /\ i \in 1 .. Len(events) /\ j \in DOMAIN events
        BY <1>2, <1>4
      <4>2. j \in i + 1 .. Len(events)
        BY <1>2, <3>1, <4>1
      <4> QED
        BY <1>3, <1>6, <4>1, <4>2
    <3> QED
      BY <3>1
  <2>3. top \in said /\ \A j \in said : j <= top
    BY <2>1, <2>2
  <2>4. top = i
    <3>1. top \in Nat /\ i \in Nat
      BY <1>2, <1>4, <2>1, <2>3
    <3>2. top <= i /\ i <= top
      BY <2>1, <2>2, <2>3
    <3> HIDE DEF top
    <3> QED
      BY <3>1, <3>2
  <2> QED
    BY <1>1, <1>6, <2>1, <2>4
<1> QED
  BY <1>5, <1>6

\* The compositor announces an output beside what it last said of the others.
LEMMA SentClear ==
  ASSUME TypeInv, OutsClear(outs, events), NEW e \in Event_Type, Send(e),
         e.kind = "output" =>
           \A p \in Output \ {e.on} : Latest(p) # Gone => Disjoint(e.arg, Latest(p))
  PROVE  OutsClear(outs, events')
<1> DEFINE n == Len(events)
<1>1. events \in Seq(Event_Type) /\ n <= MaxEvents
  BY DEF TypeInv
<1>2. /\ n \in Nat /\ DOMAIN events = 1 .. n /\ DOMAIN events' = 1 .. n + 1
      /\ events'[n + 1] = e
      /\ \A i \in DOMAIN events : events'[i] = events[i]
  BY <1>1, SentParts
<1> HIDE DEF n
<1>3. ASSUME NEW j \in DOMAIN events', NEW p \in Output,
             events'[j].kind = "output", events'[j].on # p
      PROVE  ClearAt(outs, events', j, p)
  <2>1. j \in 1 .. n + 1 /\ \A i \in 1 .. j - 1 : i \in DOMAIN events /\ events'[i] = events[i]
    BY <1>2
  <2>2. CASE j \in DOMAIN events
    <3>1. events'[j] = events[j]
      BY <1>2, <2>2
    <3>2. ClearAt(outs, events, j, p)
      BY <1>3, <2>2, <3>1, ClearAts
    <3>3. \A i \in 1 .. j - 1 : \A m \in i + 1 .. j - 1 : m \in 1 .. j - 1
      BY <2>1
    <3> QED
      BY <2>1, <3>1, <3>2, <3>3 DEF ClearAt
  <2>3. CASE j \notin DOMAIN events
    <3>1. j = n + 1 /\ events'[j] = e
      BY <1>2, <2>1, <2>3
    <3>2. j - 1 = n /\ 1 .. j - 1 = DOMAIN events
      BY <1>2, <3>1
    <3>3. \A q \in Output \ {e.on} : Latest(q) # Gone => Clear(Latest(q), e.arg)
      BY <1>3, <3>1, ClearBoth
    <3>4. Latest(p) # Gone => Clear(Latest(p), e.arg)
      BY <1>3, <3>1, <3>3
    <3>5. ASSUME NEW i \in 1 .. j - 1, events'[i].kind = "output", events'[i].on = p,
                 \A m \in i + 1 .. j - 1 : ~About(events'[m], p)
          PROVE  Clear(events'[i].arg, events'[j].arg)
      <4>1. i \in DOMAIN events /\ events'[i] = events[i]
        BY <2>1
      <4>2. \A m \in i + 1 .. n : m \in 1 .. j - 1
        BY <1>2, <3>2, <4>1
      <4>3. \A m \in i + 1 .. Len(events) : ~About(events[m], p)
        BY <2>1, <3>2, <3>5, <4>2 DEF n
      <4>4. Latest(p) = events[i].arg
        BY <3>5, <4>1, <4>3, LatestParts
      <4>5. events[i].arg # Gone
        <5>1. events[i] \in Event_Type
          BY <1>1, <4>1
        <5>2. events[i].arg \in ScreenGeometry
          BY <3>5, <4>1, <5>1, EventParts
        <5> QED
          BY <5>2, ScreenAssumption
      <4> QED
        BY <3>1, <3>4, <4>1, <4>4, <4>5
    <3>6. ASSUME \A m \in 1 .. j - 1 : ~About(events'[m], p), outs[p] # Gone
          PROVE  Clear(outs[p], events'[j].arg)
      <4>1. \A m \in DOMAIN events : ~About(events[m], p)
        BY <1>2, <3>2, <3>6
      <4>2. Latest(p) = outs[p]
        BY <4>1, LatestParts
      <4> QED
        BY <3>1, <3>4, <3>6, <4>2
    <3> QED
      BY <3>5, <3>6 DEF ClearAt
  <2> QED
    BY <2>2, <2>3
<1> QED
  BY <1>3, ClearAts

-----------------------------------------------------------------------------
(* Pictures: the steps that leave the layout alone.                        *)

LEMMA SentUnderway ==
  ASSUME TypeInv, NEW e \in Event_Type, Send(e), NEW o
  PROVE  /\ Pending(o)' => Pending(o) \/ (e.on = o /\ e.kind = "ready")
         /\ owed[o] \subseteq Underway(o)' => Underway(o) \subseteq Underway(o)'
         /\ e.on = o /\ e.kind = "ready" => e.arg \subseteq Underway(o)'
<1>1. events \in Seq(Event_Type) /\ Len(events) <= MaxEvents
  BY DEF TypeInv
<1> DEFINE n == Len(events)
<1>2. /\ n \in Nat /\ DOMAIN events = 1 .. n /\ n + 1 \in DOMAIN events'
      /\ events'[n + 1] = e
      /\ \A i \in DOMAIN events : i \in DOMAIN events' /\ events'[i] = events[i]
      /\ \A i \in DOMAIN events' : i \in DOMAIN events \/ i = n + 1
  BY <1>1, SentParts
<1> HIDE DEF n
<1>3. ASSUME Pending(o)'
      PROVE  Pending(o) \/ (e.on = o /\ e.kind = "ready")
  <2>1. PICK i \in DOMAIN events' : events'[i].on = o /\ events'[i].kind = "ready"
    BY <1>3 DEF Pending
  <2>2. CASE i \in DOMAIN events
    <3>1. events[i].on = o /\ events[i].kind = "ready"
      BY <1>2, <2>1, <2>2
    <3>2. Pending(o)
      BY <2>2, <3>1 DEF Pending
    <3> QED
      BY <3>2
  <2>3. CASE i = n + 1
    BY <1>2, <2>1, <2>3
  <2> QED
    BY <1>2, <2>2, <2>3
<1>4. ASSUME owed[o] \subseteq Underway(o)', NEW x \in Underway(o)
      PROVE  x \in Underway(o)'
  <2>1. CASE x \in owed[o]
    BY <1>4, <2>1
  <2>2. CASE x \notin owed[o]
    <3>1. PICK i \in DOMAIN events : events[i].on = o /\ events[i].kind = "ready" /\ x \in events[i].arg
      BY <1>4, <2>2 DEF Underway
    <3> QED
      BY <1>2, <3>1 DEF Underway
  <2> QED
    BY <2>1, <2>2
<1>5. e.on = o /\ e.kind = "ready" => e.arg \subseteq Underway(o)'
  BY <1>2 DEF Underway
<1> QED
  BY <1>3, <1>4, <1>5

LEMMA PictureStep ==
  ASSUME TypeInv, PictureInv, ~Ended(s), OutsClear(outs', events'), Sharing(s', outs'),
         Captured(s') = Captured(s), s'.seen = s.seen,
         \A o \in Captured(s) :
           /\ s'.cap[o].has = s.cap[o].has /\ s'.cap[o].at = s.cap[o].at
           /\ s'.cap[o].size = s.cap[o].size
           /\ Filled(o)'
           /\ \A p \in (Cells(s.cap[o].size) \cap DOMAIN content'[o]) \ Underway(o)' :
                p \in DOMAIN content[o] \ Underway(o) /\ content'[o][p] = content[o][p]
  PROVE  PictureInv'
<1>1. ASSUME NEW o \in Captured(s)
      PROVE  Current(o)'
  <2>1. Current(o)
    BY DEF PictureInv
  <2> QED
    BY <2>1 DEF Current
<1> QED
  BY <1>1 DEF PictureInv

LEMMA CapturedOutput ==
  ASSUME TypeInv
  PROVE  Captured(s) \subseteq Output /\ \A o \in Output : s.cap[o].session => o \in Captured(s)
BY DEF TypeInv, Kept, ScreenType, Captured

\* An event that is no frame.
LEMMA SentPicture ==
  ASSUME TypeInv, PictureInv, ~Ended(s), NEW e \in Event_Type, Send(e), e.kind # "ready",
         e.kind = "output" =>
           \A p \in Output \ {e.on} : Latest(p) # Gone => Disjoint(e.arg, Latest(p)),
         UNCHANGED <<s, outs, content, owed>>
  PROVE  PictureInv'
<1>1. OutsClear(outs', events')
  BY SentClear DEF PictureInv
<1>2. Sharing(s', outs') /\ Captured(s') = Captured(s) /\ s'.seen = s.seen
  BY DEF PictureInv
<1>3. ASSUME NEW o \in Captured(s)
      PROVE  /\ Filled(o)'
             /\ \A p \in (Cells(s.cap[o].size) \cap DOMAIN content'[o]) \ Underway(o)' :
                  p \in DOMAIN content[o] \ Underway(o) /\ content'[o][p] = content[o][p]
  <2>1. Pending(o)' => Pending(o)
    BY SentUnderway
  <2>2. Underway(o) \subseteq Underway(o)'
    <3>1. owed[o] \subseteq Underway(o)'
      BY DEF Underway
    <3> QED
      BY <3>1, SentUnderway
  <2>3. Filled(o)
    BY DEF PictureInv
  <2>4. Filled(o)'
    BY <2>1, <2>3 DEF Filled
  <2> QED
    BY <2>2, <2>4
<1> QED
  BY <1>1, <1>2, <1>3, PictureStep

LEMMA EventsSent ==
  ASSUME TypeInv, NEW o \in Output,
         \/ Offer(o) \/ Refuse(o) \/ Fail(o) \/ Stop(o) \/ Withdraw(o)
         \/ \E g \in ScreenGeometry : Announce(o, g)
  PROVE  /\ UNCHANGED <<s, outs, content, owed>>
         /\ \E e \in Event_Type :
              /\ Send(e) /\ e.kind # "ready"
              /\ e.kind = "output" =>
                   \A p \in Output \ {e.on} : Latest(p) # Gone => Disjoint(e.arg, Latest(p))
<1>1. UNCHANGED <<s, outs, content, owed>>
  BY DEF Offer, Refuse, Fail, Stop, Withdraw, Announce
<1>2. \E e \in Event_Type :
        /\ Send(e) /\ e.kind # "ready"
        /\ e.kind = "output" =>
             \A p \in Output \ {e.on} : Latest(p) # Gone => Disjoint(e.arg, Latest(p))
  <2>1. offer[o] \in Offered
    BY TypeFacts
  <2>2. CASE Offer(o)
    <3>1. /\ Event(o, "constraints", offer[o]) \in Event_Type
          /\ Event(o, "constraints", offer[o]).kind = "constraints"
      BY <2>1, EventTyped
    <3>2. Send(Event(o, "constraints", offer[o]))
      BY <2>2 DEF Offer
    <3> QED
      BY <3>1, <3>2
  <2>3. CASE Refuse(o) \/ Fail(o) \/ Stop(o)
    <3>1. \A a \in {"constraints", "stopped", "unknown"} :
            Event(o, "failed", a) \in Event_Type /\ Event(o, "failed", a).kind = "failed"
      BY EventTyped
    <3>2. Event(o, "stopped", 0) \in Event_Type /\ Event(o, "stopped", 0).kind = "stopped"
      BY EventTyped
    <3>3. \/ Send(Event(o, "failed", "constraints")) \/ Send(Event(o, "failed", "unknown"))
          \/ Send(Event(o, "failed", "stopped")) \/ Send(Event(o, "stopped", 0))
      BY <2>3 DEF Refuse, Fail, Stop
    <3> QED
      BY <3>1, <3>2, <3>3
  <2>4. CASE Withdraw(o)
    <3>1. Event(o, "removed", 0) \in Event_Type /\ Event(o, "removed", 0).kind = "removed"
      BY EventTyped
    <3>2. Send(Event(o, "removed", 0))
      BY <2>4 DEF Withdraw
    <3> QED
      BY <3>1, <3>2
  <2>5. CASE \E g \in ScreenGeometry : Announce(o, g)
    <3>1. PICK g \in ScreenGeometry : Announce(o, g)
      BY <2>5
    <3> DEFINE e == Event(o, "output", g)
    <3>2. e \in Event_Type /\ e.kind = "output" /\ e.on = o /\ e.arg = g
      BY EventTyped
    <3>3. Send(e) /\ \A p \in Output \ {o} : Latest(p) # Gone => Disjoint(g, Latest(p))
      BY <3>1 DEF Announce
    <3> HIDE DEF e
    <3> QED
      BY <3>2, <3>3
  <2> QED
    BY <2>2, <2>3, <2>4, <2>5
<1> QED
  BY <1>1, <1>2

LEMMA EventsPicture ==
  ASSUME TypeInv, PictureInv, ~Ended(s), NEW o \in Output,
         \/ Offer(o) \/ Refuse(o) \/ Fail(o) \/ Stop(o) \/ Withdraw(o)
         \/ \E g \in ScreenGeometry : Announce(o, g)
  PROVE  PictureInv'
<1>1. PICK e \in Event_Type :
        /\ Send(e) /\ e.kind # "ready"
        /\ e.kind = "output" =>
             \A p \in Output \ {e.on} : Latest(p) # Gone => Disjoint(e.arg, Latest(p))
  BY EventsSent
<1> QED
  BY <1>1, EventsSent, SentPicture

LEMMA PaintPicture ==
  ASSUME TypeInv, PictureInv, ~Ended(s), NEW o \in Output, NEW c \in DOMAIN content[o], Paint(o, c)
  PROVE  PictureInv'
<1>1. /\ content' = [content EXCEPT ![o][c] = 3 - @] /\ owed' = [owed EXCEPT ![o] = @ \cup {c}]
      /\ UNCHANGED <<s, outs, offer, events>>
  BY DEF Paint
<1>2. OutsClear(outs', events') /\ Sharing(s', outs') /\ Captured(s') = Captured(s) /\ s'.seen = s.seen
  BY <1>1 DEF PictureInv
<1>3. content \in [Output -> Pictures] /\ owed \in [Output -> SUBSET (Int \X Int)]
  BY DEF TypeInv
<1>4. ASSUME NEW p \in Output
      PROVE  /\ DOMAIN content'[p] = DOMAIN content[p] /\ owed[p] \subseteq owed'[p]
             /\ \A x \in DOMAIN content[p] \ owed'[p] : content'[p][x] = content[p][x]
  <2>1. content[o] \in [Cells(offer[o].size) -> Int]
    BY TypeFacts
  <2> DEFINE new == [content[o] EXCEPT ![c] = 3 - @]
  <2>2. DOMAIN new = DOMAIN content[o] /\ \A x \in DOMAIN content[o] \ {c} : new[x] = content[o][x]
    BY <2>1
  <2>3. content' = [content EXCEPT ![o] = new]
    BY <1>1
  <2> HIDE DEF new
  <2>4. CASE p = o
    <3>1. content'[p] = new /\ owed'[p] = owed[p] \cup {c}
      BY <1>1, <1>3, <2>3, <2>4
    <3> QED
      BY <2>2, <2>4, <3>1
  <2>5. CASE p # o
    BY <1>1, <1>3, <2>3, <2>5
  <2> QED
    BY <2>4, <2>5
<1>5. ASSUME NEW p \in Captured(s)
      PROVE  /\ Filled(p)'
             /\ \A x \in (Cells(s.cap[p].size) \cap DOMAIN content'[p]) \ Underway(p)' :
                  x \in DOMAIN content[p] \ Underway(p) /\ content'[p][x] = content[p][x]
  <2>1. p \in Output /\ Filled(p)
    BY CapturedOutput DEF PictureInv
  <2>2. /\ DOMAIN content'[p] = DOMAIN content[p] /\ owed[p] \subseteq owed'[p]
        /\ \A x \in DOMAIN content[p] \ owed'[p] : content'[p][x] = content[p][x]
    BY <1>4, <2>1
  <2>3. Pending(p)' => Pending(p)
    BY <1>1 DEF Pending
  <2>4. Underway(p) \subseteq Underway(p)' /\ owed'[p] \subseteq Underway(p)'
    BY <1>1, <2>2 DEF Underway
  <2>5. Filled(p)'
    BY <1>1, <2>1, <2>2, <2>3 DEF Filled
  <2> QED
    BY <2>2, <2>4, <2>5
<1> QED
  BY <1>1, <1>2, <1>5, PictureStep

LEMMA ConstrainPicture ==
  ASSUME TypeInv, PictureInv, ~Ended(s), NEW o \in Output, NEW size \in BufferSize,
         NEW f \in ShmFormats, Constrain(o, [size |-> size, formats |-> f])
  PROVE  PictureInv'
<1> DEFINE to == [size |-> size, formats |-> f]
           first == [c \in Cells(to.size) |-> 1]
           e == Event(o, "constraints", to)
<1>1. to \in Offered /\ Constrain(o, to)
  BY ScreenAssumption DEF Offered, Size
<1> HIDE DEF to
<1>2. /\ content' = [content EXCEPT ![o] = first] /\ owed' = [owed EXCEPT ![o] = Cells(to.size)]
      /\ UNCHANGED <<s, outs>> /\ (Send(e) \/ events' = events)
  BY <1>1 DEF Constrain
<1>3. e \in Event_Type /\ e.kind = "constraints"
  BY <1>1, EventTyped
<1>4. DOMAIN first = Cells(to.size)
  OBVIOUS
<1> HIDE DEF e, first
<1>5. content \in [Output -> Pictures] /\ owed \in [Output -> SUBSET (Int \X Int)]
  BY DEF TypeInv
<1>6. OutsClear(outs', events')
  <2>1. CASE Send(e)
    BY <1>2, <1>3, <2>1, SentClear DEF PictureInv
  <2>2. CASE events' = events
    BY <1>2, <2>2 DEF PictureInv
  <2> QED
    BY <1>2, <2>1, <2>2
<1>7. Sharing(s', outs') /\ Captured(s') = Captured(s) /\ s'.seen = s.seen
  BY <1>2 DEF PictureInv
<1>8. ASSUME NEW p
      PROVE  /\ Pending(p)' => Pending(p)
             /\ owed[p] \subseteq Underway(p)' => Underway(p) \subseteq Underway(p)'
  <2>1. CASE Send(e)
    BY <1>3, <2>1, SentUnderway
  <2>2. CASE events' = events
    BY <2>2 DEF Pending, Underway
  <2> QED
    BY <1>2, <2>1, <2>2
<1>9. ASSUME NEW p \in Captured(s)
      PROVE  /\ Filled(p)'
             /\ \A x \in (Cells(s.cap[p].size) \cap DOMAIN content'[p]) \ Underway(p)' :
                  x \in DOMAIN content[p] \ Underway(p) /\ content'[p][x] = content[p][x]
  <2>1. p \in Output /\ Filled(p)
    BY CapturedOutput DEF PictureInv
  <2>2. owed'[p] \subseteq Underway(p)'
    BY DEF Underway
  <2>3. CASE p = o
    <3>1. content'[p] = first /\ owed'[p] = Cells(to.size)
      BY <1>2, <1>5, <2>3
    <3>2. DOMAIN content'[p] \subseteq owed'[p]
      BY <1>4, <3>1
    <3>3. Filled(p)'
      BY <3>2 DEF Filled
    <3> QED
      BY <2>2, <3>2, <3>3
  <2>4. CASE p # o
    <3>1. content'[p] = content[p] /\ owed'[p] = owed[p]
      BY <1>2, <1>5, <2>1, <2>4
    <3>2. Filled(p)'
      BY <1>2, <1>8, <2>1, <3>1 DEF Filled
    <3>3. Underway(p) \subseteq Underway(p)'
      BY <1>8, <2>2, <3>1
    <3> QED
      BY <3>1, <3>2, <3>3
  <2> QED
    BY <2>3, <2>4
<1> QED
  BY <1>2, <1>6, <1>7, <1>9, PictureStep

-----------------------------------------------------------------------------
(* Pictures: the compositor writes into a buffer.                          *)

LEMMA WroteShares ==
  ASSUME TypeInv, NEW o \in Output, Requested(o),
         NEW new \in [Cells(s.cap[o].size) -> Int], Wrote(o, new), Sharing(s, outs)
  PROVE  /\ Sharing(s', outs) /\ Captured(s') = Captured(s) /\ s'.seen = s.seen
         /\ s'.cap[o].pixels = new
         /\ \A p \in Output \ {o} : s'.cap[p].pixels = s.cap[p].pixels
         /\ \A p \in Output : /\ s'.cap[p].has = s.cap[p].has /\ s'.cap[p].at = s.cap[p].at
                              /\ s'.cap[p].size = s.cap[p].size
<1>1. /\ Kept(s') /\ SameFlags(s, s') /\ SameCanvas(s, s') /\ OthersSame(s, s', o)
      /\ Captured(s') = Captured(s) /\ s'.cap[o].pixels = new
      /\ s'.cap[o].has = s.cap[o].has /\ s'.cap[o].at = s.cap[o].at
      /\ s'.cap[o].size = s.cap[o].size /\ (Used(s.cap[o]) => Used(s'.cap[o]))
  BY WroteParts
<1>2. \A p \in Output : /\ s'.cap[p].has = s.cap[p].has /\ s'.cap[p].at = s.cap[p].at
                        /\ s'.cap[p].size = s.cap[p].size /\ (Used(s.cap[p]) => Used(s'.cap[p]))
  BY <1>1 DEF OthersSame
<1>3. Captured(s) \subseteq Output /\ s \in ScreenType
  BY CapturedOutput DEF TypeInv, Kept
<1>4. SamePlaces(s, s')
  BY <1>1, <1>2 DEF SamePlaces, SameFlags, SameCanvas
<1>5. LaidOut(s', outs)
  BY <1>3, <1>4, PlacesParts DEF Sharing
<1>6. SeenWhole(s')
  BY <1>1, <1>2, <1>3 DEF SeenWhole, SameCanvas, Sharing
<1>7. Sharing(s', outs)
  BY <1>1, <1>2, <1>3, <1>5, <1>6 DEF Sharing, SameFlags
<1> QED
  BY <1>1, <1>2, <1>7 DEF OthersSame, SameCanvas

\* Cells the compositor no longer owes are in a buffer, and on their way.
LEMMA WrotePicture ==
  ASSUME TypeInv, PictureInv, ~Ended(s), NEW o \in Output, Requested(o),
         NEW new \in [Cells(s.cap[o].size) -> Int], Wrote(o, new), UNCHANGED <<outs, content>>,
         OutsClear(outs, events'),
         \A p \in Output \ {o} : owed'[p] = owed[p] /\ (Pending(p)' => Pending(p)),
         \A p \in Output : Underway(p) \subseteq Underway(p)',
         s.cap[o].has \/ Pending(o)' =>
           \A x \in (Cells(s.cap[o].size) \cap DOMAIN content[o]) \ owed'[o] : new[x] = content[o][x]
  PROVE  PictureInv'
<1>1. Sharing(s, outs)
  BY DEF PictureInv
<1>2. /\ Sharing(s', outs) /\ Captured(s') = Captured(s) /\ s'.seen = s.seen
      /\ s'.cap[o].pixels = new
      /\ \A p \in Output \ {o} : s'.cap[p].pixels = s.cap[p].pixels
      /\ \A p \in Output : /\ s'.cap[p].has = s.cap[p].has /\ s'.cap[p].at = s.cap[p].at
                           /\ s'.cap[p].size = s.cap[p].size
  BY <1>1, WroteShares
<1>3. ASSUME NEW p \in Captured(s)
      PROVE  /\ Filled(p)'
             /\ s'.cap[p].has = s.cap[p].has /\ s'.cap[p].at = s.cap[p].at
             /\ s'.cap[p].size = s.cap[p].size
             /\ Underway(p) \subseteq Underway(p)'
  <2>1. p \in Output /\ Filled(p)
    BY CapturedOutput DEF PictureInv
  <2>2. Filled(p)'
    <3>1. CASE p = o
      BY <1>2, <2>1, <3>1 DEF Filled
    <3>2. CASE p # o
      <4>1. /\ owed'[p] = owed[p] /\ (Pending(p)' => Pending(p))
            /\ s'.cap[p].pixels = s.cap[p].pixels
            /\ s'.cap[p].has = s.cap[p].has /\ s'.cap[p].size = s.cap[p].size
        BY <1>2, <2>1, <3>2
      <4> QED
        BY <2>1, <4>1 DEF Filled
    <3> QED
      BY <3>1, <3>2
  <2> QED
    BY <1>2, <2>1, <2>2
<1> QED
  BY <1>2, <1>3, PictureStep

LEMMA WrittenPicture ==
  ASSUME TypeInv, PictureInv, ~Ended(s), NEW o \in Output,
         \/ \E c \in DOMAIN content[o] : Copy(o, c)
         \/ Ready(o) \/ ReadyAgain(o)
  PROVE  PictureInv'
<1>1. /\ OutsClear(outs, events) /\ owed \in [Output -> SUBSET (Int \X Int)]
      /\ content[o] \in [Cells(offer[o].size) -> Int] /\ owed[o] \subseteq Cells(offer[o].size)
  BY TypeFacts DEF PictureInv, TypeInv
<1>2. ASSUME Requested(o)
      PROVE  /\ o \in Captured(s) /\ Filled(o) /\ Used(s.cap[o])
             /\ s.cap[o].frame /\ ~Pending(o)
             /\ s.cap[o].pixels \in [Cells(s.cap[o].size) -> Int]
  <2>1. /\ s.cap[o].pixels \in [Cells(s.cap[o].size) -> Int] /\ s.cap[o].frame /\ s.cap[o].session
    BY <1>2, Asked, TypeFacts
  <2>2. o \in Captured(s)
    BY <2>1, CapturedOutput
  <2>3. ~Pending(o)
    BY <1>2 DEF Requested, Pending
  <2> QED
    BY <2>1, <2>2, <2>3 DEF PictureInv, Sharing
<1>3. CASE \E c \in DOMAIN content[o] : Copy(o, c)
  <2>1. PICK c \in DOMAIN content[o] : Copy(o, c)
    BY <1>3
  <2>2. PICK new \in [Cells(s.cap[o].size) -> Int] :
          /\ Wrote(o, new)
          /\ \A p \in Cells(s.cap[o].size) \ owed[o] : new[p] = s.cap[o].pixels[p]
    BY <2>1, CopyParts
  <2>3. Requested(o) /\ UNCHANGED <<outs, content, owed, events>>
    BY <2>1 DEF Copy
  <2>4. \A p : (Pending(p)' <=> Pending(p)) /\ Underway(p)' = Underway(p)
    BY <2>3 DEF Pending, Underway
  <2>5. s.cap[o].has \/ Pending(o)' =>
          \A x \in (Cells(s.cap[o].size) \cap DOMAIN content[o]) \ owed'[o] : new[x] = content[o][x]
    BY <1>2, <2>2, <2>3, <2>4 DEF Filled
  <2>6. OutsClear(outs, events')
    BY <1>1, <2>3
  <2> QED
    BY <2>2, <2>3, <2>4, <2>5, <2>6, WrotePicture
<1>4. CASE Ready(o)
  <2>1. PICK new \in [Cells(s.cap[o].size) -> Int] :
          /\ Wrote(o, new) /\ s.cap[o].size = offer[o].size
          /\ \A p \in Cells(s.cap[o].size) :
               new[p] = IF p \in owed[o] \/ s.cap[o].whole THEN content[o][p] ELSE s.cap[o].pixels[p]
    BY <1>4, ReadyParts
  <2> DEFINE e == Event(o, "ready", owed[o])
  <2>2. e \in Event_Type /\ e.on = o /\ e.kind = "ready" /\ e.arg = owed[o]
    BY EventTyped, TypeFacts
  <2>3. Requested(o) /\ Send(e) /\ owed' = [owed EXCEPT ![o] = {}] /\ UNCHANGED <<outs, content>>
    BY <1>4 DEF Ready
  <2> HIDE DEF e
  <2>4. OutsClear(outs, events')
    BY <1>1, <2>2, <2>3, SentClear
  <2>5. ASSUME NEW p \in Output \ {o}
        PROVE  owed'[p] = owed[p] /\ (Pending(p)' => Pending(p))
    BY <1>1, <2>2, <2>3, <2>5, SentUnderway
  <2>6. ASSUME NEW p \in Output
        PROVE  Underway(p) \subseteq Underway(p)'
    <3>1. CASE p = o
      <4>1. owed[p] \subseteq Underway(p)'
        BY <2>2, <2>3, <3>1, SentUnderway
      <4> QED
        BY <2>2, <2>3, <4>1, SentUnderway
    <3>2. CASE p # o
      <4>1. owed[p] \subseteq Underway(p)'
        BY <2>5, <3>2 DEF Underway
      <4> QED
        BY <2>2, <2>3, <4>1, SentUnderway
    <3> QED
      BY <3>1, <3>2
  <2>7. \A x \in (Cells(s.cap[o].size) \cap DOMAIN content[o]) \ owed'[o] : new[x] = content[o][x]
    <3>1. ASSUME NEW x \in Cells(s.cap[o].size) \cap DOMAIN content[o], x \notin owed[o], ~s.cap[o].whole
          PROVE  s.cap[o].pixels[x] = content[o][x]
      <4>1. s.cap[o].has
        BY <1>2, <2>3, <3>1 DEF Used
      <4> QED
        BY <1>2, <2>3, <3>1, <4>1 DEF Filled
    <3> QED
      BY <2>1, <3>1
  <2> QED
    BY <2>1, <2>3, <2>4, <2>5, <2>6, <2>7, WrotePicture
<1>5. CASE ReadyAgain(o)
  <2>1. content[o] \in [Cells(s.cap[o].size) -> Int] /\ Wrote(o, content[o])
    BY <1>5, ReadyAgainParts
  <2> DEFINE e == Event(o, "ready", DOMAIN content[o])
  <2>2. e \in Event_Type /\ e.on = o /\ e.kind = "ready"
    <3>1. DOMAIN content[o] \in SUBSET (Int \X Int)
      BY TypeFacts
    <3> QED
      BY <3>1, EventTyped
  <2>3. Requested(o) /\ Send(e) /\ UNCHANGED <<outs, content, owed>>
    BY <1>5 DEF ReadyAgain
  <2> HIDE DEF e
  <2>4. OutsClear(outs, events')
    BY <1>1, <2>2, <2>3, SentClear
  <2>5. ASSUME NEW p \in Output \ {o}
        PROVE  owed'[p] = owed[p] /\ (Pending(p)' => Pending(p))
    BY <2>2, <2>3, <2>5, SentUnderway
  <2>6. ASSUME NEW p \in Output
        PROVE  Underway(p) \subseteq Underway(p)'
    <3>1. owed[p] \subseteq Underway(p)'
      BY <2>3 DEF Underway
    <3> QED
      BY <2>2, <2>3, <3>1, SentUnderway
  <2> QED
    BY <2>1, <2>3, <2>4, <2>5, <2>6, WrotePicture
<1> QED
  BY <1>3, <1>4, <1>5

-----------------------------------------------------------------------------
(* Pictures: an event is handled.                                          *)

LEMMA DispatchedEvents ==
  ASSUME TypeInv, Dispatch, NEW r, NEW replaced, NEW o, Handling(r, replaced, o)
  PROVE  /\ s' = r /\ content' = content /\ Tail(events) \in Seq(Event_Type)
         /\ \A p \in Output : owed[p] \subseteq owed'[p]
         /\ events' \in Seq(Event_Type)
         /\ \E f : PickedBy(events', Tail(events), Held(r, Tail(events), replaced), f)
<1> DEFINE q == Tail(events)
<1>1. q \in Seq(Event_Type) /\ Len(q) <= MaxEvents /\ Answered(s, q)
  BY TailAnswered DEF Dispatch
<1>2. /\ Deliver(r, q, replaced) /\ Handled(s, r) /\ FramesKept(s, r, o)
      /\ \A i \in DOMAIN q : q[i].kind \in {"ready", "failed"} /\ q[i].on = o => o = replaced
  BY DEF Handling
<1> HIDE DEF q
<1>3. s' = r /\ events' \in Seq(Event_Type) /\ \E f : PickedBy(events', q, Held(r, q, replaced), f)
  BY <1>1, <1>2, Delivered
<1>4. /\ owed' = [p \in Output |-> IF session'[p] = "new" THEN DOMAIN content[p] ELSE owed[p]]
      /\ content' = content
  BY DEF Dispatch
<1>5. \A p \in Output : owed[p] \subseteq DOMAIN content[p]
  BY DEF TypeInv
<1>6. \A p \in Output : owed[p] \subseteq owed'[p]
  BY <1>4, <1>5
<1> QED
  BY <1>1, <1>3, <1>4, <1>6 DEF q

LEMMA DispatchedClear ==
  ASSUME TypeInv, PictureInv, Dispatch, NEW r, NEW replaced, NEW o, Handling(r, replaced, o)
  PROVE  AllClear(outs) /\ AllClear(outs') /\ OutsClear(outs', events')
<1> DEFINE q == Tail(events)
<1>1. /\ q \in Seq(Event_Type) /\ events' \in Seq(Event_Type)
      /\ \E f : PickedBy(events', q, Held(r, q, replaced), f)
  BY DispatchedEvents
<1>2. /\ events \in Seq(Event_Type) /\ events # <<>> /\ OutsClear(outs, events)
      /\ outs \in [Output -> ScreenGeometry \cup {Gone}] /\ DOMAIN outs = Output
  BY DEF TypeInv, PictureInv, Dispatch
<1>3. Head(events) = events[1] /\ events[1] \in Event_Type
  BY <1>2, TailParts
<1>4. events[1].on \in Output
  BY <1>3, EventParts
<1>5. \/ outs' = outs /\ events[1].kind \notin {"output", "removed"}
      \/ events[1].kind = "output" /\ outs' = [outs EXCEPT ![events[1].on] = events[1].arg]
      \/ events[1].kind = "removed" /\ outs' = [outs EXCEPT ![events[1].on] = Gone]
  BY <1>3 DEF Handling
<1>6. AllClear(outs') /\ OutsClear(outs', q)
  BY <1>2, <1>4, <1>5, TakenClear
<1> HIDE DEF q
<1>7. PICK f : PickedBy(events', q, Held(r, q, replaced), f)
  BY <1>1
<1>8. /\ Held(r, q, replaced) \in SUBSET DOMAIN q
      /\ \A i \in DOMAIN q : q[i].kind \in {"output", "removed"} => i \in Held(r, q, replaced)
  BY DEF Held
<1>9. OutsClear(outs', events')
  BY <1>1, <1>6, <1>7, <1>8, PickedClear
<1> QED
  BY <1>2, <1>6, <1>9 DEF OutsClear

\* Frames that are on their way still, and those that are not.
LEMMA DispatchedFrames ==
  ASSUME TypeInv, Dispatch, NEW r, NEW replaced, NEW o, Handling(r, replaced, o),
         NEW p \in Output
  PROVE  /\ Pending(p)' =>
              /\ Pending(p) /\ s.cap[p].frame /\ r.cap[p].session /\ p # o
         /\ r.cap[p].session /\ p # replaced =>
              \A x \in Underway(p) :
                \/ x \in Underway(p)'
                \/ Head(events).on = p /\ Head(events).kind = "ready" /\ x \in Head(events).arg
         /\ owed'[p] \subseteq Underway(p)' /\ owed[p] \subseteq owed'[p]
<1> DEFINE q == Tail(events)
           keep == Held(r, q, replaced)
<1>1. /\ q \in Seq(Event_Type) /\ events' \in Seq(Event_Type) /\ owed[p] \subseteq owed'[p]
      /\ \E f : PickedBy(events', q, keep, f)
  BY DispatchedEvents
<1>2. /\ events \in Seq(Event_Type) /\ events # <<>> /\ Answered(s, events)
  BY DEF TypeInv, Dispatch
<1>3. /\ Head(events) = events[1] /\ DOMAIN events = 1 .. Len(events) /\ Len(events) \in Nat
      /\ DOMAIN q = 1 .. Len(events) - 1
      /\ \A i \in DOMAIN q : q[i] = events[i + 1] /\ i + 1 \in DOMAIN events
  BY <1>2, TailParts
<1>4. \A i \in DOMAIN q : q[i].kind \in {"ready", "failed"} /\ q[i].on = o => o = replaced
  BY DEF Handling
<1> HIDE DEF q
<1>5. keep \subseteq DOMAIN q
      /\ \A i \in DOMAIN q : q[i].kind = "ready" =>
           (i \in keep <=> r.cap[q[i].on].session /\ q[i].on # replaced)
  BY DEF Held
<1> HIDE DEF keep
<1>6. PICK f : PickedBy(events', q, keep, f)
  BY <1>1
<1>7. /\ DOMAIN events' = 1 .. Len(events')
      /\ \A i \in DOMAIN events' : f[i] \in keep /\ events'[i] = q[f[i]]
      /\ \A k \in keep : \E i \in DOMAIN events' : f[i] = k
  BY <1>1, <1>6 DEF PickedBy
<1>8. ASSUME Pending(p)'
      PROVE  Pending(p) /\ s.cap[p].frame /\ r.cap[p].session /\ p # o
  <2>1. PICK i \in DOMAIN events' : events'[i].on = p /\ events'[i].kind = "ready"
    BY <1>8 DEF Pending
  <2> DEFINE k == f[i]
  <2>2. k \in keep /\ k \in DOMAIN q /\ q[k].on = p /\ q[k].kind = "ready"
    BY <1>5, <1>7, <2>1
  <2> HIDE DEF k
  <2>3. r.cap[p].session /\ p # replaced
    BY <1>5, <2>2
  <2>4. k + 1 \in DOMAIN events /\ events[k + 1].on = p /\ events[k + 1].kind = "ready"
    BY <1>3, <2>2
  <2>5. Pending(p)
    BY <2>4 DEF Pending
  <2>6. s.cap[p].frame
    BY <1>2, <2>4 DEF Answered
  <2>7. p # o
    BY <1>4, <2>2, <2>3
  <2> QED
    BY <2>3, <2>5, <2>6, <2>7
<1>9. ASSUME r.cap[p].session, p # replaced, NEW x \in Underway(p),
             ~(Head(events).on = p /\ Head(events).kind = "ready" /\ x \in Head(events).arg)
      PROVE  x \in Underway(p)'
  <2>1. CASE x \in owed[p]
    BY <1>1, <2>1 DEF Underway
  <2>2. CASE x \notin owed[p]
    <3>1. PICK j \in DOMAIN events : events[j].on = p /\ events[j].kind = "ready" /\ x \in events[j].arg
      BY <1>9, <2>2 DEF Underway
    <3>2. j # 1
      BY <1>3, <1>9, <3>1
    <3> DEFINE k == j - 1
    <3>3. k \in DOMAIN q /\ k + 1 = j
      BY <1>3, <3>2
    <3> HIDE DEF k
    <3>4. q[k] = events[j]
      BY <1>3, <3>3
    <3>5. k \in keep
      BY <1>5, <1>9, <3>1, <3>3, <3>4
    <3>6. PICK i \in DOMAIN events' : f[i] = k
      BY <1>7, <3>5
    <3>7. events'[i] = events[j]
      BY <1>7, <3>4, <3>6
    <3> QED
      BY <3>1, <3>7 DEF Underway
  <2> QED
    BY <2>1, <2>2
<1>10. owed'[p] \subseteq Underway(p)'
  BY DEF Underway
<1> QED
  BY <1>1, <1>8, <1>9, <1>10

\* An event that is no frame: what has a frame keeps its buffer, and is where
\* it was or is drawn anew.
LEMMA OtherPicture ==
  ASSUME TypeInv, PictureInv, Dispatch, NEW r, NEW replaced, NEW o, Handling(r, replaced, o),
         ~Ended(s), ~Ended(r), Head(events).kind # "ready"
  PROVE  Sharing(s', outs') /\ \A p \in Captured(s') : Filled(p)' /\ Current(p)'
<1>1. AllClear(outs) /\ AllClear(outs') /\ Sharing(s, outs)
      /\ \A p \in Captured(s) : Filled(p) /\ Current(p)
  BY DispatchedClear DEF PictureInv
<1>2. Sharing(r, outs') /\ BuffersKept(s, r) /\ Shown(s, r) /\ Handled(s, r) /\ FramesKept(s, r, o)
      /\ \A p \in Output : p = replaced /\ Used(s.cap[p]) => ~r.cap[p].has
  BY <1>1 DEF Handling
<1>3. s' = r /\ content' = content
  BY DispatchedEvents
<1>4. ASSUME NEW p \in Captured(r)
      PROVE  /\ p \in Output /\ r.cap[p].session
             /\ r.cap[p].has => /\ p \in Captured(s) /\ s.cap[p].has /\ p # replaced
                                /\ r.cap[p].pixels = s.cap[p].pixels
                                /\ r.cap[p].size = s.cap[p].size
  <2>1. p \in Output
    BY <1>2 DEF Handled, Kept, ScreenType, Captured
  <2>2. r.cap[p].session
    BY <1>2 DEF Sharing, Used
  <2>3. r.cap[p].has => /\ p \in Captured(s) /\ s.cap[p].has
                        /\ r.cap[p].pixels = s.cap[p].pixels /\ r.cap[p].size = s.cap[p].size
    BY <1>2 DEF BuffersKept
  <2>4. r.cap[p].has => p # replaced
    BY <1>1, <1>2, <2>1, <2>3 DEF Sharing
  <2> QED
    BY <2>1, <2>2, <2>3, <2>4
<1>5. ASSUME NEW p \in Captured(r)
      PROVE  Filled(p)'
  <2>1. /\ p \in Output /\ owed[p] \subseteq owed'[p]
        /\ Pending(p)' => Pending(p) /\ s.cap[p].frame /\ r.cap[p].session /\ p # o
    BY <1>4, DispatchedFrames
  <2>2. ASSUME r.cap[p].has \/ Pending(p)'
        PROVE  /\ p \in Captured(s) /\ (s.cap[p].has \/ Pending(p))
               /\ r.cap[p].pixels = s.cap[p].pixels /\ r.cap[p].size = s.cap[p].size
    <3>1. CASE r.cap[p].has
      BY <1>4, <3>1
    <3>2. CASE Pending(p)'
      <4>1. r.cap[p].pixels = s.cap[p].pixels /\ r.cap[p].size = s.cap[p].size
        BY <1>2, <2>1, <3>2 DEF FramesKept
      <4>2. p \in Captured(s)
        BY <2>1, <3>2, CapturedOutput, TypeFacts
      <4> QED
        BY <2>1, <3>2, <4>1, <4>2
    <3> QED
      BY <2>2, <3>1, <3>2
  <2> QED
    BY <1>1, <1>3, <2>1, <2>2 DEF Filled
<1>6. ASSUME NEW p \in Captured(r)
      PROVE  Current(p)'
  <2>1. SUFFICES ASSUME r.cap[p].has,
                        NEW x \in (Cells(r.cap[p].size) \cap DOMAIN content[p]) \ Underway(p)'
                 PROVE  r.seen[Moved(x, r.cap[p].at)] = content[p][x]
    BY <1>3 DEF Current
  <2>2. /\ p \in Output /\ r.cap[p].session /\ p \in Captured(s) /\ s.cap[p].has /\ p # replaced
        /\ r.cap[p].pixels = s.cap[p].pixels /\ r.cap[p].size = s.cap[p].size
    BY <1>4, <2>1
  <2>3. Underway(p) \subseteq Underway(p)' /\ owed'[p] \subseteq Underway(p)'
    BY <2>2, DispatchedFrames
  <2>4. CASE r.seen = s.seen /\ \A v \in Captured(r) : r.cap[v].has => r.cap[v].at = s.cap[v].at
    <3>1. r.seen = s.seen /\ r.cap[p].at = s.cap[p].at
      BY <2>1, <2>4
    <3>2. Current(p)
      BY <1>1, <2>2
    <3> QED
      BY <2>1, <2>2, <2>3, <3>1, <3>2 DEF Current
  <2>5. CASE \A v \in Captured(r) : r.cap[v].has =>
               \A c \in Cells(r.cap[v].size) :
                 r.seen[Moved(c, r.cap[v].at)] = r.cap[v].pixels[c]
    <3>1. r.seen[Moved(x, r.cap[p].at)] = r.cap[p].pixels[x]
      BY <2>1, <2>5
    <3>2. r.cap[p].pixels[x] = content[p][x]
      BY <1>3, <1>5, <2>1, <2>3 DEF Filled
    <3> QED
      BY <3>1, <3>2
  <2> QED
    BY <1>2, <2>4, <2>5 DEF Shown
<1> QED
  BY <1>2, <1>3, <1>5, <1>6

\* Captures lie on the canvas, beside each other.
LEMMA LaidOutParts ==
  ASSUME NEW r, Kept(r), NEW g \in [Output -> ScreenGeometry \cup {Gone}], Known(r, g),
         AllClear(g), LaidOut(r, g), NEW o \in Captured(r)
  PROVE  /\ \A x \in Cells(r.cap[o].size) : Moved(x, r.cap[o].at) \in Cells(r.size)
         /\ \A p \in Captured(r) :
              p # o /\ r.cap[o].size \in Size /\ r.cap[p].size \in Size =>
                Apart(r.cap[o].at, r.cap[o].size, r.cap[p].at, r.cap[p].size)
<1> DEFINE off == Offsets(Tiled(r, g))
           z == Extent(Tiled(r, g), off)
           c(i) == r.cap[r.captures[i]]
<1>1. r \in ScreenType
  BY DEF Kept
<1>2. \A i \in DOMAIN r.captures :
        /\ \A x \in Cells(c(i).size) : Moved(x, off[i]) \in Cells(z)
        /\ \A j \in DOMAIN r.captures :
             /\ i # j /\ Clear(g[r.captures[i]], g[r.captures[j]])
             /\ c(i).size \in Size /\ c(j).size \in Size
             => Apart(off[i], c(i).size, off[j], c(j).size)
  BY <1>1, TiledParts
<1>3. r.size = z /\ \A i \in DOMAIN r.captures : c(i).at = off[i]
  BY DEF LaidOut
<1> HIDE DEF off, z
<1>4. PICK i \in DOMAIN r.captures : r.captures[i] = o
  BY DEF Captured
<1>5. \A x \in Cells(r.cap[o].size) : Moved(x, r.cap[o].at) \in Cells(r.size)
  BY <1>2, <1>3, <1>4
<1>6. ASSUME NEW p \in Captured(r), p # o, r.cap[o].size \in Size, r.cap[p].size \in Size
      PROVE  Apart(r.cap[o].at, r.cap[o].size, r.cap[p].at, r.cap[p].size)
  <2>1. PICK j \in DOMAIN r.captures : r.captures[j] = p
    BY DEF Captured
  <2>2. o \in Output /\ p \in Output
    BY <1>1 DEF ScreenType, Captured
  <2>3. Clear(g[o], g[p])
    BY <1>6, <2>2 DEF AllClear, Known
  <2>4. Apart(off[i], c(i).size, off[j], c(j).size)
    BY <1>2, <1>4, <1>6, <2>1, <2>3
  <2> QED
    BY <1>3, <1>4, <2>1, <2>4
<1> QED
  BY <1>5, <1>6

\* A frame: its cells are drawn where no other capture is.
LEMMA ReadyPicture ==
  ASSUME TypeInv, PictureInv, Dispatch, NEW r, NEW replaced, NEW o, Handling(r, replaced, o),
         ~Ended(s), ~Ended(r), Head(events).kind = "ready"
  PROVE  Sharing(s', outs') /\ \A p \in Captured(s') : Filled(p)' /\ Current(p)'
<1>0. PICK h, damage : h = Head(events).on /\ damage = Head(events).arg
  OBVIOUS
<1> DEFINE c == s.cap[h]
           d == r.cap[h]
           cells == NewCells(c, damage)
<1>1. /\ AllClear(outs) /\ Sharing(s, outs) /\ Kept(s) /\ Known(s, outs)
      /\ outs \in [Output -> ScreenGeometry \cup {Gone}]
      /\ \A p \in Captured(s) : Filled(p) /\ Current(p)
  BY DEF PictureInv, TypeInv, OutsClear
<1>2. /\ s' = r /\ content' = content /\ outs' = outs /\ Handled(s, r)
      /\ \A p \in Output : p = replaced /\ Used(s.cap[p]) => ~r.cap[p].has
  BY DispatchedEvents DEF Handling
<1>3. /\ events \in Seq(Event_Type) /\ events # <<>> /\ Answered(s, events) /\ ~s.freed
  BY DEF TypeInv, Dispatch
<1>4. Head(events) = events[1] /\ 1 \in DOMAIN events /\ events[1] \in Event_Type
  BY <1>3, TailParts
<1>5. h \in Output /\ c.frame /\ Pending(h)
  BY <1>0, <1>3, <1>4, EventParts DEF Answered, Pending
<1>6. c.session /\ h \in Captured(s) /\ c \in CaptureType /\ CaptureOK(c) /\ c.pixels # NoPixels
  BY <1>5, TypeFacts, CapturedOutput
<1>7. PICK frees \in BOOLEAN : r = frame_ready(s, h, damage, frees)
  BY <1>0 DEF Handling
<1>8. ~r.dead
  BY DEF Ended
<1>9. /\ SameFlags(s, r) /\ SamePlaces(s, r) /\ OthersSame(s, r, h)
      /\ DOMAIN r.canvas = DOMAIN s.canvas
      /\ d.pixels = c.pixels /\ d.has /\ (Used(c) => Used(d))
      /\ Seen(s, r, h, cells)
  BY <1>1, <1>3, <1>5, <1>7, <1>8, FrameReadyParts
<1> HIDE DEF c, d
<1>10. /\ Captured(r) = Captured(s) /\ Captured(s) \subseteq Output /\ s \in ScreenType
       /\ LaidOut(s, outs) /\ LaidOut(r, outs)
  BY <1>1, <1>9, CapturedOutput, PlacesParts DEF Sharing, Kept
<1>11. /\ \A p \in Captured(s) : Used(s.cap[p])
       /\ \A p \in Captured(r) : Used(r.cap[p])
  BY <1>1, <1>6, <1>9, <1>10 DEF Sharing, OthersSame, c, d
<1>12. /\ \A x \in Cells(c.size) : Moved(x, c.at) \in Cells(s.size)
       /\ \A p \in Captured(s) :
            p # h /\ c.size \in Size /\ s.cap[p].size \in Size =>
              Apart(c.at, c.size, s.cap[p].at, s.cap[p].size)
  BY <1>1, <1>6, <1>10, LaidOutParts DEF c
<1>13. DOMAIN s.canvas = Cells(s.size) /\ DOMAIN c.pixels = Cells(c.size)
       /\ c.size \in Size /\ c.size \in Nat \X Nat /\ c.at \in Nat \X Nat
       /\ d.size = c.size /\ d.at = c.at /\ r.size = s.size
  BY <1>1, <1>5, <1>6, <1>9, CaptureParts DEF CaptureOK, Kept, SamePlaces, c, d
<1>14. DOMAIN r.seen = Cells(s.size)
  <2>1. CASE c.has
    <3>1. DOMAIN s.seen = Cells(s.size)
      BY <1>1, <1>6, <1>13, <2>1 DEF Sharing, SeenWhole, c
    <3> QED
      BY <1>9, <3>1 DEF Seen, c
  <2>2. CASE ~c.has
    <3>1. cells = Cells(c.size)
      BY <2>2 DEF NewCells
    <3>2. PICK x : x \in Cells(c.size)
      BY <1>13, PictureParts
    <3>3. Moved(x, c.at) \in Cells(s.size)
      BY <1>12, <3>2
    <3> QED
      BY <1>9, <3>1, <3>2, <3>3 DEF Seen, c
  <2> QED
    BY <2>1, <2>2
<1> HIDE DEF cells
<1>15. Sharing(r, outs)
  <2>1. r.captures # <<>>
    BY <1>1, <1>9 DEF Sharing, SamePlaces
  <2>2. SeenWhole(r)
    BY <1>9, <1>13, <1>14 DEF SeenWhole
  <2> QED
    BY <1>10, <1>11, <2>1, <2>2 DEF Sharing
<1>16. ASSUME NEW p \in Captured(s)
       PROVE  /\ p \in Output /\ owed[p] \subseteq owed'[p] /\ owed'[p] \subseteq Underway(p)'
              /\ Pending(p)' => Pending(p)
              /\ r.cap[p].has => \A x \in Underway(p) : x \in Underway(p)' \/ (p = h /\ x \in damage)
  <2>1. p \in Output /\ r.cap[p].session
    BY <1>10, <1>11, <1>16 DEF Used
  <2>2. r.cap[p].has => p # replaced
    BY <1>2, <1>11, <2>1
  <2> QED
    BY <1>0, <2>1, <2>2, DispatchedFrames
<1>17. ASSUME NEW p \in Captured(s)
       PROVE  Filled(p)'
  <2>1. /\ r.cap[p].pixels = s.cap[p].pixels /\ r.cap[p].size = s.cap[p].size
        /\ (r.cap[p].has \/ Pending(p) => s.cap[p].has \/ Pending(p))
    <3>1. CASE p = h
      BY <1>5, <1>9, <1>13, <3>1 DEF c, d
    <3>2. CASE p # h
      BY <1>9, <1>16, <3>2 DEF OthersSame
    <3> QED
      BY <3>1, <3>2
  <2> QED
    BY <1>1, <1>2, <1>16, <2>1 DEF Filled
<1>18. Current(h)'
  <2>0. s'.cap[h] = d /\ s'.seen = r.seen /\ content'[h] = content[h]
    BY <1>2 DEF d
  <2>1. SUFFICES ASSUME NEW x \in (Cells(c.size) \cap DOMAIN content[h]) \ Underway(h)'
                 PROVE  r.seen[Moved(x, c.at)] = content[h][x]
    BY <2>0, <1>13 DEF Current
  <2>2. x \notin owed[h] /\ Moved(x, c.at) \in Cells(s.size) /\ x \in Nat \X Nat
    <3>1. owed[h] \subseteq Underway(h)'
      BY <1>6, <1>16
    <3>2. x \in Cells(c.size)
      BY <2>1
    <3>3. x \in Nat \X Nat
      BY <1>13, <3>2, PictureParts
    <3>4. Moved(x, c.at) \in Cells(s.size)
      BY <1>12, <3>2
    <3> QED
      BY <2>1, <3>1, <3>3, <3>4
  <2>3. CASE x \in cells
    <3>1. r.seen[Moved(x, c.at)] = c.pixels[x]
      BY <1>9, <2>1, <2>2, <2>3 DEF Seen, c
    <3>2. c.pixels[x] = content[h][x]
      BY <1>1, <1>5, <1>6, <2>1, <2>2 DEF Filled, c
    <3> QED
      BY <3>1, <3>2
  <2>4. CASE x \notin cells
    <3>1. c.has /\ x \notin damage
      BY <2>1, <2>4 DEF cells, NewCells
    <3>2. DOMAIN s.seen = Cells(s.size)
      BY <1>1, <1>6, <1>13, <3>1 DEF Sharing, SeenWhole, c
    <3>3. ASSUME NEW y \in cells \cap Cells(c.size)
          PROVE  Moved(x, c.at) # Moved(y, c.at)
      <4>1. y \in Nat \X Nat
        BY <1>13, PictureParts
      <4>2. <<Moved(x, c.at)[1] - c.at[1], Moved(x, c.at)[2] - c.at[2]>> = x
        BY <1>13, <2>2, MovedBack
      <4>3. <<Moved(y, c.at)[1] - c.at[1], Moved(y, c.at)[2] - c.at[2]>> = y
        BY <1>13, <4>1, MovedBack
      <4> QED
        BY <2>4, <4>2, <4>3
    <3>4. r.seen[Moved(x, c.at)] = s.seen[Moved(x, c.at)]
      BY <1>9, <2>2, <3>2, <3>3 DEF Seen, c
    <3>5. x \notin Underway(h)
      <4>1. r.cap[h].has
        BY <1>9 DEF d
      <4>2. \A y \in Underway(h) : y \in Underway(h)' \/ y \in damage
        BY <1>6, <1>16, <4>1
      <4> QED
        BY <2>1, <3>1, <4>2
    <3>6. s.seen[Moved(x, c.at)] = content[h][x]
      BY <1>1, <1>6, <2>1, <3>1, <3>5 DEF Current, c
    <3> QED
      BY <3>4, <3>6
  <2> QED
    BY <2>3, <2>4
<1>19. ASSUME NEW p \in Captured(s), p # h
       PROVE  Current(p)'
  <2> DEFINE v == s.cap[p]
  <2>1. p \in Output /\ r.cap[p] = v /\ v \in CaptureType /\ CaptureOK(v) /\ Used(v)
    BY <1>9, <1>11, <1>16, <1>19, TypeFacts DEF OthersSame
  <2>2. SUFFICES ASSUME v.has,
                        NEW x \in (Cells(v.size) \cap DOMAIN content[p]) \ Underway(p)'
                 PROVE  r.seen[Moved(x, v.at)] = content[p][x]
    BY <1>2, <2>1 DEF Current
  <2>3. v.size \in Size /\ v.size \in Nat \X Nat /\ v.at \in Nat \X Nat
    BY <2>1, <2>2, CaptureParts DEF Used, CaptureOK
  <2>4. Apart(c.at, c.size, v.at, v.size)
    BY <1>12, <1>13, <1>19, <2>3
  <2>5. Moved(x, v.at) \in Cells(s.size)
    BY <1>1, <1>10, <2>2, LaidOutParts
  <2>6. DOMAIN s.seen = Cells(s.size)
    BY <1>1, <1>13, <2>2 DEF Sharing, SeenWhole
  <2> HIDE DEF v
  <2>7. \A y \in cells \cap Cells(c.size) : Moved(x, v.at) # Moved(y, c.at)
    BY <1>13, <2>2, <2>3, <2>4, NotBoth
  <2>8. r.seen[Moved(x, v.at)] = s.seen[Moved(x, v.at)]
    BY <1>9, <2>5, <2>6, <2>7 DEF Seen, c
  <2>9. x \notin Underway(p)
    BY <1>16, <1>19, <2>1, <2>2
  <2>10. s.seen[Moved(x, v.at)] = content[p][x]
    BY <1>1, <2>2, <2>9 DEF Current, v
  <2> QED
    BY <2>8, <2>10
<1>20. ASSUME NEW p \in Captured(s)
       PROVE  Filled(p)' /\ Current(p)'
  BY <1>17, <1>18, <1>19
<1>21. Sharing(s', outs') /\ Captured(s') = Captured(s)
  BY <1>2, <1>10, <1>15
<1> QED
  BY <1>20, <1>21

-----------------------------------------------------------------------------
(* What is seen is what there is.                                          *)

LEMMA PictureStart ==
  ScreenInit => PictureInv
<1> SUFFICES ASSUME ScreenInit
             PROVE  PictureInv
  OBVIOUS
<1>1. outs \in FirstOuts /\ s = NewScreen(outs) /\ events = <<>>
  BY DEF ScreenInit
<1>2. /\ AllClear(outs) /\ Sharing(s, outs) /\ Kept(s)
      /\ \A o \in Output : ~s.cap[o].frame /\ ~s.cap[o].has
  BY <1>1, NewScreenParts
<1>3. DOMAIN events = {}
  BY <1>1
<1>4. OutsClear(outs, events)
  BY <1>2, <1>3, ClearAts
<1>5. Captured(s) \subseteq Output
  BY <1>2 DEF Kept, ScreenType, Captured
<1>6. \A o \in Captured(s) : Filled(o) /\ Current(o)
  BY <1>2, <1>3, <1>5 DEF Filled, Current, Pending
<1> QED
  BY <1>2, <1>4, <1>6 DEF PictureInv

LEMMA DispatchPicture ==
  ASSUME TypeInv, PictureInv, Dispatch
  PROVE  PictureInv'
<1>1. PICK r, replaced, o : Handling(r, replaced, o)
  BY DispatchParts
<1>2. s' = r /\ OutsClear(outs', events')
  BY <1>1, DispatchedEvents, DispatchedClear
<1>3. ASSUME ~Ended(r)
      PROVE  ~Ended(s)
  <2>1. Handled(s, r)
    BY <1>1 DEF Handling
  <2>2. ~s.freed /\ ~s.broken
    BY DEF Dispatch
  <2> QED
    BY <1>3, <2>1, <2>2 DEF Handled, Ended
<1>4. ~Ended(r) => Sharing(s', outs') /\ \A p \in Captured(s') : Filled(p)' /\ Current(p)'
  BY <1>1, <1>3, ReadyPicture, OtherPicture
<1> QED
  BY <1>2, <1>4 DEF PictureInv

\* The screen is shared no more.
LEMMA OverPicture ==
  ASSUME TypeInv, PictureInv, screen_stopped_idle \/ Free \/ Lose \/ Close
  PROVE  PictureInv'
<1>1. Kept(s) /\ s \in ScreenType /\ OutsClear(outs, events) /\ events \in Seq(Event_Type)
  BY DEF TypeInv, PictureInv, Kept
<1>2. CASE screen_stopped_idle
  <2>1. s.stopped /\ outs' = outs /\ events' = events
    BY <1>1, <1>2 DEF Kept, screen_stopped_idle
  <2>2. PICK told, dead : s' = FreedIfDead([s EXCEPT !.stopped_idle = FALSE, !.told = told, !.dead = dead])
    BY <1>2 DEF screen_stopped_idle
  <2>3. s'.stopped
    BY <1>1, <2>1, <2>2 DEF FreedIfDead, rd_screen_free, ScreenType
  <2> QED
    BY <1>1, <2>1, <2>3 DEF PictureInv, Ended
<1>3. CASE Free
  <2> DEFINE r == rd_screen_free(s)
             keep == Held(r, events, "none")
  <2>1. Deliver(r, events, "none") /\ outs' = outs
    BY <1>3 DEF Free
  <2>2. r.freed
    BY <1>1, FreedParts
  <2> HIDE DEF r
  <2>3. s' = r /\ events' = Picked(events, keep)
    BY <2>1 DEF Deliver, Held
  <2>4. /\ keep \in SUBSET DOMAIN events
        /\ \A i \in DOMAIN events : events[i].kind \in {"output", "removed"} => i \in keep
    BY DEF Held
  <2> HIDE DEF keep
  <2>5. events' \in Seq(Event_Type) /\ \E f : PickedBy(events', events, keep, f)
    BY <1>1, <2>3, <2>4, PickedParts
  <2>6. PICK f : PickedBy(events', events, keep, f)
    BY <2>5
  <2>7. OutsClear(outs, events')
    BY <1>1, <2>4, <2>5, <2>6, PickedClear
  <2> QED
    BY <2>1, <2>2, <2>3, <2>7 DEF PictureInv, Ended
<1>4. CASE Lose \/ Close
  <2>1. outs' = outs /\ events' = <<>>
    BY <1>4 DEF Lose, Close
  <2>2. s'.broken
    <3>1. CASE Close
      BY <1>1, <3>1 DEF Close, ScreenType
    <3>2. CASE Lose
      <4> DEFINE u == screen_emit_stopped(s)
      <4>1. s' = [u EXCEPT !.broken = TRUE] /\ ~s.freed
        BY <3>2 DEF Lose, Shared
      <4>2. u \in ScreenType
        BY <1>1, <4>1, StoppedParts DEF Kept
      <4> HIDE DEF u
      <4> QED
        BY <4>1, <4>2 DEF ScreenType
    <3> QED
      BY <1>4, <3>1, <3>2
  <2>3. DOMAIN events' = {}
    BY <2>1
  <2>4. OutsClear(outs, events')
    BY <1>1, <2>3, ClearAts
  <2> QED
    BY <2>1, <2>2, <2>4 DEF PictureInv, Ended
<1> QED
  BY <1>2, <1>3, <1>4

\* What the compositor does when the screen has stopped, or is about to be
\* freed, still leaves the outputs side by side.
LEMMA EndedPicture ==
  ASSUME TypeInv, PictureInv, Ended(s), NEW o \in Output,
         \/ Offer(o) \/ Refuse(o) \/ Fail(o) \/ Stop(o) \/ Withdraw(o)
         \/ \E g \in ScreenGeometry : Announce(o, g)
         \/ \E c \in DOMAIN content[o] : Copy(o, c) \/ Paint(o, c)
         \/ Ready(o) \/ ReadyAgain(o)
         \/ \E size \in BufferSize, f \in ShmFormats :
              Constrain(o, [size |-> size, formats |-> f])
  PROVE  PictureInv'
<1>1. OutsClear(outs, events)
  BY DEF PictureInv
<1>2. CASE \/ Offer(o) \/ Refuse(o) \/ Fail(o) \/ Stop(o) \/ Withdraw(o)
           \/ \E g \in ScreenGeometry : Announce(o, g)
  <2>1. PICK e \in Event_Type :
          /\ Send(e)
          /\ e.kind = "output" =>
               \A p \in Output \ {e.on} : Latest(p) # Gone => Disjoint(e.arg, Latest(p))
    BY <1>2, EventsSent
  <2>2. OutsClear(outs, events')
    BY <1>1, <2>1, SentClear
  <2> QED
    BY <1>2, <2>2, EventsSent DEF PictureInv
<1>3. CASE \E c \in DOMAIN content[o] : Copy(o, c) \/ Paint(o, c)
  <2>1. events' = events /\ outs' = outs
    BY <1>3 DEF Copy, Paint
  <2>2. Ended(s')
    <3>1. CASE \E c \in DOMAIN content[o] : Paint(o, c)
      BY <3>1 DEF Paint
    <3>2. CASE \E c \in DOMAIN content[o] : Copy(o, c)
      <4>1. PICK new \in [Cells(s.cap[o].size) -> Int] : Wrote(o, new) /\ Requested(o)
        BY <3>2, CopyParts DEF Copy
      <4> QED
        BY <4>1, WroteParts DEF SameFlags, SameCanvas, Ended
    <3> QED
      BY <1>3, <3>1, <3>2
  <2> QED
    BY <1>1, <2>1, <2>2 DEF PictureInv
<1>4. CASE Ready(o) \/ ReadyAgain(o)
  <2> DEFINE e(x) == Event(o, "ready", x)
  <2>1. Requested(o) /\ outs' = outs /\ (Send(e(owed[o])) \/ Send(e(DOMAIN content[o])))
    BY <1>4 DEF Ready, ReadyAgain
  <2>2. \A x \in {owed[o], DOMAIN content[o]} : e(x) \in Event_Type /\ e(x).kind = "ready"
    BY EventTyped, TypeFacts
  <2> HIDE DEF e
  <2>3. OutsClear(outs, events')
    BY <1>1, <2>1, <2>2, SentClear
  <2>4. PICK new \in [Cells(s.cap[o].size) -> Int] : Wrote(o, new)
    BY <1>4, ReadyParts, ReadyAgainParts
  <2>5. Ended(s')
    BY <2>1, <2>4, WroteParts DEF SameFlags, SameCanvas, Ended
  <2> QED
    BY <2>1, <2>3, <2>5 DEF PictureInv
<1>5. CASE \E size \in BufferSize, f \in ShmFormats :
             Constrain(o, [size |-> size, formats |-> f])
  <2>1. PICK to \in Offered : Constrain(o, to)
    <3>1. PICK size \in BufferSize, f \in ShmFormats : Constrain(o, [size |-> size, formats |-> f])
      BY <1>5
    <3>2. [size |-> size, formats |-> f] \in Offered
      BY ScreenAssumption DEF Offered, Size
    <3> QED
      BY <3>1, <3>2
  <2> DEFINE e == Event(o, "constraints", to)
  <2>2. UNCHANGED <<s, outs>> /\ (Send(e) \/ events' = events)
    BY <2>1 DEF Constrain
  <2>3. e \in Event_Type /\ e.kind = "constraints"
    BY EventTyped
  <2> HIDE DEF e
  <2>4. OutsClear(outs, events')
    BY <1>1, <2>2, <2>3, SentClear
  <2> QED
    BY <2>2, <2>4 DEF PictureInv
<1> QED
  BY <1>2, <1>3, <1>4, <1>5

LEMMA PictureNext ==
  ASSUME TypeInv, PictureInv, [ScreenNext]_screenVars
  PROVE  PictureInv'
<1>1. CASE UNCHANGED screenVars
  <2>1. UNCHANGED <<s, outs, content, owed, events>>
    BY <1>1 DEF screenVars
  <2>2. \A o : (Filled(o)' <=> Filled(o)) /\ (Current(o)' <=> Current(o))
    BY <2>1 DEF Filled, Current, Pending, Underway
  <2> QED
    BY <2>1, <2>2 DEF PictureInv
<1>2. CASE Dispatch
  BY <1>2, DispatchPicture
<1>3. CASE screen_stopped_idle \/ Free \/ Lose \/ Close
  BY <1>3, OverPicture
<1>4. ASSUME NEW o \in Output,
             \/ Offer(o) \/ Refuse(o) \/ Fail(o) \/ Stop(o) \/ Withdraw(o)
             \/ \E g \in ScreenGeometry : Announce(o, g)
      PROVE  PictureInv'
  BY <1>4, EventsPicture, EndedPicture
<1>5. ASSUME NEW o \in Output,
             \/ \E c \in DOMAIN content[o] : Copy(o, c)
             \/ Ready(o) \/ ReadyAgain(o)
      PROVE  PictureInv'
  BY <1>5, WrittenPicture, EndedPicture
<1>6. ASSUME NEW o \in Output, NEW c \in DOMAIN content[o], Paint(o, c)
      PROVE  PictureInv'
  BY <1>6, PaintPicture, EndedPicture
<1>7. ASSUME NEW o \in Output, NEW size \in BufferSize, NEW f \in ShmFormats,
             Constrain(o, [size |-> size, formats |-> f])
      PROVE  PictureInv'
  BY <1>7, ConstrainPicture, EndedPicture
<1> QED
  BY <1>1, <1>2, <1>3, <1>4, <1>5, <1>6, <1>7 DEF ScreenNext

\* What the frame function was given, put together from the damage it was told
\* of, is what the outputs show, but for what is on its way (blit,
\* screen_layout, frame_ready, session_done).
THEOREM DamageSuffices == ScreenSpec => []DamageIsEnough
<1>1. TypeInv /\ PictureInv /\ [ScreenNext]_screenVars => PictureInv'
  BY PictureNext
<1>2. PictureInv => DamageIsEnough
  BY DEF PictureInv, Current, DamageIsEnough, Over, Ended
<1> QED
  BY PictureStart, TypesKept, <1>1, <1>2, PTL DEF ScreenSpec
=============================================================================
