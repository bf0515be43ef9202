---------------------------- MODULE ScreenLayout ----------------------------
(***************************************************************************)
(* How the captures of several outputs share one canvas (output_logical,   *)
(* output_pixels and screen_layout of sharing_host/rd_wayland.c), and      *)
(* where a pointer on the canvas goes (rd_screen_pointer_motion,           *)
(* pointer_layout).                                                        *)
(*                                                                         *)
(* An output has a geometry [at, mode, scale, transform, logical], logical *)
(* being <<>> or the [at, size] of xdg-output.  Positions and sizes are    *)
(* pairs, 1 across and 2 down.                                             *)
(***************************************************************************)
EXTENDS Integers, Sequences

Axis == {1, 2}
Pair(f) == <<f[1], f[2]>>
Larger(a, b) == IF a >= b THEN a ELSE b
Smaller(a, b) == IF a <= b THEN a ELSE b

output_pixels(g) == IF g.transform % 2 = 1 THEN <<g.mode[2], g.mode[1]>> ELSE g.mode

output_logical(g) ==
  IF g.logical # <<>> /\ g.logical.size[1] > 0 /\ g.logical.size[2] > 0
    THEN g.logical
    ELSE [at |-> g.at,
          size |-> Pair([k \in Axis |->
                     output_pixels(g)[k] \div Larger(g.scale, 1)])]

\* A geometry an output can have: some pixels, on a part of the desktop.
GeometryOK(g) ==
  /\ g.at \in Int \X Int /\ g.mode \in (Nat \ {0}) \X (Nat \ {0})
  /\ g.scale \in Int /\ g.transform \in 0 .. 7
  /\ g.logical # <<>> => g.logical.at \in Int \X Int /\ g.logical.size \in Int \X Int
  /\ \A k \in Axis : output_logical(g).size[k] > 0

\* A tile: the logical rectangle of an output and the pixels it is shown in,
\* those of the capture once it has a size.
TileOf(g, captured) ==
  [at |-> output_logical(g).at, size |-> output_logical(g).size,
   pixels |-> IF captured[1] > 0 THEN captured ELSE output_pixels(g)]

\* The largest of v and the members of S.
Largest(v, S) == CHOOSE m \in {v} \cup S : \A x \in {v} \cup S : x <= m

\* The tiles that logically end before tile i begins, along axis k.
Before(tiles, i, k) ==
  {j \in DOMAIN tiles \ {i} : tiles[j].at[k] + tiles[j].size[k] <= tiles[i].at[k]}

\* Tile i starts behind every tile that logically ends before it.
Push(tiles, off, i) ==
  [off EXCEPT ![i] = Pair([k \in Axis |->
     Largest(off[i][k], {off[j][k] + tiles[j].pixels[k] : j \in Before(tiles, i, k)})])]

\* One pass over the captures.
Pass(tiles, off) ==
  LET pushed[i \in 0 .. Len(tiles)] ==
        IF i = 0 THEN off ELSE Push(tiles, pushed[i - 1], i)
  IN  pushed[Len(tiles)]

Passes_One(n) == 1 \* Wrong: a chain of outputs is not followed to its end

\* screen_layout makes as many passes over the captures as there are.
Passes(n) == n

Offsets(tiles) ==
  LET passed[n \in 0 .. Passes(Len(tiles))] ==
        IF n = 0 THEN [i \in DOMAIN tiles |-> <<0, 0>>]
        ELSE Pass(tiles, passed[n - 1])
  IN  passed[Passes(Len(tiles))]

Extent(tiles, off) ==
  Pair([k \in Axis |->
          Largest(0, {off[i][k] + tiles[i].pixels[k] : i \in DOMAIN tiles})])

-----------------------------------------------------------------------------
(* The pointer.                                                            *)

Resolution == 8 \* RD_POINTER_RESOLUTION

\* The box around all outputs, from its first to behind its last position.
BoxFrom(tiles, k) == CHOOSE v \in {tiles[i].at[k] : i \in DOMAIN tiles} :
                       \A i \in DOMAIN tiles : v <= tiles[i].at[k]
BoxEnd(tiles, k) ==
  CHOOSE v \in {tiles[i].at[k] + tiles[i].size[k] : i \in DOMAIN tiles} :
    \A i \in DOMAIN tiles : v >= tiles[i].at[k] + tiles[i].size[k]

\* The tile under a point of the canvas, the first one if several are, or 0.
Under(tiles, off, p) ==
  LET hit == {i \in DOMAIN tiles : \A k \in Axis :
                off[i][k] <= p[k] /\ p[k] < off[i][k] + tiles[i].pixels[k]}
  IN  IF hit = {} THEN 0 ELSE CHOOSE i \in hit : \A j \in hit : i <= j

\* What is sent for a point of tile i: in units of 1/Resolution from the box.
rd_screen_pointer_motion(tiles, off, i, p) ==
  Pair([k \in Axis |->
    LET t == tiles[i]
        from == BoxFrom(tiles, k)
        ext == (BoxEnd(tiles, k) - from) * Resolution
        v == ((((t.at[k] - from) * t.pixels[k]
                + (p[k] - off[i][k]) * t.size[k]) * Resolution)) \div t.pixels[k]
    IN  Larger(0, Smaller(v, ext - 1))])
=============================================================================
