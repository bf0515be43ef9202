--------------------------- MODULE ScreenArrange ---------------------------
(***************************************************************************)
(* Every arrangement of a few outputs, laid out once on a canvas by        *)
(* module ScreenLayout.                                                    *)
(***************************************************************************)
EXTENDS ScreenLayout, FiniteSets

CONSTANTS
  Geometry,   \* the geometries an output may have
  MaxOutputs  \* outputs side by side

ASSUME ArrangeAssumption ==
  MaxOutputs \in Nat \ {0} /\ \A g \in Geometry : GeometryOK(g)

VARIABLES
  tiles,  \* the tiles of the outputs, in the order of s->captures
  offset  \* where they are on the canvas, <<>> before they are laid out

arrangeVars == <<tiles, offset>>

Inside(p, at, size) == \A k \in Axis : at[k] <= p[k] /\ p[k] < at[k] + size[k]

Apart(at, size, at2, size2) ==
  \E k \in Axis : at[k] + size[k] <= at2[k] \/ at2[k] + size2[k] <= at[k]

\* Outputs that a compositor shows side by side do not overlap.
Arrangement ==
  {a \in UNION {[1 .. n -> Geometry] : n \in 1 .. MaxOutputs} :
     \A i, j \in DOMAIN a : i < j =>
       Apart(output_logical(a[i]).at, output_logical(a[i]).size,
             output_logical(a[j]).at, output_logical(a[j]).size)}

ArrangeInit ==
  /\ \E a \in Arrangement : tiles = [i \in DOMAIN a |-> TileOf(a[i], <<0, 0>>)]
  /\ offset = <<>>

Layout ==
  /\ offset = <<>> /\ offset' = Offsets(tiles)
  /\ UNCHANGED tiles

ArrangeNext == Layout

ArrangeSpec == ArrangeInit /\ [][ArrangeNext]_arrangeVars

\* Outputs that do not overlap get pixels of the canvas of their own, and all
\* of them, at whatever scale, rotation and order (screen_layout).
TilesApart ==
  offset # <<>> =>
    \A i, j \in DOMAIN tiles : i < j =>
      Apart(offset[i], tiles[i].pixels, offset[j], tiles[j].pixels)

\* A viewer who points at a pixel of an output points there, and at no other
\* output, after the way to the compositor and back (pointer_layout).
PointerFollows ==
  offset # <<>> =>
    \A x \in 0 .. Extent(tiles, offset)[1] - 1,
       y \in 0 .. Extent(tiles, offset)[2] - 1 :
      LET i == Under(tiles, offset, <<x, y>>)
          sent == rd_screen_pointer_motion(tiles, offset, i, <<x, y>>)
      IN  i # 0 =>
            Inside(sent, Pair([k \in Axis |->
                     Resolution * (tiles[i].at[k] - BoxFrom(tiles, k))]),
                   Pair([k \in Axis |-> Resolution * tiles[i].size[k]]))

\* The canvas shows every output once, and points back to it.
CanvasHolds == TilesApart /\ PointerFollows
=============================================================================
