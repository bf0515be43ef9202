------------------------------ MODULE ZrleTile ------------------------------
(***************************************************************************)
(* How a rectangle of pixels is written for a viewer                       *)
(* (sharing_host/rd_encode.c): the pixel format the viewer asked for, the  *)
(* compressed pixel, and the ZRLE tile with the cheapest of its forms.     *)
(* What is written is read back with the decoder of                        *)
(* tests/sharing_host_test.c, in any format.                               *)
(* Bytes and limits are the code's own; zlib is left out.                  *)
(***************************************************************************)
EXTENDS Integers, Sequences, SequencesExt

CONSTANTS
  Tile,    \* RD_TILE: side of a tile
  Picture, \* rectangles to write: [w, h, px], px row by row
  Format   \* pixel formats: [bytes, depth, big, max, shift]

ASSUME ZrleAssumption == Tile \in Nat \ {0}

VARIABLES
  picture, \* the rectangle at hand
  format,  \* the viewer's format
  cpixel,  \* its compressed pixel: bytes sent, bits left out below them
  form,    \* "none", "zrle" or "raw": how it was written
  written  \* the bytes written for it

tileVars == <<picture, format, cpixel, form, written>>

Bits == 8       \* of a byte
Byte == 2 ^ Bits
Full == 255     \* of a run length: another byte follows
Flag == 128     \* of a tile, or an index: runs follow
MaxPacked == 16 \* colours at most, where indices are packed
Channel == {"r", "g", "b"}

TileTypeOK ==
  /\ form \in {"none", "zrle", "raw"}
  /\ written \in Seq(0 .. Full)

-----------------------------------------------------------------------------
(* Pixels.                                                                 *)

SumOf(f) == f["r"] + f["g"] + f["b"]

scale_channel(v, max) ==
  IF max = Full THEN v ELSE ((v * max) + (Full \div 2)) \div Full

\* The channels occupy bits of their own, so that "or" is a sum.
pixel_value(f, p) ==
  SumOf([c \in Channel |-> scale_channel(p[c], f.max[c]) * 2 ^ f.shift[c]])

BytesOf(v, n, big) ==
  [i \in 1 .. n |-> (v \div Byte ^ (IF big THEN n - i ELSE i - 1)) % Byte]

rd_convert_pixels(f, px) ==
  FlattenSeq([i \in DOMAIN px |->
                BytesOf(pixel_value(f, px[i]), f.bytes, f.big)])

\* A pixel of four bytes whose colour fits in three is sent as three.
update_cpixel(f) ==
  LET mask == SumOf([c \in Channel |-> f.max[c] * 2 ^ f.shift[c]])
      narrow == f.bytes = 4 /\ f.depth <= 3 * Bits
  IN  IF narrow /\ mask < Byte ^ 3 THEN [size |-> 3, shift |-> 0]
      ELSE IF narrow /\ mask % Byte = 0 THEN [size |-> 3, shift |-> Bits]
      ELSE [size |-> f.bytes, shift |-> 0]

put_cpixel(v) == BytesOf(v \div 2 ^ cpixel.shift, cpixel.size, format.big)

-----------------------------------------------------------------------------
(* A tile: t is its pixel values row by row, w its width.                  *)

run_bytes_Whole(run) == run \div Full \* Wrong: the last byte is not counted

run_bytes(run) == ((run - 1) \div Full) + 1

put_run(run) ==
  Append([i \in 1 .. (run - 1) \div Full |-> Full], (run - 1) % Full)

\* Those of the places of t that are in `chosen`, in order.
InOrder(t, chosen) ==
  SelectSeq([i \in DOMAIN t |-> i], LAMBDA i : i \in chosen)

\* Colours in the order they appear.
PaletteOf(t) ==
  LET first == InOrder(t, {i \in DOMAIN t : \A j \in 1 .. i - 1 : t[j] # t[i]})
  IN  [k \in DOMAIN first |-> t[first[k]]]

Index(pal, v) == (CHOOSE i \in DOMAIN pal : pal[i] = v) - 1

\* Maximal runs of one colour: <<value, length>>.
Runs(t) ==
  LET start == Append(InOrder(t, {i \in DOMAIN t : i = 1 \/ t[i] # t[i - 1]}),
                      Len(t) + 1)
  IN  [k \in 1 .. Len(start) - 1 |-> <<t[start[k]], start[k + 1] - start[k]>>]

Total(s) ==
  LET sum[i \in 0 .. Len(s)] == IF i = 0 THEN 0 ELSE sum[i - 1] + s[i]
  IN  sum[Len(s)]

IndexBits(colors) == IF colors = 2 THEN 1 ELSE IF colors <= 4 THEN 2 ELSE 4

RowBytes(w, colors) == (w * IndexBits(colors) + Bits - 1) \div Bits

\* The sub-encoding zrle_tile picks: 0 raw, Flag plain runs, Flag + n runs
\* of a palette of n colours, n packed indices.  A later form has to be
\* smaller to be taken.
zrle_mode(t, w, cp) ==
  LET rs == Runs(t)
      colors == Len(PaletteOf(t))
      many == colors > Flag - 1
      size == [mode \in {0, 1, 2, 3} |->
        CASE mode = 0 -> Len(t) * cp
          [] mode = 1 -> Total([i \in DOMAIN rs |-> cp + run_bytes(rs[i][2])])
          [] mode = 2 -> colors * cp
               + Total([i \in DOMAIN rs |->
                    IF rs[i][2] = 1 THEN 1 ELSE 1 + run_bytes(rs[i][2])])
          [] mode = 3 -> colors * cp
                           + (Len(t) \div w) * RowBytes(w, colors)]
      allowed == {0, 1} \cup (IF many THEN {} ELSE {2})
                        \cup (IF many \/ colors > MaxPacked THEN {} ELSE {3})
  IN  <<0, Flag, Flag + colors, colors>>[1 + CHOOSE m \in allowed :
        \A n \in allowed : size[m] < size[n] \/ (size[m] = size[n] /\ m <= n)]

\* A row of packed indices, the first one in the highest bits of its byte.
pack_row(row, bits) ==
  [k \in 1 .. (Len(row) * bits + Bits - 1) \div Bits |->
     Total([i \in DOMAIN row |->
              IF ((i - 1) * bits) \div Bits = k - 1
                THEN row[i] * 2 ^ (Bits - bits - (((i - 1) * bits) % Bits))
                ELSE 0])]

zrle_tile(t, w) ==
  LET pal == PaletteOf(t)
      rs == Runs(t)
      palette == FlattenSeq([i \in DOMAIN pal |-> put_cpixel(pal[i])])
      Row(r) == [i \in 1 .. w |-> Index(pal, t[(r - 1) * w + i])]
      mode == zrle_mode(t, w, cpixel.size)
  IN  IF Len(pal) = 1 THEN <<1>> \o palette
      ELSE <<mode>> \o
        CASE mode = 0 -> FlattenSeq([i \in DOMAIN t |-> put_cpixel(t[i])])
          [] mode = Flag ->
               FlattenSeq([i \in DOMAIN rs |->
                 put_cpixel(rs[i][1]) \o put_run(rs[i][2])])
          [] mode > Flag ->
               palette \o FlattenSeq([i \in DOMAIN rs |->
                 IF rs[i][2] = 1 THEN <<Index(pal, rs[i][1])>>
                 ELSE <<Index(pal, rs[i][1]) + Flag>> \o put_run(rs[i][2])])
          [] OTHER ->
               palette \o FlattenSeq([r \in 1 .. Len(t) \div w |->
                 pack_row(Row(r), IndexBits(Len(pal)))])

-----------------------------------------------------------------------------
(* A rectangle: tiles from left to right, row of tiles by row of tiles.    *)

Lesser(a, b) == IF a <= b THEN a ELSE b
Count(n) == (n + Tile - 1) \div Tile

\* The tiles of a w x h rectangle: the pixels of each, in order.
Tiles(w, h) ==
  [k \in 1 .. Count(w) * Count(h) |->
     LET tx == Tile * ((k - 1) % Count(w))
         ty == Tile * ((k - 1) \div Count(w))
         tw == Lesser(Tile, w - tx)
         th == Lesser(Tile, h - ty)
     IN  [w |-> tw,
          at |-> [i \in 1 .. tw * th |->
                    (ty + ((i - 1) \div tw)) * w + tx + ((i - 1) % tw) + 1]]]

\* The rectangle p, its pixels being values in the viewer's format.
encode_zrle(p, values) ==
  FoldLeft(LAMBDA bytes, tile :
             bytes \o zrle_tile([i \in DOMAIN tile.at |-> values[tile.at[i]]],
                                tile.w),
           <<>>, Tiles(p.w, p.h))

TileInit ==
  /\ picture \in Picture /\ format \in Format /\ cpixel = update_cpixel(format)
  /\ form = "none" /\ written = <<>>

\* A rectangle is written once, in the encoding the viewer prefers.
WriteRect ==
  /\ form = "none"
  /\ \/ /\ form' = "zrle"
        /\ \E values \in
             {[i \in DOMAIN picture.px |-> pixel_value(format, picture.px[i])]} :
               written' = encode_zrle(picture, values)
     \/ form' = "raw" /\ written' = rd_convert_pixels(format, picture.px)
  /\ UNCHANGED <<picture, format, cpixel>>

TileNext == WriteRect

TileSpec == TileInit /\ [][TileNext]_tileVars

-----------------------------------------------------------------------------
(* The viewer's side: decode_zrle_tiles and put_px of the test.            *)

ValueAt(s, p, n, big) ==
  Total([i \in 1 .. n |->
           s[p + i - 1] * Byte ^ (IF big THEN n - i ELSE i - 1)])

RECURSIVE ReadRun(_, _), ReadRuns(_, _, _, _, _)

\* A run length at p: the bytes up to the first that is not Full.
ReadRun(s, p) ==
  IF s[p] = Full THEN LET r == ReadRun(s, p + 1)
                      IN  [run |-> Full + r.run, next |-> r.next]
  ELSE [run |-> s[p] + 1, next |-> p + 1]

\* n pixels in runs from p on, pal being the palette or <<>>.
ReadRuns(f, s, p, n, pal) ==
  LET c == cpixel
      byte == s[p]
      color == IF pal = <<>>
                 THEN ValueAt(s, p, c.size, f.big) * 2 ^ c.shift
                 ELSE pal[(byte % Flag) + 1]
      r == IF pal = <<>> THEN ReadRun(s, p + c.size)
           ELSE IF byte >= Flag THEN ReadRun(s, p + 1)
           ELSE [run |-> 1, next |-> p + 1]
  IN  IF n = 0 THEN [px |-> <<>>, next |-> p]
      ELSE LET rest == ReadRuns(f, s, r.next, n - r.run, pal)
           IN  [px |-> [i \in 1 .. r.run |-> color] \o rest.px,
                next |-> rest.next]

\* One tile of n pixels, w wide, at p.
ReadTile(f, s, p, n, w) ==
  LET c == cpixel
      sub == s[p]
      palsize == sub % Flag
      Pixel(at) == ValueAt(s, at, c.size, f.big) * 2 ^ c.shift
      pal == [i \in 1 .. palsize |-> Pixel(p + 1 + (i - 1) * c.size)]
      after == p + 1 + palsize * c.size
      bits == IndexBits(palsize)
      row == RowBytes(w, palsize)
  IN  CASE sub = 0 ->
             [px |-> [i \in 1 .. n |-> Pixel(after + (i - 1) * c.size)],
              next |-> after + n * c.size]
        [] sub = 1 -> [px |-> [i \in 1 .. n |-> pal[1]], next |-> after]
        [] sub \in 2 .. Flag - 1 ->
             [px |-> [i \in 1 .. n |->
                LET bit == ((i - 1) % w) * bits
                    b == s[after + (((i - 1) \div w) * row) + (bit \div Bits)]
                IN  pal[((b \div 2 ^ (Bits - bits - (bit % Bits))) % 2 ^ bits)
                          + 1]],
              next |-> after + row * (n \div w)]
        [] sub >= Flag -> ReadRuns(f, s, after, n, pal)

\* The pixels a viewer puts on its screen, each from its tile, and whether all
\* bytes were used.
Read(f, s, p) ==
  LET Side(at, whole) == Lesser(Tile, whole - Tile * (at \div Tile))
      tiles == FoldLeft(LAMBDA acc, k :
        LET w == Side(Tile * ((k - 1) % Count(p.w)), p.w)
            h == Side(Tile * ((k - 1) \div Count(p.w)), p.h)
            t == ReadTile(f, s, acc.next, w * h, w)
        IN  [next |-> t.next, px |-> Append(acc.px, t.px)],
        [next |-> 1, px |-> <<>>], [k \in 1 .. Count(p.w) * Count(p.h) |-> k])
  IN  [whole |-> tiles.next = Len(s) + 1,
       px |-> [i \in 1 .. p.w * p.h |->
         LET x == (i - 1) % p.w
             y == (i - 1) \div p.w
         IN  tiles.px[(y \div Tile) * Count(p.w) + (x \div Tile) + 1]
                     [(y % Tile) * Side(x, p.w) + (x % Tile) + 1]]]

\* A rectangle, written in any format as ZRLE or raw, is read back pixel by
\* pixel as the framebuffer's colours in the viewer's format, to the last
\* byte: palette order, run bytes, packed rows and the compressed pixel of
\* writer and reader agree (zrle_tile, put_cpixel, put_run).
ReadBack ==
  LET wanted == [i \in DOMAIN picture.px |-> pixel_value(format, picture.px[i])]
  IN  /\ form = "zrle" =>
           Read(format, written, picture) = [px |-> wanted, whole |-> TRUE]
      /\ form = "raw" =>
           wanted = [i \in DOMAIN wanted |->
             ValueAt(written, (i - 1) * format.bytes + 1, format.bytes,
                     format.big)]

\* The sizes zrle_tile computes to choose a form are the sizes of what it
\* then writes: a tile never costs more than one byte above its raw pixels.
NeverAboveRaw ==
  form = "zrle" =>
    Len(written) <= Len(Tiles(picture.w, picture.h))
                      + Len(picture.px) * cpixel.size

\* A rectangle is read back as it was, and costs no more than it should.
TilesHold == ReadBack /\ NeverAboveRaw
=============================================================================
