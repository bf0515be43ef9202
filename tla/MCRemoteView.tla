---------------------------- MODULE MCRemoteView ----------------------------
(***************************************************************************)
(* The guest's picture: each part starts in a state of its own and runs    *)
(* while the others keep still, so that one run explores the disjoint sum  *)
(* of the four state spaces.                                               *)
(***************************************************************************)
EXTENDS ZrleTile, ViewerEncoder, ScreenArrange, MCScreenCapture

VARIABLE part    \* the part that runs

-----------------------------------------------------------------------------
(* ZrleTile: pictures and formats.                                         *)
Shade(k) == [r |-> k % 256, g |-> (5 * k) % 256, b |-> (256 - k) % 256]
PictureOf(w, h, color(_)) ==
  [w |-> w, h |-> h, px |-> [i \in 1 .. w * h |-> Shade(color(i))]]

\* One run of a pixels, around those that need one more byte, then runs of b
\* pixels in n colours.
RunPictures ==
  {PictureOf(17, 17, LAMBDA i : IF i <= a THEN 0 ELSE 1 + (((i - a) \div b) % n)) :
     a \in {100, 254, 255, 256, 257}, b \in {1, 300}, n \in {1, 3, 200}}
\* n colours in turn, d pixels of each, in one tile or several: palettes up to
\* and past those that are packed (16) and those that fit beside the flag (127).
CyclePictures ==
  {PictureOf(size[1], size[2], LAMBDA i : (i \div d) % n) :
     size \in {<<1, 1>>, <<5, 3>>, <<17, 12>>, <<18, 3>>, <<3, 18>>},
     n \in {1, 2, 3, 4, 5, 15, 16, 17, 18, 127, 128, 256}, d \in {1, 2}}

MCPicture == RunPictures \cup CyclePictures

Maxima(r, g, b) == [r |-> r, g |-> g, b |-> b]
Fmt(bytes, depth, big, max, shift) ==
  [bytes |-> bytes, depth |-> depth, big |-> big, max |-> max, shift |-> shift]
MCFormat ==
  {Fmt(4, 24, FALSE, Maxima(255, 255, 255), Maxima(16, 8, 0)),
   Fmt(4, 23, TRUE, Maxima(127, 255, 255), Maxima(24, 16, 8)),
   Fmt(4, 24, TRUE, Maxima(255, 255, 255), Maxima(0, 8, 16)),
   Fmt(4, 30, FALSE, Maxima(1023, 1023, 1023), Maxima(20, 10, 0)),
   Fmt(2, 16, FALSE, Maxima(31, 63, 31), Maxima(11, 5, 0)),
   Fmt(1, 8, FALSE, Maxima(7, 7, 3), Maxima(0, 3, 6))}

-----------------------------------------------------------------------------
(* ViewerEncoder: frames, requests, formats and the row hash.              *)
\* Rows of three pixels: two strips.  Rows 1 and 2 collide under the hash.
RowOf(k) == CASE k = 0 -> <<0, 0, 0>> [] k = 1 -> <<1, 2, 1>>
              [] k = 2 -> <<2, 1, 1>> [] k = 3 -> <<3, 3, 2>>
              [] k = 4 -> <<0, 3, 1>> [] k = 5 -> <<3, 0, 2>>
RowsPicture(rows) ==
  [c \in (0 .. 2) \X (0 .. Len(rows) - 1) |-> RowOf(rows[c[2] + 1])[c[1] + 1]]
Mixed(a, b) == [c \in DOMAIN a |-> IF c[1] = 2 THEN b[c] ELSE a[c]]

Page == RowsPicture(<<0, 1, 3, 4, 5>>)
Up == RowsPicture(<<1, 3, 4, 5, 2>>)
Down == RowsPicture(<<0, 0, 1, 3, 4>>)
Twice == RowsPicture(<<3, 4, 5, 2, 0>>)
Header == RowsPicture(<<0, 3, 4, 5, 1>>)
Fake == RowsPicture(<<2, 3, 4, 5, 0>>)
MCFrame == {Page, Up, Down, Header, Fake, Mixed(Up, Page),
            RowsPicture(<<1, 1, 0>>)}

R(x, y, w, h) == [x |-> x, y |-> y, w |-> w, h |-> h]
MCRectList ==
  {<<R(0, 0, 3, 5)>>, <<R(0, 0, 4, 4), R(0, 1, 3, 9)>>,
   <<R(0, 0, 2, 5), R(2, 0, 1, 5)>>,
   <<R(-1, 0, 3, 3), R(7, 0, 1, 1), R(0, 0, 3, 2)>>}

MCFormatMaps == {[k \in 0 .. 3 |-> k], [k \in 0 .. 3 |-> 10 + (k \div 2)]}
MCHash(row) == IF DOMAIN row = 2 .. 2 THEN row[2] % 2
               ELSE IF DOMAIN row = 0 .. 1 THEN row[0] + row[1] ELSE 7

-----------------------------------------------------------------------------
(* ScreenArrange: positions, scales, turns and logical geometries.         *)
Geo(x, y, w, h, scale, turn, logical) ==
  [at |-> <<x, y>>, mode |-> <<w, h>>, scale |-> scale, transform |-> turn,
   logical |-> logical]
MCGeometry ==
  {Geo(x, y, 2, 2, scale, 0, <<>>) : x \in {0, 1, 2}, y \in {0, 1}, scale \in {1, 2}}
  \cup {Geo(x, 0, 1, 2, 1, turn, <<>>) : x \in {0, 2, 3}, turn \in {0, 1}}
  \cup {Geo(0, 0, 3, 3, 1, 0, [at |-> <<x, y>>, size |-> <<2, 2>>]) :
          x \in {-2, 1}, y \in {0, 1}}

-----------------------------------------------------------------------------
Rest(p, vars) == part # p => UNCHANGED vars

TileStill ==
  /\ picture = [w |-> 1, h |-> 1, px |-> <<Shade(0)>>]
  /\ format = Fmt(1, 8, FALSE, Maxima(7, 7, 3), Maxima(0, 3, 6))
  /\ cpixel = update_cpixel(format) /\ form = "none" /\ written = <<>>
EncoderStill == fb = Page /\ viewFormat = [k \in 0 .. 3 |-> k] /\ ViewerInit
ArrangeStill ==
  tiles = <<TileOf(Geo(0, 0, 2, 2, 1, 0, <<>>), <<0, 0>>)>> /\ offset = <<>>
CaptureStill == outs = (CHOOSE o \in FirstOuts : TRUE) /\ ScreenInit

ViewInit ==
  \/ part = "tile" /\ TileInit /\ EncoderStill /\ ArrangeStill /\ CaptureStill
  \/ part = "encoder" /\ TileStill /\ ViewerInit /\ ArrangeStill /\ CaptureStill
  \/ part = "arrange" /\ TileStill /\ EncoderStill /\ ArrangeInit /\ CaptureStill
  \/ part = "capture" /\ TileStill /\ EncoderStill /\ ArrangeStill /\ ScreenInit

ViewNext ==
  /\ \/ part = "tile" /\ TileNext
     \/ part = "encoder" /\ ViewerNext
     \/ part = "arrange" /\ ArrangeNext
     \/ part = "capture" /\ ScreenNext
  /\ Rest("tile", tileVars)
  /\ Rest("encoder", viewerVars)
  /\ Rest("arrange", arrangeVars)
  /\ Rest("capture", screenVars)
  /\ UNCHANGED part

viewVars == <<part, tileVars, viewerVars, arrangeVars, screenVars>>

ViewSpec ==
  /\ ViewInit /\ [][ViewNext]_viewVars
  /\ WF_events(part = "capture" /\ Take)
  /\ WF_screenVars(part = "capture" /\ Answer)

-----------------------------------------------------------------------------
\* The variables keep their types, and what the code keeps beside each other
\* agrees: buffers with their sizes, frames with their sessions.
ViewTypeOK == TileTypeOK /\ EncoderTypeOK /\ ScreenTypeOK
=============================================================================
