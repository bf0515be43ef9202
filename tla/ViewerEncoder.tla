--------------------------- MODULE ViewerEncoder ---------------------------
(***************************************************************************)
(* One viewer's updates (RdEncoder, sharing_host/rd_encode.c): the encoder *)
(* keeps a shadow of what the viewer shows and sends the difference, as    *)
(* copies of what has scrolled and as rectangles of tiles that changed.    *)
(*                                                                         *)
(* How the pixels of a rectangle are written, and that they are read back, *)
(* is module ZrleTile; here a rectangle carries its pixels.                *)
(*                                                                         *)
(* A picture is a function from <<x, y>> to colours.                       *)
(***************************************************************************)
EXTENDS Integers, Sequences, FiniteSets, SequencesExt

CONSTANTS
  Frame,    \* the pictures the screen may show
  RectList, \* the lists of [x, y, w, h] an update is asked for
  ViewFormat, \* pixel formats: functions from colours to the viewer's values
  TileSide, \* RD_TILE
  MinRows,  \* RD_SCROLL_MIN_ROWS
  MinVotes, \* RD_SCROLL_MIN_VOTES
  Hash(_)   \* row_hash: equal for equal rows, perhaps for others too

ASSUME EncoderAssumption ==
  TileSide \in Nat \ {0} /\ MinRows \in Nat \ {0} /\ MinVotes \in Nat \ {0}

ASSUME RectAssumption == RectList \subseteq Seq([x : Int, y : Int, w : Int, h : Int])

VARIABLES
  fb,           \* the picture of the last update
  shadow,       \* the encoder's idea of what the viewer shows
  shadow_valid, \* whether all of it is known
  viewFormat,   \* the viewer's pixel format
  copy_rect,    \* whether the viewer understands copies
  shown,        \* what the viewer shows, in its format
  missing,      \* pixels changed, or forgotten, since they were asked for
  skipped,      \* history: the shadow was called valid by an update whose areas
                \* add up to the picture but leave out some of it
  message       \* the rectangles of the last update

viewerVars ==
  <<fb, shadow, shadow_valid, viewFormat, copy_rect, shown, missing, skipped,
    message>>

Unknown == -1
Zero == 0 \* what g_malloc0 leaves

Lower(a, b) == IF a <= b THEN a ELSE b
Upper(a, b) == IF a >= b THEN a ELSE b

WidthOf(p) == Cardinality({c[1] : c \in DOMAIN p})
HeightOf(p) == Cardinality({c[2] : c \in DOMAIN p})

CellsOf(r) == (r.x .. r.x + r.w - 1) \X (r.y .. r.y + r.h - 1)

ASSUME FrameAssumption == \* pictures are rectangles
  \A f \in Frame : /\ WidthOf(f) \in Nat /\ HeightOf(f) \in Nat
                  /\ DOMAIN f = (0 .. WidthOf(f) - 1) \X (0 .. HeightOf(f) - 1)

EncoderTypeOK ==
  /\ fb \in Frame /\ DOMAIN shadow = DOMAIN fb /\ DOMAIN shown = DOMAIN fb
  /\ shadow_valid \in BOOLEAN /\ copy_rect \in BOOLEAN
  /\ viewFormat \in ViewFormat
  /\ missing \subseteq DOMAIN fb /\ skipped \in BOOLEAN
  /\ \A i \in DOMAIN message : CellsOf(message[i]) \in (SUBSET DOMAIN fb) \ {{}}

-----------------------------------------------------------------------------
(* Copies.                                                                 *)

Row(p, r, y) == [x \in r.x .. r.x + r.w - 1 |-> p[<<x, y>>]]

SameRow_Hash(p, f, r, i, k) == \* Wrong: the rows themselves are not compared
  Hash(Row(f, r, r.y + i)) = Hash(Row(p, r, r.y + k))

\* Row i of the strip on the screen is row k of it in the shadow.
SameRow(p, f, r, i, k) ==
  Row(f, r, r.y + i) = Row(p, r, r.y + k)

\* Where a strip has scrolled to: rows start .. start + length - 1 hold what
\* the shadow has dy rows further down.  Empty when nothing is worth it.
scroll_strip(p, f, r) ==
  LET rows == 0 .. r.h - 1
      fresh == [i \in rows |-> Hash(Row(f, r, r.y + i))]
      old == [i \in rows |-> Hash(Row(p, r, r.y + i))]
      shifts == ((1 - r.h) .. r.h - 1) \ {0}
      \* a fresh row votes for the only row of the shadow with its hash
      votes(d) == {i \in rows :
                     /\ i + d \in rows /\ fresh[i] = old[i + d]
                     /\ \A k \in rows \ {i + d} : old[k] # old[i + d]
                     /\ i > 0 => fresh[i] # fresh[i - 1]}
      \* the shift with the most votes, the lowest of equals
      best == {d \in shifts :
                 LET count == Cardinality(votes(d)) IN
                 /\ r.h >= 2 * MinRows /\ count >= MinVotes
                 /\ \A o \in shifts : \/ Cardinality(votes(o)) < count
                                      \/ Cardinality(votes(o)) = count /\ d <= o}
      \* the rows that moved by it: the longest band, the first of equals
      match == {i \in rows : \E d \in best :
                  i + d \in rows /\ SameRow(p, f, r, i, i + d)}
      bands == {s \in [dy : best, start : match, length : 1 .. r.h] :
                  s.start .. s.start + s.length - 1 \subseteq match}
  IN  {s \in bands :
        /\ \A t \in bands : \/ t.length < s.length
                            \/ t.length = s.length /\ s.start <= t.start
        /\ s.length >= MinRows
        /\ \E k \in s.start .. s.start + s.length - 1 : fresh[k] # old[k]}

\* Rows are moved one by one, downwards or upwards so that no source row is
\* lost before it is read.
apply_copy(p, m) ==
  LET cells == CellsOf(m)
  IN  [c \in DOMAIN p |-> IF c \in cells THEN p[<<c[1], c[2] - m.y + m.src>>]
                                         ELSE p[c]]

\* A rectangle with its pixels.
Drawn(p, w, pixels) == [c \in DOMAIN p |-> IF c \in CellsOf(w) THEN pixels[c] ELSE p[c]]

\* What a message makes of a picture: its viewer does it to what it shows, the
\* encoder to the shadow, while it writes the message (store_shadow).
After(p, list, pixels) ==
  LET after[i \in 0 .. Len(list)] ==
        IF i = 0 THEN p
        ELSE IF list[i].kind = "copy" THEN apply_copy(after[i - 1], list[i])
        ELSE Drawn(after[i - 1], list[i], pixels)
  IN  after[Len(list)]

\* Strips of a tile's width.
StripsOf(r) == 1 .. (r.w + TileSide - 1) \div TileSide
Strip(r, k) == [x |-> r.x + (k - 1) * TileSide, y |-> r.y, h |-> r.h,
                w |-> Lower(TileSide, r.w - (k - 1) * TileSide)]

\* The first and last of neighbours that scrolled alike.
Groups(scroll) ==
  {g \in (DOMAIN scroll) \X (DOMAIN scroll) :
     /\ g[1] <= g[2] /\ scroll[g[1]] # {}
     /\ \A k \in g[1] .. g[2] : scroll[k] = scroll[g[1]]
     /\ \A k \in (DOMAIN scroll) \cap {g[1] - 1, g[2] + 1} : scroll[k] # scroll[g[1]]}

flush_copy(r, scroll, g) ==
  LET s == CHOOSE s \in scroll[g[1]] : TRUE
      x == Strip(r, g[1]).x
  IN  [kind |-> "copy", x |-> x, y |-> r.y + s.start, h |-> s.length,
       w |-> Strip(r, g[2]).x + Strip(r, g[2]).w - x, src |-> r.y + s.start + s.dy]

\* Neighbours that scrolled alike are one copy.  The columns of two copies are
\* apart: their order does not matter.
copy_rects(p, f, r) ==
  LET scroll == [k \in StripsOf(r) |-> scroll_strip(p, f, Strip(r, k))]
      list == SetToSeq(Groups(scroll))
  IN  [i \in DOMAIN list |-> flush_copy(r, scroll, list[i])]

-----------------------------------------------------------------------------
(* Writes.                                                                 *)

Write(x, y, w, h) ==
  [kind |-> "write", x |-> x, y |-> y, w |-> w, h |-> h, src |-> y]

\* The tiles of r, by column and row, with a pixel that changed.
tile_changed(p, f, r) ==
  {<<(c[1] - r.x) \div TileSide, (c[2] - r.y) \div TileSide>> :
     c \in {d \in CellsOf(r) : p[d] # f[d]}}

\* Columns c0 .. c1 - 1 are all of the changed tiles side by side in row y.
IsSpan(changed, c0, c1, y) ==
  /\ (c0 .. c1 - 1) \X {y} \subseteq changed
  /\ <<c0 - 1, y>> \notin changed /\ <<c1, y>> \notin changed

\* Spans of the same columns in consecutive rows: first and last column, first
\* and last row (the last ones excluded).
BlocksOf(changed, cols, rows) ==
  {b \in (0 .. cols - 1) \X (1 .. cols) \X (0 .. rows - 1) \X (1 .. rows) :
     /\ b[1] < b[2] /\ b[3] < b[4]
     /\ \A y \in b[3] .. b[4] - 1 : IsSpan(changed, b[1], b[2], y)
     /\ ~IsSpan(changed, b[1], b[2], b[3] - 1) /\ ~IsSpan(changed, b[1], b[2], b[4])}

BlockOf(r, b) ==
  LET x == r.x + b[1] * TileSide
      y == r.y + b[3] * TileSide
  IN  Write(x, y, Lower(r.x + b[2] * TileSide, r.x + r.w) - x,
            Lower(r.y + b[4] * TileSide, r.y + r.h) - y)

\* Each block is a rectangle.  No two write the same pixel: their order does
\* not matter.
changed_spans(p, f, r) ==
  LET cols == (r.w + TileSide - 1) \div TileSide
      rows == (r.h + TileSide - 1) \div TileSide
      list == SetToSeq(BlocksOf(tile_changed(p, f, r), cols, rows))
  IN  [i \in DOMAIN list |-> BlockOf(r, list[i])]

Covered(rects) == UNION {CellsOf(rects[i]) : i \in DOMAIN rects}

\* An asked rectangle as the code clips it: only the right and lower side move.
Clipped(r, f) ==
  LET x == Upper(0, Lower(r.x, WidthOf(f)))
      y == Upper(0, Lower(r.y, HeightOf(f)))
  IN  [x |-> x, y |-> y, w |-> Lower(r.w, WidthOf(f) - x),
       h |-> Lower(r.h, HeightOf(f) - y)]

Asked(rects, f) == [i \in DOMAIN rects |-> Clipped(rects[i], f)]

Area(rects) == FoldLeft(LAMBDA a, r : a + Cardinality(CellsOf(r)), 0, rects)

\* One rectangle that was asked for; one of which the clipping leaves nothing
\* is skipped.
EncodeRect(acc, valid, f, r) ==
  LET copies == IF copy_rect THEN copy_rects(acc.shadow, f, r) ELSE <<>>
      moved == After(acc.shadow, copies, f)
  IN  IF r.w <= 0 \/ r.h <= 0 THEN acc
      ELSE IF valid THEN [shadow |-> moved, copies |-> acc.copies \o copies,
                          work |-> acc.work \o changed_spans(moved, f, r)]
      ELSE [acc EXCEPT !.work = Append(@, Write(r.x, r.y, r.w, r.h))]

\* The copies and the rectangles of an update, and the shadow after its copies.
encoded(p, valid, f, rects) ==
  LET accs[i \in 0 .. Len(rects)] ==
        IF i = 0 THEN [shadow |-> p, copies |-> <<>>, work |-> <<>>]
        ELSE EncodeRect(accs[i - 1], valid, f, rects[i])
  IN  accs[Len(rects)]

-----------------------------------------------------------------------------
(* Updates.                                                                *)

\* The viewer draws what it is sent in its own format.
Apply(v, f, m) == After(v, m, [c \in DOMAIN f |-> viewFormat[f[c]]])

rd_encoder_encode(f, list) ==
  LET same == DOMAIN f = DOMAIN shadow
      before == IF same THEN shown ELSE [c \in DOMAIN f |-> Unknown]
      changed == IF same THEN {c \in DOMAIN f : f[c] # fb[c]} ELSE DOMAIN f
      kept == IF same THEN missing ELSE {}
  IN  \E rects \in {Asked(list, f)}, valid \in {same /\ shadow_valid},
         known \in {IF same THEN shadow ELSE [c \in DOMAIN f |-> Zero]} :
        LET full == Area(rects) >= Cardinality(DOMAIN f)
        IN  /\ \E e \in {encoded(known, valid, f, rects)} :
                 /\ message' = e.copies \o e.work
                 /\ shadow' = After(e.shadow, e.work, f)
            /\ fb' = f
            /\ shown' = Apply(before, f, message')
            /\ shadow_valid' = (valid \/ full)
            /\ skipped' = IF valid THEN skipped ELSE full /\ Covered(rects) # DOMAIN f
            /\ missing' = (kept \cup changed) \ Covered(rects)
            /\ UNCHANGED <<viewFormat, copy_rect>>

Forget ==
  /\ shadow_valid' = FALSE
  /\ shown' = [c \in DOMAIN shown |-> Unknown]
  /\ missing' = DOMAIN fb /\ skipped' = FALSE
  /\ message' = <<>>
  /\ UNCHANGED <<fb, shadow>>

rd_encoder_set_format_Kept(f) == \* Wrong: the shadow stays valid
  /\ viewFormat' = f /\ missing' = DOMAIN fb /\ message' = <<>>
  /\ shown' = [c \in DOMAIN shown |-> Unknown]
  /\ UNCHANGED <<fb, shadow, shadow_valid, copy_rect, skipped>>

rd_encoder_set_format(f) ==
  /\ viewFormat' = f /\ Forget /\ UNCHANGED copy_rect

rd_encoder_set_encodings(copy) ==
  /\ copy_rect' = copy /\ message' = <<>>
  /\ UNCHANGED <<fb, shadow, shadow_valid, viewFormat, shown, missing, skipped>>

\* The viewer asks for everything again.
rd_encoder_invalidate == Forget /\ UNCHANGED <<viewFormat, copy_rect>>

ViewerInit ==
  /\ fb \in Frame
  /\ shadow = [c \in DOMAIN fb |-> Zero] /\ shadow_valid = FALSE
  /\ viewFormat \in ViewFormat /\ copy_rect = FALSE
  /\ shown = [c \in DOMAIN fb |-> Unknown] /\ missing = DOMAIN fb
  /\ skipped = FALSE /\ message = <<>>

ViewerNext ==
  \/ \E f \in Frame, list \in RectList : rd_encoder_encode(f, list)
  \/ \E f \in ViewFormat : rd_encoder_set_format(f)
  \/ \E copy \in BOOLEAN : rd_encoder_set_encodings(copy)
  \/ rd_encoder_invalidate

ViewerSpec == ViewerInit /\ [][ViewerNext]_viewerVars

-----------------------------------------------------------------------------
\* The viewer was never told of the pixel it shows there, or was told by a copy of
\* such a one, and this because of an update whose areas add up to the picture
\* without covering it.
Untold(show, c) == skipped /\ show[c] = Unknown

\* A pixel that was asked for since it last changed is what the viewer shows,
\* in the format it set last: whatever mixture of copies, spans, partial and
\* full updates, formats and sizes came before (rd_encoder_encode).  A pixel left
\* out of an update that made the shadow valid may never be told; none is wrong.
ViewerCurrent ==
  \A c \in DOMAIN fb \ missing : shown[c] = viewFormat[fb[c]] \/ Untold(shown, c)

\* A copy is final: applied where it stands in the message, it leaves the
\* framebuffer's pixels on the viewer, though rows collide under row_hash,
\* source and target overlap, and earlier copies moved what it reads
\* (scroll_strip, apply_copy).
CopyIsFinal ==
  \A i \in DOMAIN message' : message'[i].kind = "copy" =>
    LET after == Apply(shown, fb', SubSeq(message', 1, i))
    IN  \A c \in CellsOf(message'[i]) : after[c] = viewFormat[fb'[c]] \/ Untold(after, c)

\* A screen that did not change costs nothing: once everything was asked for
\* since it changed, an update sends no rectangle (sharing_host_test.c:278).
QuietIsFree ==
  shadow_valid /\ shadow_valid' /\ fb' = fb /\ missing = {} => message' = <<>>

\* Nothing is sent twice: neither what a copy has moved into place nor what has
\* not changed.
NothingTwice == [][CopyIsFinal /\ QuietIsFree]_viewerVars
=============================================================================
