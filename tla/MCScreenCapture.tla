-------------------------- MODULE MCScreenCapture --------------------------
EXTENDS ScreenCapture, SequencesExt
ScreenGeo(x, w) ==
  [at |-> <<x, 0>>, mode |-> <<w, 1>>, scale |-> 1, transform |-> 0, logical |-> <<>>]
MCScreenGeometry == {ScreenGeo(x, 1) : x \in 0 .. 2}
\* One output, or all of them side by side.
MCFirstOuts ==
  LET list == SetToSeq(Output)
      Position(o) == (CHOOSE i \in DOMAIN list : list[i] = o) - 1
  IN  {[o \in Output |-> IF Position(o) < n THEN ScreenGeo(Position(o), 1) ELSE Gone] :
         n \in {1, Len(list)}}
MCFirstOffer == [size |-> <<1, 1>>, formats |-> {"XRGB"}]
MCFirstARGB == [size |-> <<1, 1>>, formats |-> {"ARGB"}]
MCBufferSize == {<<1, 1>>, <<2, 1>>}
MCShmFormats == {{"XRGB"}}
MCBothFormats == {{"ARGB"}, {"XRGB"}}
=============================================================================
