---------------------------- MODULE MCFeedSpawn ----------------------------
(***************************************************************************)
(* One spawned producer; enough reads for every item to be a batch of its  *)
(* own, and one more for the end.                                          *)
(***************************************************************************)
EXTENDS FeedSpawn

CONSTANTS r1, r2, r3, r4, w, none

MCTask == {r1, r2, r3, r4}
MCProducer == {w}
=============================================================================
