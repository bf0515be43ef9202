---------------------------- MODULE MCAsyncStream ----------------------------
(***************************************************************************)
(* Three reads, two of them cancellable, and two producers.                *)
(***************************************************************************)
EXTENDS AsyncStream

CONSTANTS r1, r2, r3, p1, p2, none

MCTask == {r1, r2, r3}
MCScoped == {r1, r2}
MCProducer == {p1, p2}
=============================================================================
