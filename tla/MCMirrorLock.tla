---------------------------- MODULE MCMirrorLock ----------------------------
EXTENDS MirrorLock, TLC

CONSTANTS p1, p2, c1, c2, c3, l1, l2, l3, i1, i2, none

\* p1 has opened the collection twice.
MCProc == {p1, p2}
MCClient == {c1, c2, c3}
MCHome == c1 :> p1 @@ c2 :> p1 @@ c3 :> p2
MCLock == {l1, l2, l3}
MCInode == {i1, i2}
=============================================================================
