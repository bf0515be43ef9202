------------------------- MODULE MCSyncedCollection -------------------------
EXTENDS SyncedCollection, TLC

CONSTANTS p1, p2, u1, none

MCProc == {p1, p2}
OneProc == {p1}
MCUid == {u1}
NoFault == {}
AllFaults == {"request", "reply", "tag", "crash"}

\* The timers decide when a sync begins, and for safety any moment will do
\* (AutoSync): states that differ in them only are explored once.
NoTimers == <<file, mem, server, ctag, holder, sync, fresh, faults,
              read_only, history>>
Symmetry == Permutations(MCProc)
=============================================================================
