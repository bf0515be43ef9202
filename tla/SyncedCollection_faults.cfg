\* One process, of a collection that may be read-only; two failures of the network
\* or crashes at any point of a sync.
SPECIFICATION FairSpec
CONSTANTS
  p1 = p1
  p2 = p2
  u1 = u1
  none = none
  Proc <- OneProc
  NoProc <- none
  Uid <- MCUid
  MaxData = 2
  Fault <- AllFaults
  MaxFaults = 2
  Strict = FALSE
  ReadOnly = {FALSE, TRUE}
INVARIANTS
  MirrorIsTrue
PROPERTIES
  HeardSyncKeepsEdits
  DeletionReachesServer
  SyncsConverge
