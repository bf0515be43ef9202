\* Two processes, one of which opened the collection twice; it may be forgotten,
\* and the lock file may not open.
SPECIFICATION FairSpec
CONSTANTS
  p1 = p1
  p2 = p2
  c1 = c1
  c2 = c2
  c3 = c3
  l1 = l1
  l2 = l2
  l3 = l3
  i1 = i1
  i2 = i2
  none = none
  Proc <- MCProc
  Client <- MCClient
  Home <- MCHome
  Lock <- MCLock
  Inode <- MCInode
  None <- none
  Forgets = TRUE
  OpenFails = TRUE
INVARIANTS
  TypeOK
  MutualExclusion
  NothingLeaked
PROPERTIES
  SomebodySyncs
