\* Two processes with one mirror, and another device.
SPECIFICATION Spec
CONSTANTS
  p1 = p1
  p2 = p2
  u1 = u1
  none = none
  Proc <- MCProc
  NoProc <- none
  Uid <- MCUid
  MaxData = 2
  Fault <- NoFault
  MaxFaults = 0
  Strict = FALSE
  ReadOnly = {FALSE}
VIEW NoTimers
SYMMETRY Symmetry
INVARIANTS
  TypeOK
  MirrorIsTrue
PROPERTIES
  OnlyRivalsWin
  DeletionReachesServer
