\* A deletion made while an edit of the item is uploaded.
SPECIFICATION Spec
CONSTANTS
  p1 = p1
  p2 = p2
  u1 = u1
  none = none
  Proc <- OneProc
  NoProc <- none
  Uid <- MCUid
  MaxData = 2
  Fault <- NoFault
  MaxFaults = 0
  Strict = TRUE
  ReadOnly = {FALSE}
PROPERTIES
  SyncKeepsDeletions
