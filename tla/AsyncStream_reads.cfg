\* Every interleaving of two producers, a canceller and three reads.
SPECIFICATION FairSpec
CONSTANTS
  r1 = r1
  r2 = r2
  r3 = r3
  p1 = p1
  p2 = p2
  none = none
  Task <- MCTask
  Scoped <- MCScoped
  Producer <- MCProducer
  NoTask <- none
  MaxPush = 1
INVARIANTS
  TypeOK
  ReturnedOnce
  Conservation
  NoLostWakeup
  EndAfterEverything
  HandlersDisconnected
  AllReceived
PROPERTIES
  ReadsReturn
  ImplementsFeed
CHECK_DEADLOCK FALSE
