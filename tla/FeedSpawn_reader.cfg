\* A reader without a cancellable and a producer that runs, fails or is cancelled.
SPECIFICATION SpawnFairSpec
CONSTANTS
  r1 = r1
  r2 = r2
  r3 = r3
  r4 = r4
  w = w
  none = none
  Task <- MCTask
  Scoped <- MCTask
  Producer <- MCProducer
  Thread <- w
  NoTask <- none
  MaxPush = 3
INVARIANTS
  NullMeansComplete
PROPERTIES
  ReaderReachesEnd
CHECK_DEADLOCK FALSE
