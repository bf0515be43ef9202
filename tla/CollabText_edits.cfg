\* A host and two guests: what is typed before, during and after sharing.
SPECIFICATION Spec
CONSTANTS
  Site <- ThreeSites
  Host = 1
  Initial = 0
  MaxEdit = 3
  MaxRun = 2
  MaxEarly = 1
  Ahead <- Still
  Drift <- Still
INVARIANTS
  TypeOK
  Converges
  CharactersAgree
CHECK_DEADLOCK FALSE
