SPECIFICATION FairSpec
CONSTANTS
  x = x
  y = y
  z = z
  Ref <- MCRef
  Models <- MCModels
INVARIANTS
  TypeOK
  VerdictIsRight
  AcceptedIsRunnable
  WalkIsPath
PROPERTY
  Termination
