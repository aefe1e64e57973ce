SPECIFICATION Spec
CONSTANTS
  a = a
  b = b
  c = c
  d = d
  e = e
  main = main
  child = child
  leaf = leaf
  Main = main
  Root = Root
  NoFile = NoFile
  Node <- MCNode
  Flow <- MCFlow
  Owner <- MCOwner
  Cfgs <- AllCfgs
  Programs <- FaultyPrograms
  Fds = {0,1,2,3,4,5,6}
  MaxBranches = 2
  Faults = {"params", "child", "exec", "flush"}
INVARIANTS
  TypeOK
  StackIsCallChain
  NoForeignClose
  UnwindSparesCallers
  ExitReleasesAll
  FailStop
  EventsFollowCalls
  FinishedIsLast
PROPERTY
  ImplementsSupervision
