SPECIFICATION Spec
CONSTANTS
  a = a
  b = b
  c = c
  d = d
  e = e
  main = main
  child = child
  leaf = leaf
  Main = main
  Root = Root
  NoFile = NoFile
  Node <- MCNode
  Flow <- MCFlow
  Owner <- MCOwner
  Cfgs <- GoodCfgs
  Programs <- MCPrograms
  Fds = {0,1,2,3,4,5,6,7,8,9,10,11,12,13,14,15,16}
  MaxBranches = 4
  Faults = {}
INVARIANTS
  ListsFit
  EachBranchOwnedOnce
  BranchesIndependent
  OutputIsFlowBranches
  FailsExactlyAtLimit
