SPECIFICATION Spec
CONSTANTS
  LineSize = 32
  BufferSize = 2
  Pid <- MCPid
  Dropped = Dropped
  Byte <- MCByte
  Sink = {pipe, file}
  NoFd = NoFd
  Absent = Absent
  Runs <- MCRuns
SYMMETRY Sinks
INVARIANTS
  TypeOK
  CopyIsExact
  StatusReadsBack
  DamageIsLocal
  DeliveredInOrder
PROPERTY
  BranchIsWhole
