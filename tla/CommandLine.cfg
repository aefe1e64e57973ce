SPECIFICATION Spec
CONSTANTS
  Char <- MCChar
  Digit <- MCDigit
  MaxOverrides = 2
  KeySize = 4
  WordSize = 64
  IntMax = 7
  Cores = {1, 3}
  Held = {3}
  NoPath = NoPath
  Argvs <- MCArgvs
INVARIANTS
  TypeOK
  RunsAsTold
  RefusedExactly
  ExitAsReported
  NothingKept
