SPECIFICATION Spec
CONSTANTS
  Char <- MCChar
  Upper <- MCUpper
  FlowTag = "f"
  NodeTag = "n"
  MaxName = 3
  MaxSuffix = 2
  MaxOverrides = 2
  File = {"main", "child"}
  Main = "main"
  NoFile = NoFile
  Nothing = Nothing
  Cli <- MCCli
  Programs <- MCPrograms
  Inherited <- MCInherited
INVARIANTS
  TypeOK
  BufferFits
  LimitIsExact
  ResolvesAsMeant
  EnvironmentIsOwn
