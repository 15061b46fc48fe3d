SPECIFICATION Spec
CONSTANTS
  BaseLen = 3
  ExtLen = 2
  Medium <- MCMedium
  Root = "root"
  Paths <- MCPaths
  MaxMem = 5
CHECK_DEADLOCK FALSE
INVARIANTS HandlesIntact FindsNamed MissesNone LeavesLittle
