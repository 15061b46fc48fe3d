SPECIFICATION FlowSpec
CONSTANTS
  Depth = 16
  Word = 64
  Bytes = {0}
  MaxWant = 2
  FlowControl = TRUE
  Honours = TRUE
  Gap = 1
  MaxLost = 1
INVARIANT NoOverrun
PROPERTY ThrottleReleased
