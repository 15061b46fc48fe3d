SPECIFICATION MCSpec
CONSTANTS
  Depth = 4
  Word = 64
  Bytes = {0, 1}
  MaxWant = 3
  FlowControl = FALSE
  Honours = FALSE
  Gap = 0
  MaxLost = 1
INVARIANTS TypeOK Reading
PROPERTY ImplementsQueue
