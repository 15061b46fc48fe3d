SPECIFICATION MCSpec
CONSTANTS
  N = 4
  Start <- MCStart
  Numbers = 3
  Caps = {10, 11, 17}
  DrainMax = 2
  MaxQueue = 3
  MaxFaults = 3
  Kinds = {"no", "data"}
INVARIANT ReadInPlace
