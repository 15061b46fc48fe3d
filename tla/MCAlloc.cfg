SPECIFICATION MCSpec
CONSTANTS
  BlockSz = 5
  BlockBytes = 2
  Base = 1
  Size = 22
  MinAlign = 2
  Low = 8
  Top = 100
  Requests <- MCRequests
  Strays = {7}
  MaxLive = 4
  MaxOps = 8
INVARIANTS TypeOK NoOverlap InArena Covered Coalesced LedgerExact SlotsSuffice Placed
PROPERTIES ImplementsHeap
CHECK_DEADLOCK FALSE
