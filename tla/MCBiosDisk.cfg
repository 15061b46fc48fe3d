SPECIFICATION FairSpec
CONSTANTS
  Devices = {4, 12}
  TickMod = 6
  SectorsPerTrack = 2
  NHeads = 2
  Reads <- MCReads
  Delays = {2}
INVARIANTS RightVector CallTransparent NeverEarly ReadOutcome
PROPERTY OpReturns
