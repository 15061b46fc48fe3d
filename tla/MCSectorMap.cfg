SPECIFICATION Spec
CONSTANTS
  Entries = 2
  Reserved = 1
  Fats = 2
  FatSectors = 1
  RootSectors = 1
  MaxCluster = 7
  MaxSize = 4
  SectorsPerTrack = 3
  HeadCount = 2
  Room = 5
  Half = 4
  DxHigh = {FALSE, TRUE}
  OldMaps = {0, 2}
INVARIANTS MapDescribes LoadsStage2
CHECK_DEADLOCK FALSE
