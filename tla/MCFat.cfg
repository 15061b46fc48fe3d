SPECIFICATION Spec
CONSTANTS
  SectorSize = 4
  PerCluster = 1
  FatOffset = 4
  FatSize = 16
  RootOffset = 36
  DataOffset = 44
  DiskSize = 76
  CacheCnt = 3
  Files <- MCFiles
  Reads <- SomeReads
  Images <- Left
CHECK_DEADLOCK FALSE
INVARIANTS ReadIsSlice CacheCoherent FailsOnlyOnError
