SPECIFICATION FairSpec
CONSTANTS
  MaxModules = 2
  FirstChunk = 3
  MiB = 4
  MemTop = 24
  Window = 12
  Upper = 15360
  Prealloc = 256
  Texts <- MCTexts
  Behind <- MCBehind
  Chars <- MCChars
  Disk <- MCDisk
  StrLen <- MCStrLen
  MemMaps <- MCMemMaps
  Rsdps <- MCRsdps
INVARIANTS ConfigAsWritten LoadedIntact KernelTold
PROPERTY BootEnds
CHECK_DEADLOCK FALSE
