SPECIFICATION FairSpec
CONSTANTS
  Depth = 4
  Word = 64
  MaxWrite <- MCMaxWrite
  Gap = 1
INVARIANT NoOverwrite
PROPERTIES  WriteReturns
