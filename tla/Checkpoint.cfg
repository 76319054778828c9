SPECIFICATION Spec
CONSTANTS
  Ranks = 2
  Block = 18
  Buffer = 6
  ReadBuf = 18
  Wrap = 1000
  Garbles <- MCGarbles
  Programs <- MCPrograms
  MaxIndexVal = 2
  Page = 3
  Loaders = 2
INVARIANT Recovered
INVARIANT LookupRight
INVARIANT CleanClose
CHECK_DEADLOCK FALSE
