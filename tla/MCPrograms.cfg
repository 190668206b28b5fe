SPECIFICATION Spec
CONSTANTS
  Words = {"a", "cd"}
  Texts <- MCTexts
  MAXARGS = 3
  NPROC = 6
  NPages = 4
  PageLen = 2
  Calls <- MCCalls
  Rounds = 12
  Stride = 3
  Limit = 3
  HeapStart = 2
  HeapEnd = 14
  MinCore = 4
  HeaderLen = 4
  IntUnits = 64
  Requests = {1, 5, 13, 233}
  MaxOps = 7
  ALIGNMENT = 2
  WordLen = 2
  MAX_HEAP = 16
  Index = {0, 1}
  Sizes = {1, 3, 4}
  TraceLen = 4
CHECK_DEADLOCK FALSE
INVARIANTS
  RunsTheLine
  CacheIsMemory
  HeapPartition
  TraceAccepted
PROPERTIES
  PromptReturns
