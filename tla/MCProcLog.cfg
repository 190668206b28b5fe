SPECIFICATION PartSpec
CONSTANTS
  NPROC = 3
  CPU = {c1, c2}
  None = None
  KillArgs = {0, 3}
  MaxPid = 4
  Proc = {p1, p2}
  Block = {a, b}
  Val = {v1, v2}
  NoBlock = NoBlock
  NotCached = NotCached
  MAXOPBLOCKS = 2
  LOGSIZE = 4
  nlog = 4
SYMMETRY Symmetry
INVARIANTS StackExclusive ChildrenAreWaitedFor MarkedForCause QuietIsDurable SpaceReserved
PROPERTIES ImplementsAtomicDisk WriteAhead
CHECK_DEADLOCK FALSE
