SPECIFICATION LiveSpec
CONSTANTS
  Proc = {1, 2, 3}
  Block = {a}
  Val = {v1}
  NoBlock = NoBlock
  NotCached = NotCached
  MAXOPBLOCKS = 1
  LOGSIZE = 2
  nlog = 3
  NPROC = 3
  CPU = {c1}
  None = None
  KillArgs = {2}
  MaxPid = 3
PROPERTIES NobodyWaitsForever OrphanReaped KilledExits
CHECK_DEADLOCK FALSE
