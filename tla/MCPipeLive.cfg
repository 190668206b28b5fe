SPECIFICATION FairSpec
CONSTANTS
  Proc = {p1, p2, p3}
  creator = p1
  None = None
  Byte = {x}
  PIPESIZE = 1
  UINT = 2
  MaxN = 2
  Victims = {}
PROPERTIES ClosedReleases
CHECK_DEADLOCK FALSE
