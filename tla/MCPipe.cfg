SPECIFICATION Spec
CONSTANTS
  Proc = {p1, p2, p3}
  creator = p1
  None = None
  Byte = {x, y}
  PIPESIZE = 2
  UINT = 4
  MaxN = 3
  Victims = {p2, p3}
SYMMETRY Symmetry
INVARIANTS NoUseAfterFree NoLostWakeup
PROPERTIES ImplementsByteStream
CHECK_DEADLOCK FALSE
