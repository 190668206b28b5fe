SPECIFICATION Spec
CONSTANTS
  Proc = {p1, p2}
  NINUM = 3
  Name = {"x", "y"}
  Block = {b}
  Calls <- MCCalls
  MaxCalls = 4
  None = None
VIEW View
SYMMETRY Symmetry
INVARIANTS Reclaimed
CHECK_DEADLOCK FALSE
