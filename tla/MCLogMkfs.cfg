SPECIFICATION Spec
CONSTANTS
  Proc = {p1, p2, p3}
  Block = {a, b, c}
  Val = {v1}
  NoBlock = NoBlock
  NotCached = NotCached
  MAXOPBLOCKS = 1
  LOGSIZE = 3
  nlog = 3
SYMMETRY Symmetry
INVARIANTS NoPanic
