SPECIFICATION Spec
CONSTANTS
  NPROC = 3
  CPU = {c1}
  None = None
  Tickets = {1, 2}
  first = 2
INVARIANTS OneWinnerPerDraw
