SPECIFICATION KernelSpec
CONSTANTS
  Proc = {p1, p2}
  NINUM = 3
  Name = {"x", "y"}
  Block = {b}
  Calls <- MCCalls
  MaxCalls = 6
  None = None
  ProcSlot = {1, 2, 3}
  initslot = 1
  NFrames = 23
  Frame <- MCFrame
  PTES = 3
  PGSIZE = 2
  USERSTACK = 1
  UINT = 64
  Image <- MCImage
  Delta <- MCDelta
  CallBound = 5
VIEW KernelView
SYMMETRY Symmetry
INVARIANTS RefExact CopyFresh NoDangling BlocksOwned NoWaitCycle NoPanic FramesOwned NoVmPanic ImageMatches
CHECK_DEADLOCK FALSE
