SPECIFICATION Spec
CONSTANTS
  c1 = c1
  c2 = c2
  p1 = p1
  p2 = p2
  q2 = q2
  p3 = p3
  k1 = k1
  k2 = k2
  k3 = k3
  CProc = {c1, c2}
  Free = Free
  INPUT_BUF_SIZE = 2
  CUINT = 4
  TX_BUF_SIZE = 1
  ReadLens = {2}
  WriteLens = {2}
  Keys = {"x", "cr", "eof", "bs", "kill", "dump", "nul"}
  Loads <- MCLoads
  DProc = {p1, p2, q2, p3}
  Block = {k1, k2, k3}
  Jobs <- MCJobs
  Other <- MCOther
  Second = {}
  NBUF = 3
  NUM = 5
  MaxPin = 1
  MaxGets = 3
  Victims = {p2}
CHECK_DEADLOCK FALSE
INVARIANTS
  NoSelfDeadlock
  HolderSeesLatest
  DescriptorsOwned
PROPERTIES
  ImplementsLines
  WriterFinishes
  RequestFinishes
