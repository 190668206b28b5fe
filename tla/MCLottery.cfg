SPECIFICATION PartSpec
CONSTANTS
  NPROC = 2
  CPU = {c1, c2}
  None = None
  Tickets = {1, 2}
  first = 2
  LEN = 2
  RETRIES = 3
  Files <- MCFiles
  Noise = {1, 4, 7, 21, 24}
  Budget <- MCBudget
INVARIANTS OneCPU DeliveredInOrder SuccessIsTrue
PROPERTIES LotteryIsFair Completes
CHECK_DEADLOCK FALSE
