CONSTANTS
  CPU = {c0, c1}
  c0 = c0
  c1 = c1
  SP = {sp}
  sp = sp
  MaxHandles = 1
  MaxResponses = 1
  QueueLen = 1
  BlockingLen = 3
  HandleValues = 2
  TokenValues = 2
  MaxRequests = 3
  None = None
SPECIFICATION FairSpec
INVARIANTS RequestsConserved OneCpuInPartition BlockingGetsItsAnswer
PROPERTIES BlockingReturns

\* Every CPU may have panicked.
CHECK_DEADLOCK FALSE
