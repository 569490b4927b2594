CONSTANTS
  CPU = {"c0", "c1"}
  Node = {"cluster0", "system"}
  MaxLvl = 2
  Anc <- MCPair
  PlatStates <- MCAllStates
  MaxRet = 1
  MaxOff = 2
  Primary = "c0"
  None = None
SPECIFICATION FairSpec
INVARIANTS SystemSuspendIsTotal
PROPERTIES EveryCallCompletes PoweredOnCpuRuns
\* All CPUs may be off or suspended.
CHECK_DEADLOCK FALSE
