CONSTANTS
  CPU = {"c0", "c1", "c2"}
  Node = {"cluster0", "cluster1", "system"}
  MaxLvl = 2
  Anc <- MCTree
  PlatStates <- MCSomeStates
  MaxRet = 1
  MaxOff = 2
  Primary = "c0"
  None = None
SPECIFICATION Spec
INVARIANTS RunningCpuIsPowered DomainNotDeeper FinisherAssertsHold SnapshotIsCurrent
\* All CPUs may be off or suspended.
CHECK_DEADLOCK FALSE
