CONSTANTS
  PriBits = 3
  Payloads = {"tsp", "mm"}
  NsMasks <- MCNsMasks
  NsPriorities <- MCNsPriorities
  SdeiPriorities <- MCSdeiPriorities
  SEl1Priority = 104
  PLAT_RAS_PRI = 16
  PLAT_SP_PRI = 16
SPECIFICATION Spec
\* A panic of the framework stops the CPU; ActivationsMatch says which may happen.
CHECK_DEADLOCK FALSE
INVARIANTS
  NsMaskRestored
  PreemptionIsExact
  DispatchesNest
  ActivationsMatch
