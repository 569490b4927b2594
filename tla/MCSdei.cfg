CONSTANTS
  PE = {"p0", "p1"}
  Boot = "p0"
  Platforms <- MCPlatforms
  Private = {"explicit", "dyn"}
  Critical = {"explicit"}
  Dynamic = {"spi", "dyn"}
  Explicit = {"explicit"}
  StaticIntr <- MCStaticIntr
  Ppi = {"i24"}
  Spi = {"i72"}
  Bindable <- MCBindable
  NsIntr <- MCNsIntr
  MaxReg <- MCMaxReg
  None = None
SPECIFICATION FairSpec
\* Every PE may have panicked.
CHECK_DEADLOCK FALSE
INVARIANTS HandledStaysBound RunningOnce EnableFollowsEvent TriggersAreExact
PROPERTIES TriggerIsDelivered
