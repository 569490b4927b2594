CONSTANTS
  CPU = {0, 1}
  Hotplug = {0, 1}
  Quiesced = TRUE
  None = None
  Pages = 4
  SectorPages = 2
  Length = 3
  Versions = 2
  MaxResets = 3
  Erased = Erased
  Garbage = Garbage
SPECIFICATION SystemSpec
\* After SYSTEM_OFF, or when every CPU is off, and no reset is left, nothing
\* is left to do.
CHECK_DEADLOCK FALSE
INVARIANTS NoLostWakeup WarmBootIsPending StagedIsProgrammed ModesAgree
