CONSTANTS
  ENTRIES = 2
  BaseLevel = 1
  BaseEntries = 2
  TablesNum = 3
  MmapNum = 3
  MinLvlBlock = 1
  PaMax = 10
  MaxCount = 3
  Static <- MCStatic
  Dynamic <- MCDynamic
SPECIFICATION Spec
INVARIANTS TranslationIsExact CountsAreSound
\* The library waits for its caller: when every call is refused, or the
\* tables do not suffice for the static regions, there is no next step.
CHECK_DEADLOCK FALSE
