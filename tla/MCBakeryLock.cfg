CONSTANTS
  N = 3
  TicketMod = 16
  MaxTicket = 6
SPECIFICATION FairSpec
\* All CPUs may stay away from the lock.  CPUs that want it and wait for one
\* another for ever are excluded by EveryContenderServed.
CHECK_DEADLOCK FALSE
INVARIANTS MutualExclusion
PROPERTIES ImplementsFcfsLock EveryContenderServed
