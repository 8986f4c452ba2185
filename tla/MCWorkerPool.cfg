CONSTANTS
  t1 = t1
  t2 = t2
  t3 = t3
  many = many
  single = single
  None = None
  Task <- MCTask
  Call <- MCCall
  Faulty <- MCFaulty
  Signalled <- MCSignalled
  Reqs <- MCReqs
  Size = 2
  MaxThreads = 4
SPECIFICATION Spec
INVARIANTS
  NoTaskLost
  WorkConserving
  PoolSizeKept
  LiveSlotNeverStale
PROPERTIES
  AbortedNeverStarts
  KeepsContract
  EveryTaskSettles
\* A pool with nothing to do waits for its next caller.
CHECK_DEADLOCK FALSE
