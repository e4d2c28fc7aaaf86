SPECIFICATION FairSpec
CONSTANTS
  w1 = w1
  w2 = w2
  s1 = s1
  s2 = s2
  Job = {j1}
  Worker = {w1, w2}
  Slot = {s1, s2}
  Home <- MCHome
  Lease = 3
  Sweep = 3
  Late = 1
  RetryIns = {1}
  NoJob = NoJob
INVARIANTS NoSleepFarPastALease ReadyIsAttended
PROPERTY EveryJobIsFound
