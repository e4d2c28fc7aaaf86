SPECIFICATION Spec
CONSTANTS
  w1 = w1
  w2 = w2
  s1 = s1
  s2 = s2
  Job = {j1}
  Worker = {w1}
  Slot = {s1}
  Home <- MCHome
  Lease = 2
  Sweep = 2
  Late = 0
  RetryIns = {1}
  NoJob = NoJob
INVARIANT EndedLeaseIsSeen
