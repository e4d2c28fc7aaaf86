SPECIFICATION FairSpec
CONSTANTS
  Job = {j1}
  Slot = {s1, s2}
  NoJob = NoJob
  MaxAttempts = 2
  Lease = 2
  Lag = 1
  RetryIn <- MCRetryIn
  RetryAfter = 1
  MaxDefers = 1
  Mishaps = {"crash", "busy", "lapse"}
  MaxMishaps = 3
INVARIANTS FenceHolds TablesAgree HandlerStartsAreBounded
PROPERTIES IsJobBoard EveryJobEnds
