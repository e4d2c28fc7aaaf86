SPECIFICATION Spec
CONSTANTS
  Job = {j1}
  Slot = {s1}
  NoJob = NoJob
  MaxAttempts = 2
  Lease = 1
  Lag = 0
  RetryIn <- MCRetryIn
  RetryAfter = 1
  MaxDefers = 1
  Mishaps = {"busy"}
  MaxMishaps = 2
INVARIANT DeadWasTried
