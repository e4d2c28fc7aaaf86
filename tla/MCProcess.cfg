SPECIFICATION SpecAll
CONSTANTS
  Process = {p1, p2, w1}
  Workers = {w1}
  Caller = {c1, c2}
  Settings <- MCSettings
  Limits <- MCLimits
  Outside = 1
  Beside = 1
  None = None
  Job = {j1, j2}
  MaxAttempts = 2
  MaxTicks = 4
  Row = {r1, r2, r3, r4}
  PageMax = 2
INVARIANTS ConnectionsFit NoPoolIsLeaked FramesAreOfTheHold WalksAreComplete
PROPERTIES AskedJobsEnd IsJobBoard
CHECK_DEADLOCK FALSE
