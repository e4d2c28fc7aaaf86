SPECIFICATION SpecTab
CONSTANTS
  Key = {k1}
  Paged = {k1}
  Mutation = {m1, m2}
  Retries = 2
  MaxGranted = 2
  MaxStray = 1
  Build = {b1, b2, b3}
  None = None
  MaxChecks = 2
  Call = {c1, c2}
  Wait = {0, 1, 3}
  Event = {e1, e2, e3}
  MaxPage = 2
  MaxTime = 5
INVARIANT RefusedWithItsOwnFailure
PROPERTIES CausedFetchesRead ReadsNeedCauses ReloadsNeedDeploys TheBuildIsFollowed HeldSendsNothing
CHECK_DEADLOCK FALSE
