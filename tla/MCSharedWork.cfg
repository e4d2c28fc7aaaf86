SPECIFICATION FairSpec
CONSTANTS
  k1 = k1
  k2 = k2
  Key = {k1, k2}
  Beside = Beside
  Caller = {c1, c2}
  Nested <- MCNested
  MaxRuns = 3
INVARIANTS OneRunPerKey AwaitsWhatWillTell OnlyTheStopCancels ClosedNamesWhatRuns
PROPERTY EveryCallEnds
