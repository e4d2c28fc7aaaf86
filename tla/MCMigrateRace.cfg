SPECIFICATION Spec
CONSTANTS
  older = older
  newer = newer
  Release = {older, newer}
  Key = {1, 2, 3, 4}
  Carries <- MCCarries
  Migrator = {m1, m2}
  Process = {p1}
  MaxKills = 0
  Nobody = Nobody
INVARIANT OlderNeverOverNewer
