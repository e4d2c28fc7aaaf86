SPECIFICATION SpecRights
CONSTANTS
  older = older
  newer = newer
  seq = seq
  action = action
  method = method
  Release = {older, newer}
  Key = {1, 2, 3, 4, 5}
  Carries <- MCCarries
  Migrator = {m1, m2}
  Process = {p1}
  MaxKills = 2
  Nobody = Nobody
  EventsKey = 2
  AppendOnlyKey = 4
  Column = {seq, action, method}
  Columns <- MCColumns
  Adds <- MCAdds
  Filled = {seq}
INVARIANT ServingCannotForge
