SPECIFICATION FairSpec
CONSTANTS
  t1 = t1
  t2 = t2
  a1 = a1
  a2 = a2
  None = None
  Request = {r1, r2}
  Connection = {c1, c2}
  Principal <- MCPrincipal
  Kinds = {"create", "remove", "list", "ready"}
  InFlight = 1
  Policies = {TRUE, FALSE}
INVARIANTS TenantsAreApart EventsNameWhoActed RecordedBeforeItLeaves ActorsShareThePool
PROPERTY EveryRequestEnds
CHECK_DEADLOCK FALSE
