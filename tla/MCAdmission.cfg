SPECIFICATION Spec
CONSTANTS
  Actor = {a1, a2}
  Request = {r1, r2}
  NoActor = NoActor
  NoAccount = NoAccount
  InFlight = 1
  Streams = 1
  Burst = 1
  Cost = 3
  Second = 2
  Policies = {TRUE, FALSE}
  MaxTime = 5
SYMMETRY Symmetry
INVARIANTS PlacesMatch RateHolds RetryFits
PROPERTY IsActorBounds
CHECK_DEADLOCK FALSE
