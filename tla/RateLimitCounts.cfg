SPECIFICATION FairSpec
CONSTANTS
  r1 = r1
  r2 = r2
  r3 = r3
  r4 = r4
  Requests = {r1, r2, r3, r4}
  Limit = 2
  LastWindow = 1
  Nobody = Nobody
INVARIANTS
  CounterIsExact
  RefusedOnlyWhenUsedUp
PROPERTIES
  EveryRequestEnds
