CONSTANTS
  s1 = s1
  s2 = s2
  Sessions = {s1, s2}
  Ids = {1}
  Cooldown = 2
  MaxTime = 3
  Types = {"PRICE", "DRAWDOWN"}
  Thresholds = {1}
  Values = {0, 3}
  Initially <- OneAlert
  Created <- NoneCreated
  Changes <- Deactivate
  Broken = FALSE
  MayCrash = FALSE
  MaxRequests = 3
SPECIFICATION Spec
INVARIANTS
  TriggersAreSpaced
CHECK_DEADLOCK FALSE
