CONSTANTS
  s1 = s1
  s2 = s2
  Sessions = {s1}
  Ids = {1, 2}
  Cooldown = 2
  MaxTime = 2
  Types = {"PRICE", "DRAWDOWN"}
  Thresholds = {1}
  Values = {0, 3}
  Initially <- OneForeign
  Created <- SomeCreated
  Changes <- ManyChanges
  Broken = TRUE
  MayCrash = TRUE
  MaxRequests = 4
SPECIFICATION Spec
INVARIANTS
  StoredAlertsCanFire
PROPERTIES
  ImplementsAlertLog
CHECK_DEADLOCK FALSE
