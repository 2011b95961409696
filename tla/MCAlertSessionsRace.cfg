CONSTANTS
  s1 = s1
  s2 = s2
  Sessions = {s1, s2}
  Ids = {1, 2}
  Cooldown = 2
  MaxTime = 2
  Types = {"PRICE", "DRAWDOWN"}
  Thresholds = {1}
  Values = {0, 3}
  Initially <- TwoAlerts
  Created <- NoneCreated
  Changes <- Deactivate
  Broken = TRUE
  MayCrash = TRUE
  MaxRequests = 2
SPECIFICATION FairSpec
INVARIANTS
  LastIsCommittedLast
  OnlyStaleRowsBreakTheCooldown
  MailsAreRecorded
  OnlyDeletionStopsABatch
PROPERTY
  EveryRequestEnds
CHECK_DEADLOCK FALSE
