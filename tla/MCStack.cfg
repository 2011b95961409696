CONSTANTS
  MaxAttempts = 2
  Retries = 2
  StartRevisions = {0, 6, 8, 9}
  MaxTroubles = 2
  Users = {"ann", "bob"}
  RecordSessions = {"s1", "s2"}
  Values = {0, 1, 2}
  Unfit = {2}
  MaxRows = 2
  MaxRequests = 3
  MaxRotations = 1
SPECIFICATION Spec
INVARIANTS
  SchemaIsItsRevisions
  OnlyRacesRefuseStatements
  WorkersFindTheHead
PROPERTIES
  EndsUpHealthy
  OnlyOverlapBreaksARequest
  UpdatesStickUnlessStale
CHECK_DEADLOCK FALSE
