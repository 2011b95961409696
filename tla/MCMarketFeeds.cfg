CONSTANTS
  a1 = a1
  a2 = a2
  Assets = {a1, a2}
  MaxEdits = 1
  PriceSessions = {"api", "worker"}
  Stamps = {1, 2}
  MaxFetches = 2
  NewsSessions = {"api", "worker"}
  Stories <- MCStories
  Lists <- MCLists
  ProviderDays = 0
  ExpirationDays = 1
  MaxAnswer = 2
  MaxDay = 2
  MaxAsked = 2
SPECIFICATION Spec
INVARIANTS
  CachedIsCommitted
  StoriesAreStoredOnce
  SweptStaysClean
  OnlyOverlapCutsShort
PROPERTY
  CacheSettles
CHECK_DEADLOCK FALSE
