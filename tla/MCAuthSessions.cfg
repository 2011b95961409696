CONSTANTS
  ann = ann
  bob = bob
  s1 = s1
  s2 = s2
  Sessions = {s1, s2}
  Clients = {ann, bob}
  Keys <- MCKeys
  Limit = 2
  Window = 2
  MaxTime = 2
  Spellings = {"ann", "Ann", "bob", "zoe", "Zoe"}
  Lower <- MCLower
  Forms <- MCForms
  Known <- AnnHasOne
  RefreshLife = 2
  MayStop = TRUE
  MaxRequests = 3
SPECIFICATION Spec
SYMMETRY Symmetric
INVARIANTS
  LimitPerWindow
  RefusedOnlyWhenFull
  TokensAreHandedOutOnce
  DeadTokensAreRefused
  WelcomedOwnTheirAccount
  TakenNamesAreSaidTaken
CHECK_DEADLOCK FALSE
