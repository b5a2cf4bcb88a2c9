SPECIFICATION FairSpec
CONSTANTS
  Steps = {1, 2}
  Dependencies <- InOrder
  May <- MayAnything
  Heals <- HealOnce
  Runners = {r1, r2}
  Places = 1
  Jobs = {1, 2}
  Persons = {p1}
  NoOne = NoOne
  NoStep = NoStep
  MaxAttempts = 2
  MaxWaits = 1
  MaxClaims = 5
  MaxTroubles = 0

  
PROPERTIES
  FollowsLifecycle
  SettlesInTheEnd
CHECK_DEADLOCK FALSE
