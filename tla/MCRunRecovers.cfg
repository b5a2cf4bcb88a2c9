SPECIFICATION FairSpec
CONSTANTS
  Steps = {1, 2}
  Dependencies <- InOrder
  May <- MayWait
  Heals <- HealNothing
  Runners = {r1, r2}
  Places = 1
  Jobs = {1}
  Persons = {}
  NoOne = NoOne
  NoStep = NoStep
  MaxAttempts = 3
  MaxWaits = 1
  MaxClaims = 6
  MaxTroubles = 1
INVARIANTS
  NoLostUpdate
  
PROPERTIES
  SettlesInTheEnd
CHECK_DEADLOCK FALSE
