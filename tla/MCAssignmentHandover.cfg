SPECIFICATION Spec
CONSTANTS
  Ids <- IdsDef
  NoId = 0
  Units = 1
  Capacity = 2
  MaxLives = 2
  Runners = {r1, r2}
  NoOne = NoOne
  Person = Person
  MaxClaims = 3
  MaxAsks = 1
  Troubles = {"lapse", "crash", "restart", "refusal", "rejection", "no answer", "stream"}
  MaxTroubles = 2
SYMMETRY RunnerSymmetry
INVARIANTS
  CountedOnce
  NothingUncounted
  WorkIsNamed
  PersonWorksAlone
  KeptUnlessBegunAgain
PROPERTIES
  AtMostOneUnitLost
CHECK_DEADLOCK FALSE
