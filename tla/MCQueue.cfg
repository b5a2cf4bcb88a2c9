SPECIFICATION Spec
CONSTANTS
  Jobs = {1, 2}
  Runs = {"run"}
  RunOf <- MCRunOf
  Units = {"sales"}
  NoUnit = NoUnit
  UnitOf <- MCUnitOf
  PerUnit <- MCPerUnit
  Runners = {r1, r2}
  Holders = {h1}
  NoOne = NoOne
  Lease = 1
  HoldTime = 3
  Delays = {0, 1}
  MaxAttempts = 2
  MaxTime = 4
  MaxClaims = 5
SYMMETRY MCSymmetry
CONSTRAINT MCBounds
INVARIANTS
  OneClaimPasses
  LastAttemptTold
  
PROPERTIES
  FenceNeverReopens
  ImplementsEpochs
  HoldKept
CHECK_DEADLOCK FALSE
