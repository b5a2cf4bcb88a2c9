SPECIFICATION Spec
CONSTANTS
  a = a
  b = b
  p = p
  q = q
  Anchors = {a, b}
  Strategic = {a}
  NoRequest = NoRequest
  Deciders = {p, q}
  Holders <- MCHolders
  Readings <- MCReadings
  Precedents = 1
  MaxRounds = 2
  MaxAnswers = 3
  MaxCrashes = 1
  Jobs = {1, 2, 3}
  Resumer = Resumer
INVARIANTS
  EffectIsConfirmed
  PerformedAsDecided
  AskedAgainWhenDeclined
PROPERTY DecisionsAreTakenUp
CHECK_DEADLOCK FALSE
