SPECIFICATION Spec
CONSTANTS
  a = a
  b = b
  p = p
  q = q
  Anchors = {a, b}
  Strategic = {a}
  NoRequest = NoRequest
  Deciders = {p, q}
  Holders <- MCHolders
  Readings <- MCReadings
  Precedents = 1
  MaxRounds = 1
  MaxAnswers = 2
  MaxCrashes = 0
  Jobs = {1, 2, 3}
  Resumer = Resumer
PROPERTY DecisionNeverLost
CHECK_DEADLOCK FALSE
