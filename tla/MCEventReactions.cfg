SPECIFICATION FairSpec
CONSTANTS
  Instances = {i1, i2}
  NoOne = NoOne
  MaxTroubles = 1
  Events = {"e"}
  Deliveries = {d1, d2}
  EventOf <- MCEventOf
  Batch = 2
  Processes = {p, q}
  ReactsTo <- MCReactsTo
  Conditional = {q}
  Unrunnable = {q}
  Starts <- MCStarts
  Creators = {i1, i2}
  NoStart = NoStart
  MayWait <- MCMayWait
  MaxCreated = 2
INVARIANTS
  NothingLost
PROPERTIES
  NeverUnderItsRunner
  EveryEntryPublished
CHECK_DEADLOCK FALSE
