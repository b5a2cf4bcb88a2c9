SPECIFICATION FairSpec
CONSTANTS
  Instances = {i1, i2}
  NoOne = NoOne
  MaxTroubles = 3
  Deadlines = {d1}
  LastStage = 4
  Begins <- MCBegins
  Until <- MCUntil
  Action <- MCAction
  Engine = Engine
  Starts <- MCStarts
  Creators = {i1, i2}
  NoStart = NoStart
  MayWait <- MCStarts
  MaxCreated = 2
INVARIANTS
  RecordIsBook
  StartedRunExists
PROPERTIES
  EveryMomentTaken
CHECK_DEADLOCK FALSE
