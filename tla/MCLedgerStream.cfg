SPECIFICATION FairReadersSpec
CONSTANTS
  Sessions = {w1, w2, r}
  MaxPosition = 2
  Writers = {w1, w2}
  Keepers = {}
  Streams = {r}
  Names = {}
  Checkpoint = verified
  Page = 1
  NoSession = NoSession
INVARIANTS
  NothingMissed
PROPERTIES
  EventuallySent

CHECK_DEADLOCK FALSE
