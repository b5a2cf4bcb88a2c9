SPECIFICATION ReadersSpec
CONSTANTS
  Sessions = {w1, w2, k}
  MaxPosition = 2
  Writers = {w1, w2}
  Keepers = {w2, k}
  Streams = {}
  Names = {activity, verified}
  Checkpoint = verified
  Page = 1
  NoSession = NoSession
INVARIANTS
  StoredIsFold
PROPERTIES
  NothingCommitsBelow
  ReturnedIsComplete

CHECK_DEADLOCK FALSE
