SPECIFICATION FairSpec
CONSTANTS
  coder = coder
  builder = builder
  Runs = {coder, builder}
  Adapters = {"worker.coding", "connector.repository"}
  AdapterOf <- MCAdapterOf
  Workers = {"worker.coding"}
  Reader = "connector.repository"
  Stops = {s1}
  Confirmers = {scheduler, surface}
  NoStop = NoStop
  NoAdapter = NoAdapter
  Cap = 1
  Recounts = 2
  MaxOutside = 1
  Unread = Unread
  Resumable = {coder}
  MaxResumes = 1
  MaxLosses = 1
INVARIANTS
  StartedWithinCap
  QuietWhenConfirmed
  FollowedIsAsked
PROPERTIES
  ComesToHold
CHECK_DEADLOCK FALSE
