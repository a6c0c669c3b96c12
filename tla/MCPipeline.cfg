CONSTANTS
  MaxEvents = 3
  BatchMaxSize = 2
  Capacity = 2
  MaxFails = 1
  MaxRestarts = 1
  SessionId = s1
  NoSession = NoSession
SPECIFICATION FairSpec
INVARIANTS AckedIsStored StoredOnce NothingWithoutInit CompleteAtExit KillStopsSession
PROPERTIES EventsSettle
CHECK_DEADLOCK FALSE
