CONSTANTS
  MaxEvents = 3
  BatchMaxSize = 1
  Capacity = 2
  MaxFails = 1
  MaxRestarts = 1
  SessionId = s1
  NoSession = NoSession
SPECIFICATION FairSpec
PROPERTY SpoolIsFlushed
CHECK_DEADLOCK FALSE
