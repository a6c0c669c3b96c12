CONSTANTS
  MaxEvents = 3
  BatchMaxSize = 1
  Capacity = 2
  MaxFails = 0
  MaxRestarts = 0
  SessionId = s1
  NoSession = NoSession
SPECIFICATION FairSpec
PROPERTY KillTerminates
CHECK_DEADLOCK FALSE
