CONSTANTS
  MaxEvents = 5
  BatchMaxSize = 2
SPECIFICATION FairSpec
INVARIANTS TypeOK NothingDropped HandledOnce ExitIsComplete
PROPERTIES EventsLeave AgentTerminates
CHECK_DEADLOCK FALSE
