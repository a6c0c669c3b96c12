CONSTANTS
  Session = {1, 2}
  Input = {"long", "longalert", "execalert", "end"}
  ListLimit = 1
  MaxCommands = 1
  MaxEvents = 3
  MaxFaults = 1
SPECIFICATION FairSpec
INVARIANTS TypeOK NothingSkipped ReportedOnce AlertIsReported
PROPERTIES CheckpointMonotone WorkIsReported
CHECK_DEADLOCK FALSE
