CONSTANTS
  Session = {1}
  Input = {"ai", "cmd"}
  ListLimit = 1
  MaxCommands = 1
  MaxEvents = 3
  MaxFaults = 0
SPECIFICATION Spec
INVARIANT AiIsGlobal
CHECK_DEADLOCK FALSE
