CONSTANTS
  Pid = {1, 2, 3}
  AiPid = {3}
  Outside = 9
  MaxChunk = 4
  MaxWork = 13
SPECIFICATION Spec
INVARIANTS ReadAsTyped TimelineInOrder TreeShowsEveryProcess
CHECK_DEADLOCK FALSE
