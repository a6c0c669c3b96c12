CONSTANTS
  Session = {s1, s2}
  NoSession = NoSession
  Input = {i1}
  MaxBatch = 2
  MaxRows = 3
  MaxNotified = 1
SPECIFICATION Spec
SYMMETRY Symmetry
INVARIANTS TypeOK SessionsVerify  SessionStartsWithInit EndedIffEndStored
PROPERTIES AppendOnly AppendsWholeBatches
CHECK_DEADLOCK FALSE
