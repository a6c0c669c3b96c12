CONSTANTS
  s1 = s1
  s2 = s2
  Session = {s1, s2}
  NoSession = NoSession
  Event <- MCEvent
  RequestId = {r1, r2}
  Viewer = {v1}
  Capacity = 2
  MaxBatch = 2
SPECIFICATION Spec
SYMMETRY Symmetry
INVARIANTS TypeOK LiveShowsOnlyStored LiveMissesNothing AcceptedIsDurable
CHECK_DEADLOCK FALSE
