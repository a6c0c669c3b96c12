CONSTANTS
  Event = {"a", "b"}
  MaxRows = 4
  MaxDamage = 2
SPECIFICATION TableSpec
INVARIANT OmissionsAreDetected
CHECK_DEADLOCK FALSE
