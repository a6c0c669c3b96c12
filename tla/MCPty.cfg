CONSTANTS
  MaxTyped = 2
  MaxOutput = 1
  ReadSize = 2
  InCap = 1
  OutCap = 1
SPECIFICATION FairSpec
INVARIANTS TypeOK   ResizeNotLost
PROPERTIES ImplementsMainThread Responsive SessionEnds
CHECK_DEADLOCK FALSE
