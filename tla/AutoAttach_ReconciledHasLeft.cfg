SPECIFICATION AutoSpec
CONSTANTS
  Unit = {a1, a2}
  Grip = {k1, k2}
  NoUnit = NoUnit
  NoGrip = NoGrip
  Wanted = {a1}
  Plural = {a1}
  FeedCap = 1
PROPERTY
  ReconciledHasLeft
CHECK_DEADLOCK FALSE
