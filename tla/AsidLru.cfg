SPECIFICATION Spec
CONSTANTS
  Spaces = {s1, s2, s3}
  MaxNumAsids = 2
  PreemptAsids = TRUE
INVARIANT PreemptsLeastRecentlyUsed
CHECK_DEADLOCK FALSE
