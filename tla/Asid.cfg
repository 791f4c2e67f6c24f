SPECIFICATION Spec
CONSTANTS
  Spaces = {s1, s2, s3, s4}
  MaxNumAsids = 2
  PreemptAsids = TRUE
INVARIANT AsidExclusive
INVARIANT FreeListExact
CHECK_DEADLOCK FALSE
