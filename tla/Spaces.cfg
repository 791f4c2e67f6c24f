CONSTANTS
  t1 = t1
  t2 = t2
  t3 = t3
  s1 = s1
  s2 = s2
  s3 = s3
  f1 = f1
  f2 = f2
  f3 = f3
  Tcbs = {t1, t2, t3}
  Versions = {1, 2}
  Spaces = {s1, s2, s3}
  Frames = {f1, f2, f3}
  Locations = {0, 1, 2}
  PageOf <- MCPageOf
  Areas <- MCAreas
  RootTask = t1
  RootSpace = s1
  Null = Null
  Unset = Unset
  Env = {}
SPECIFICATION Spec
SYMMETRY Symmetry
INVARIANTS SpaceCounted UtcbPagesExact UtcbInArea
