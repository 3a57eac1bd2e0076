SPECIFICATION Spec
CONSTANTS
  t1 = t1
  t2 = t2
  Page = 1
  NoBuf = 0
  Thread = {t1, t2}
  Sizes = {2, 3}
  Buf = {1, 2, 3, 4}
  Settings <- WithGpu
  Limit = 8
  GcLimit = 5
  CacheLimits = {0, 3}
  WiredLimits = {0, 4}
INVARIANTS
  WiredFits
