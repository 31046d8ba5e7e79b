SPECIFICATION Spec
CONSTANTS
  t1 = t1
  t2 = t2
  a1 = a1
  a2 = a2
  Threads = {t1, t2}
  Addresses = {a1, a2}
  Limit = 2
  Minute = 2
  MaxTime = 6
  MaxRequests = 5
SYMMETRY MCSymmetry
INVARIANT TypeOK
INVARIANT Bounded
INVARIANT OnlyRecentKept
PROPERTY NoFalseRefusal
CHECK_DEADLOCK FALSE
