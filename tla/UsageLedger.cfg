SPECIFICATION FairSpec
CONSTANTS
  NoBatch = NoBatch
  Procs = {worker, admin}
  Concurrent = {admin}
  Calls = {c1, c2}
  MaxFaults = 2
INVARIANT TypeOK
INVARIANT CountedOnce
INVARIANT NothingForgotten
INVARIANT AllOrNothing
PROPERTY EventuallyCounted
