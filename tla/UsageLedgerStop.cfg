SPECIFICATION Spec
CONSTANTS
  NoBatch = NoBatch
  Procs = {worker, admin}
  Concurrent = {admin}
  Calls = {c1, c2}
  MaxFaults = 2
PROPERTY FinalPushTakesAll
