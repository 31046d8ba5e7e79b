SPECIFICATION Spec
CONSTANTS
  NoJob = NoJob
  Jobs = {capture, lookup}
  Mutating = {capture}
  Edits = {}
  ClaimTimeout = 1
  Retention = 1
  MaxFaults = 1
INVARIANT FreshWhenDone
