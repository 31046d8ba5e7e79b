SPECIFICATION FairSpec
CONSTANTS
  NoJob = NoJob
  Jobs = {capture, lookup}
  Mutating = {capture}
  Edits = {edit}
  ClaimTimeout = 0
  Retention = 0
  MaxFaults = 1
PROPERTY JobsAnswered
PROPERTY RelayCatchesUp
