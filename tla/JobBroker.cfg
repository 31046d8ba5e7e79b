SPECIFICATION Spec
CONSTANTS
  NoJob = NoJob
  Jobs = {capture, lookup}
  Mutating = {capture}
  Edits = {}
  ClaimTimeout = 1
  Retention = 1
  MaxFaults = 2
INVARIANT TypeOK
INVARIANT PayloadKept
INVARIANT NoOvertaking
INVARIANT SavedIsSaved
INVARIANT RepeatsNeedFaults
INVARIANT FreshWithoutFaults
PROPERTY KeepsPromise
