SPECIFICATION MCSpec
CONSTANTS
  worker = worker
  u1 = u1
  portal = portal
  Uids = {u1, u2}
  Paths = {"a.md", "A.md", "b.md"}
  Entries = {"a.md", "b.md"}
  EntryId <- MCEntryId
  Shards = {1, 2}
  ShardOf <- MCShardOf
  NoText = NoText
  NoCursor = NoCursor
  Procs <- MCProcs
  Worker = worker
  Duties <- MCDuties
  HumanOps <- MCHuman
  MaxOps = 2
  MaxFaults = 1
  PageLimit = 2
INVARIANT TypeOK
INVARIANT Agreement
INVARIANT EditsSurvive
PROPERTY NoResurrection
PROPERTY FeedDrains
