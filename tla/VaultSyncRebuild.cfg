SPECIFICATION Spec
CONSTANTS
  worker = worker
  u1 = u1
  portal = portal
  Uids = {u1}
  Paths = {"a.md"}
  Entries = {"a.md"}
  EntryId <- MCEntryId
  Shards = {1, 2}
  ShardOf <- MCShardOf
  NoText = NoText
  NoCursor = NoCursor
  Procs <- MCProcs
  Worker = worker
  Duties <- MCEditors
  HumanOps = {}
  MaxOps = 2
  MaxFaults = 0
  PageLimit = 2
INVARIANT EditsSurviveRebuild
