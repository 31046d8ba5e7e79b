SPECIFICATION BothSpec
CONSTANTS
  pairs = pairs
  details = details
  chat = chat
  check = check
  m1 = m1
  m2 = m2
  old = old
  Catalog = {m1, m2}
  Retired = {old}
  NoModel = NoModel
  ConfigModel = ConfigModel
  TTL = 1
  Jobs = {pairs, details, chat, check}
  Kind <- MCKind
  Saves <- MCSaves
  Scenes <- MCScenes
  portal = portal
  worker = worker
  whisky = whisky
  rum = rum
  Writers = {portal, worker}
  Records = {whisky, rum}
  HistoryKeep = 1
  MaxEdits = 3
  Budgets <- MCBudgets
INVARIANT TypeOK
INVARIANT JobsTracked
INVARIANT OldChoiceKept
INVARIANT NextSeesSave
INVARIANT HistoryTypeOK
INVARIANT NewestKept
INVARIANT UndoIsTrue
PROPERTY ChoiceIsRecent
PROPERTY JobsSettle
CHECK_DEADLOCK FALSE
