SPECIFICATION FairSpec
CONSTANTS
  w = w
  f = f
  cigar = cigar
  x = x
  Ids = {w, f, cigar, x}
  Type <- MCType
  Gone = Gone
  Nameless = Nameless
  MaxRating = 2
  MinRating = 2
  MaxRounds = 2
  Inputs <- MCInputs
  Drafts <- MCDrafts
  Guesses <- MCGuesses
  MaxChanges = 3
  Actions <- MCActions
  Fields = {"abv", "cask", "region"}
  Concurrency = 2
  Scenes <- MCScenes
INVARIANT TypeOK
INVARIANT AnswerTellsTheTruth
INVARIANT UserWordsKept
INVARIANT MatchesWereGood
INVARIANT ProposalsProven
INVARIANT EveryTargetAnswered
PROPERTY OnlyItsFields
PROPERTY OperationEnds
CHECK_DEADLOCK FALSE
