SPECIFICATION MCSpec
CONSTANTS
  Link <- MCLink
  Queries <- MCQueries
  MaxVisits = 2
  MaxRuns = 2
  MaxHours = 1
  MaxPosts = 1
  MaxLost = 1
  Fact <- MCFact
  ListLink <- MCListLink
  ListView = {"open", "blocked", "merged"}
  Typed = {"", "x"}
  PageSize = 1
  MaxNews = 1
  MaxMoves = 2
  Repository <- MCRepository
  RepoLink <- MCRepoLink
  Text = {"", "a", "ab"}
  MaxWrites = 3
  Needed <- MCNeeded
  Lazy <- MCLazy
  AssetLimit = 3
  MaxDrops = 2
INVARIANTS TypeOK RedirectSettles FreshMeansCaughtUp RowsBelong FieldAgrees
PROPERTIES SequenceWins CopyKept
CHECK_DEADLOCK FALSE
