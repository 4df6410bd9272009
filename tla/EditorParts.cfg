SPECIFICATION Spec
CONSTANTS
  Parts = {"calls", "ledger", "reads", "tree", "loop"}
  Ids = {i1, i2}
  Commands = {c1, c2}
  LongOnes = {c1}
  MaxPackets = 2
  CacheSize = 1
  ContextLines = 1
  FileTexts <- MCTexts
  MaxFile = 6
  PullThreshold = 5
  MaxSessions = 2
  CoachIds = {k1}
  MaxRequests = 2
  MaxCalls = 2
  Files <- MCFiles
  Outside <- MCOutside
  Link <- MCLink
  Secrets = {"s"}
  MaxChanges = 2
  Trees <- MCTrees
  MaxEntries = 5
INVARIANTS RerunsOverlap ChatIsInformed LoopNeverStalls ReportsAreTrue TreeIsTrue
PROPERTIES ResultsNamed NothingRunsUnasked ChildrenEnd
CHECK_DEADLOCK FALSE
