SPECIFICATION Spec
CONSTANTS
  Parts = {"page", "menu", "harness"}
  Boxes = {"composer", "form"}
  Composer = "composer"
  NoBox = "nobox"
  Sites <- MCSites
  MaxTurns = 2
  MaxTaken = 2
  MaxFaults = 1
  MaxControls = 2
  Models = {"g4", "g4o", "g4t"}
  Levels = {"l1", "l2"}
  Named = {"g4", "g4o", "o"}
  NoName = ""
  Within <- MCWithin
  MaxJobs = 2
  Runs = {"r1", "r2"}
  Tabs = {"tab1", "tab2"}
  MaxLen = 5
  MaxCalls = 3
  MaxLosses = 2
INVARIANTS SentUnlessOwed NothingLeftBehind FoundIsNew ShownUnlessMoved
PROPERTIES ObserveEnds OnlyTheModelNamed
CHECK_DEADLOCK FALSE
