\* discovery.ts:11-12 says the reply is what was not there before the message was sent.
SPECIFICATION Spec
CONSTANTS
  Parts = {"page"}
  Boxes = {"composer", "form"}
  Composer = "composer"
  NoBox = "nobox"
  Sites <- ReplySites
  MaxTurns = 2
  MaxTaken = 2
  MaxFaults = 0
  MaxControls = 2
  Models = {"g4", "g4o", "g4t"}
  Levels = {"l1", "l2"}
  Named = {"g4", "g4o", "o"}
  NoName = ""
  Within <- MCWithin
  MaxJobs = 2
  Runs = {"r1", "r2"}
  Tabs = {"tab1", "tab2"}
  MaxLen = 5
  MaxCalls = 3
  MaxLosses = 1
INVARIANTS AnswersTheMessage
CHECK_DEADLOCK FALSE
