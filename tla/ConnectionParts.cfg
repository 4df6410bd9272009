SPECIFICATION Spec
CONSTANTS
  Parts = {"relay", "link", "picks", "agent"}
  Windows = {w1, w2}
  Builds = {b1, b2}
  Old = b1
  MaxRelays = 2
  MaxCrashes = 1
  MaxProviders = 2
  MaxConnects = 3
  MaxTries = 1
  MaxFlips = 2
  Models = {m1, m2}
  NoModel = NoModel
  MaxOpens = 2
  MaxUpset = 1
  MaxLines = 3
  MaxDrops = 2
INVARIANTS ReplacedNotReused OnlyHeldConnections SelectionHolds AnswersInOrder
PROPERTIES EveryoneIsAnswered
CHECK_DEADLOCK FALSE
