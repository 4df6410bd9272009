SPECIFICATION PartsSpec
CONSTANTS
  MaxRequests = 2
  Tabs = {t1}
  NoTab = NoTab
  MaxRounds = 1
  MaxCalls = 2
  MaxRetries = 1
  MaxFaults = 1
  Sockets = {1, 2}
  MaxTokens = 2
  StaleAfter = 1
  MaxBreaks = 2
INVARIANTS CrossedOnlyIfGivenUp FinalIsLast NoSilentEnd
PROPERTIES ShownNeverGoesBack TurnsEnd Recovers
CHECK_DEADLOCK FALSE
