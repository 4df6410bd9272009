\* background.ts:80-82 says that turns in one tab do not interleave their typing.
SPECIFICATION Spec
CONSTANTS
  MaxRequests = 2
  Tabs = {t1}
  NoTab = NoTab
  MaxRounds = 1
  MaxCalls = 1
  MaxRetries = 0
  MaxFaults = 0
INVARIANTS OnlyHolderTypes
CHECK_DEADLOCK FALSE
