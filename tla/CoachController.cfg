\* Safety: two requests and two tool calls overlap, across two conversations.
CONSTANTS
  MaxSends = 2
  MaxSessions = 2
  MaxCalls = 2
  MaxPartials = 1
SPECIFICATION Spec
INVARIANTS NothingWaitsForever CancelReachesTools PanelBusyWhilePending EndingIsOwn
CHECK_DEADLOCK FALSE
