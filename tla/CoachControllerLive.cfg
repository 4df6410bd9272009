\* Refinement and liveness: two requests, two conversations and one tool call.
CONSTANTS
  MaxSends = 2
  MaxSessions = 2
  MaxCalls = 1
  MaxPartials = 1
SPECIFICATION FairSpec
PROPERTIES PromisesKept WorkEnds
CHECK_DEADLOCK FALSE
