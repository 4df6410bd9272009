\* ADR 0007 says the request timeout is suspended while a prompt is open.
CONSTANTS
  MaxSends = 1
  MaxSessions = 1
  MaxCalls = 2
  MaxPartials = 0
SPECIFICATION Spec
INVARIANTS ClockSuspendedWhileAsking
CHECK_DEADLOCK FALSE
