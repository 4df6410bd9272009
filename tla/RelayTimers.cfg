SPECIFICATION FairSpec
CONSTANTS
  Conns = {c1, c2}
  Requests = {r1, r2}
  Asks = {a1, a2}
  Calls = {}
  NoConn = NoConn
  MaxTools = 0
  MaxRestarts = 1
INVARIANTS FinalIsLast WaitersWait
PROPERTIES WaitsEnd
CHECK_DEADLOCK FALSE
