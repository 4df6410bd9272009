SPECIFICATION Spec
CONSTANTS
  Conns = {c1, c2, c3, c4}
  Requests = {}
  Asks = {}
  Calls = {t1}
  NoConn = NoConn
  MaxTools = 1
  MaxRestarts = 1
INVARIANTS OneOfEachKind EveryoneIsTold ResultsGoHome
SYMMETRY Symmetry
CHECK_DEADLOCK FALSE
