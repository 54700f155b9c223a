SPECIFICATION Spec
CONSTANTS
  Fields = {f1, f2}
  Conns = {c1, c2, c3}
  MAX_HEARTBEATS = 2
  Fits = 1
  MaxPairs = 3
  MaxNow = 1
INVARIANTS
  HistoryIsLatest
  QueryIsFresh
  StampsInOrder
  FormParser
PROPERTIES
  RequestsAnswered
CHECK_DEADLOCK FALSE
