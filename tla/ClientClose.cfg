SPECIFICATION Spec
CONSTANTS
  r1 = r1
  r2 = r2
  e1 = e1
  q1 = q1
  k1 = k1
  k2 = k2
  Request = {r1, r2}
  Emit = {}
  Queue = {q1}
  RequestQueue <- OneQueue
  Sessions = TRUE
  Closer = {k1, k2}
  CloseHasLimit = TRUE
  CallsWhileClosing = FALSE
  MaxListeners = 2
  MaxConnections = 2
CHECK_DEADLOCK FALSE
SYMMETRY Interchangeable
INVARIANTS
  TypeOK
  WaitingIsConnected
  NothingLeftBehind
PROPERTIES
  NotClosedUnderLinks
