SPECIFICATION Spec
CONSTANTS
  r1 = r1
  r2 = r2
  e1 = e1
  q1 = q1
  k1 = k1
  k2 = k2
  Request = {r1}
  Emit = {}
  Queue = {q1}
  RequestQueue <- OneQueue
  Sessions = FALSE
  Closer = {k1}
  CloseHasLimit = TRUE
  CallsWhileClosing = TRUE
  MaxListeners = 1
  MaxConnections = 2
CHECK_DEADLOCK FALSE
INVARIANT WaitingIsConnected
