SPECIFICATION FairSpec
CONSTANTS
  r1 = r1
  r2 = r2
  r3 = r3
  q1 = q1
  q2 = q2
  m1 = m1
  m2 = m2
  m3 = m3
  foreign = foreign
  InvalidId = InvalidId
  Request = {r1, r2, r3}
  Queue = {q1}
  Reply = {m2}
  RequestQueue <- OneQueueRequests
  ReplyQueue <- OneQueueReplies
  CorrelationId <- OwnReplies
  Sessions = TRUE
  FinishedLimit = 2
  MaxDeliveryCount = 2
  MaxListeners = 3
CHECK_DEADLOCK FALSE
INVARIANTS
  TypeOK
  WaitingIsListenedTo
  ListenerInUse
  SessionExclusive
  ClosingIsRemembered
PROPERTIES
  AbortsOnlyWithoutLink
  ClosingEnds
  ReplyArrives
