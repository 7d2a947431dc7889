SPECIFICATION Spec
CONSTANTS
  r1 = r1
  r2 = r2
  r3 = r3
  q1 = q1
  q2 = q2
  m1 = m1
  m2 = m2
  m3 = m3
  foreign = foreign
  InvalidId = InvalidId
  Request = {r1, r2, r3}
  Queue = {q1, q2}
  Reply = {m1, m2, m3}
  RequestQueue <- TwoQueueRequests
  ReplyQueue <- TwoQueueReplies
  CorrelationId <- MixedReplies
  Sessions = FALSE
  FinishedLimit = 1
  MaxDeliveryCount = 2
  MaxListeners = 2
CHECK_DEADLOCK FALSE
INVARIANTS
  ReplyReachesItsRequest
  LateReplyIsOwn
