SPECIFICATION Spec
CONSTANTS
  p1 = p1
  p2 = p2
  p3 = p3
  event = event
  request = request
  other = other
  Pattern = {p1}
  Declarations <- OneHandler
  Delivery = {event}
  PatternOf <- OnePattern
  Kind <- EventsAndRequests
  PeekLock = {p1}
  AutoComplete = {p1}
  CloseHasLimit = TRUE
  AsyncDeserializer = FALSE
  MayOverlap = TRUE
  MaxReceivers = 2
  MaxCloses = 2
CHECK_DEADLOCK FALSE
INVARIANT ReceiversAreKnown
