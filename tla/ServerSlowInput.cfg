SPECIFICATION FairSpec
CONSTANTS
  p1 = p1
  p2 = p2
  p3 = p3
  event = event
  request = request
  other = other
  Pattern = {p1}
  Declarations <- OneHandler
  Delivery = {event, request}
  PatternOf <- OnePattern
  Kind <- EventsAndRequests
  PeekLock = {p1}
  AutoComplete = {p1}
  CloseHasLimit = TRUE
  AsyncDeserializer = TRUE
  MayOverlap = FALSE
  MaxReceivers = 2
  MaxCloses = 2
CHECK_DEADLOCK FALSE
PROPERTIES
  NotClosedUnderReplies
  CloseEnds
