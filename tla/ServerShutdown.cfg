SPECIFICATION Spec
CONSTANTS
  p1 = p1
  p2 = p2
  p3 = p3
  event = event
  request = request
  other = other
  Pattern = {p1, p2, p3}
  Declarations <- HybridApplications
  Delivery = {event, request, other}
  PatternOf <- TwoPatterns
  Kind <- EventsAndRequests
  PeekLock = {p1, p2}
  AutoComplete = {p1}
  CloseHasLimit = TRUE
  AsyncDeserializer = FALSE
  MayOverlap = FALSE
  MaxReceivers = 3
  MaxCloses = 2
CHECK_DEADLOCK FALSE
INVARIANTS
  TypeOK
  ReceiversAreKnown
  ClosedIsQuiet
  SettledWhereReceived
  HandlersAreServed
PROPERTIES
  CutIsLeftUnsettled
