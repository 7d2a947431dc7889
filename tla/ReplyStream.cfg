SPECIFICATION FairSpec
CONSTANT MaxValues = 4
CHECK_DEADLOCK FALSE
INVARIANTS
  TypeOK
  GapFree
  NoFalseEnd
  OneReplyForOldClients
  SettledAsAnswered
PROPERTIES
  NothingStartsAfterCut
  ResponseIsOver
  ClientHearsTheEnd
