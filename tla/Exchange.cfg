SPECIFICATION FairSpec
CONSTANTS
  MaxValues = 2
  Payload <- Payloads
CHECK_DEADLOCK FALSE
INVARIANTS
  TypeOK
  ValuesIntact
  TakenIsAccountedFor
PROPERTIES
  ImplementsResponse
  CallIsAnswered
