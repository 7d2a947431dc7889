SPECIFICATION FairSpec
CONSTANTS
  s1 = s1
  s2 = s2
  MaxTimer = 4
  Default = 2
  Send = {s1, s2}
CHECK_DEADLOCK FALSE
INVARIANTS
  TypeOK
  BackInTime
PROPERTIES
  NotCutEarly
  ComesBack
