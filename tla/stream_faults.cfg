SPECIFICATION Spec
CONSTANTS
  s1 = s1
  s2 = s2
  s3 = s3
  p1 = p1
  None = None
  Stream <- MCStream2
  Plain <- MCPlain
  CanTimeOut = TRUE
  CanFail = TRUE
INVARIANTS
  TypeOK
  TurnsKept
  SettledUnlessMarkFails
PROPERTIES
  CompletedStays
  InterruptTakesEffect
  EveryRequestEnds
