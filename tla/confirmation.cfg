SPECIFICATION Spec
CONSTANTS
  c1 = c1
  c2 = c2
  Call <- MCCall2
INVARIANTS
  TypeOK
  OnlyApprovedRuns
  OutcomeIsTrue
PROPERTY EveryCallEnds
