SPECIFICATION Spec
CONSTANTS
  c1 = c1
  c2 = c2
  Call <- MCCall1
PROPERTY AcceptedOnlyWhileWaiting
