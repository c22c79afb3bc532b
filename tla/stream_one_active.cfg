SPECIFICATION Spec
CONSTANTS
  s1 = s1
  s2 = s2
  s3 = s3
  p1 = p1
  None = None
  Stream <- MCStream3
  Plain = {}
  CanTimeOut = FALSE
  CanFail = FALSE
INVARIANT OneActiveRequest
