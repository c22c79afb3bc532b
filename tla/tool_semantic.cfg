SPECIFICATION Spec
CONSTANTS
  t1 = t1
  t2 = t2
  t3 = t3
  Tool <- MCTool2
  MaxIter = 2
  Strategy = "semantic_complete"
  CanBreak = FALSE
INVARIANT LastReturnInterrupts
