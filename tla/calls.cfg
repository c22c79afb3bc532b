SPECIFICATION PathSpec
CONSTANTS
  a = a
  b = b
  Plans <- MCPlans
  Ids <- MCIds
  c1 = c1
  c2 = c2
  t1 = t1
  t2 = t2
  t3 = t3
  None = None
  Caller <- MCCaller
  Tool <- MCTool
  MaxIter = 2
  Strategy = "immediate"
  CanBreak = TRUE
  Known <- MCKnown
  Word <- MCWord
  Answers <- MCAnswers
  Outside = "content"
  Threadings <- MCThreadings
  MaxConfigs = 2
INVARIANTS
  PathTypes
  CutsDoNotMatter
  CountsAgree
  NoLostWakeup
  ResultsBehindCalls
  HandedWhole
  OneDone
  OneAtATimeUnlessHasty
  OwnAnswer
PROPERTIES
  CalledWithWholeRounds
  RunEnds
  UsesToolCalls
  ImplementsToolCalls
  CallsReturn
