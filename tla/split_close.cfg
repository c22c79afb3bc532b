SPECIFICATION Spec
CONSTANTS
  Known <- MCKnown
  Word <- MCWord
  Answers <- MCOneCall
  Outside = "content"
INVARIANT SplitTagsWork
