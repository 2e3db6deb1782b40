CONSTANTS
  Components = {"a", "b"}
  Keys <- MCKeys
  MaxCount = 3
SPECIFICATION Spec
INVARIANT TreeOK
INVARIANT AnswersAgree
PROPERTY ImplementsAbstractTree
