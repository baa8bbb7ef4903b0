CONSTANTS
  Layout <- MCNoLine
  MaxAsked = 4
SPECIFICATION Spec
CHECK_DEADLOCK FALSE
PROPERTY AnswerReturned
