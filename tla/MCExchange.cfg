CONSTANTS
  Layout <- MCLayout
  MaxAsked = 4
SPECIFICATION Spec
CHECK_DEADLOCK FALSE
INVARIANTS TypeOK OneAnswer
PROPERTIES CleanReads ReturnsByLine ExchangesEnd AnswersInOrder
