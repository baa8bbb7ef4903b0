CONSTANTS
  Backlog = 1
  MaxConnect = 2
SPECIFICATION Spec
CHECK_DEADLOCK FALSE
PROPERTY ReconnectHeals
