CONSTANTS
  MaxStarts = 2
  Pages <- MCPages
  FilePages <- MCFilePages
  Timers = {t1, t2}
  Sockets = {s1, s2}
SPECIFICATION Spec

PROPERTY ServedPageConnects
CHECK_DEADLOCK FALSE
