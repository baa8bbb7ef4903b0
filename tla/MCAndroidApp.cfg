CONSTANTS
  MaxStarts = 2
  Pages <- MCPages
  FilePages <- MCFilePages
  Timers = {t1, t2}
  Sockets = {s1, s2}
SPECIFICATION Spec
INVARIANTS TypeOK NothingLeft OwnProcess OneLoad OnePursuit
PROPERTIES PageLoads PageReconnects
CHECK_DEADLOCK FALSE
