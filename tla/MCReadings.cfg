SPECIFICATION Spec
CONSTANTS
  Clients = {p}
  Capacity = 2
  MaxReadings = 3
  Second = 1
  MaxTime = 1
INVARIANTS TypeOK Unbroken ShownIsLogged
PROPERTIES ExportIsRecent FeedsInOrder CatchesUp
