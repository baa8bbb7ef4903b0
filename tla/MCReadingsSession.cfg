SPECIFICATION Spec
CONSTANTS
  Clients = {p}
  Capacity = 2
  MaxReadings = 3
  Second = 2
  MaxTime = 2
PROPERTIES WholeRecording
