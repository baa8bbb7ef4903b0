CONSTANTS
  Backlog = 1
  MaxConnect = 2
SPECIFICATION Spec
CHECK_DEADLOCK FALSE
INVARIANTS TypeOK RunsOnBridge
PROPERTIES BridgeFollowsLink DestroyEnds
