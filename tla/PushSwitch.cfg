SPECIFICATION Spec
CONSTANTS
  Reboot = 10
  Halt = 25
  Backlog = 6
  Restarts = 1
INVARIANTS
  TypeOK
  StopNeedsHold
PROPERTIES
  LongHoldStops
  LedsSettle
