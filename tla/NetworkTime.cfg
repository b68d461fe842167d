SPECIFICATION Spec
CONSTANTS
  Tries = 3
  Timeout = 1
  Retry = 1
  Backlog = 2
INVARIANTS
  TypeOK
PROPERTIES
  ClockKept
  RtcKept
  NitzEnds
