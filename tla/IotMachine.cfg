SPECIFICATION Spec
CONSTANTS
  Reboot = 1
  Halt = 1
  MaxHolds = 2
  Interval = 2
  Timeout = 3
  StopTimeout = 3
  Slack = 0
  MaxFaults = 1
INVARIANTS
  TypeOK
  RunsNeedHolds
  StopDisarms
PROPERTIES
  ResetHasCause
  KillIsForgotten
  HungIsReset
  ArmedAgain
  HoldRuns
  HoldTurnsOff
