SPECIFICATION Spec
CONSTANTS
  Limit = 30
  Commands = {"poweroff", "other"}
  Starters = {"systemd", "init"}
  Horizon = 33
INVARIANTS
  TypeOK
  NoChargeInLoss
  CommandInTime
PROPERTIES
  CommandIsDue
  ChargingResumes
