SPECIFICATION Spec
CONSTANTS
  Limit = 3
  Commands = {"other"}
  Starters = {"init"}
  Horizon = 6
INVARIANT
  LossRunsCommand
