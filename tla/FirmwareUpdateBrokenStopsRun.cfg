SPECIFICATION Spec
CONSTANTS
  Versions = {v1, v2}
  Factory = v1
  Tries = 5
  Arm = FALSE
  Md5Kinds = {"listed"}
PROPERTY
  BrokenStopsRun
