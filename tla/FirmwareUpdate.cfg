SPECIFICATION Spec
CONSTANTS
  Versions = {v1, v2}
  Factory = v1
  Tries = 2
  Arm = FALSE
  Md5Kinds = {"listed", "unlisted"}
INVARIANTS
  TypeOK
  ReleaseVouches
  OkIsDurable
PROPERTIES
  CheckedBeforeTouched
  RunEnds
