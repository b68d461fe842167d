SPECIFICATION Spec
CONSTANTS
  Schemes = {"flag"}
  MaxCalls = 3
PROPERTY
  SourceIsValid
