SPECIFICATION Spec
CONSTANTS
  Schemes = {"flag", "counter"}
  MaxCalls = 3
INVARIANTS
  TypeOK
  HealthyBoots
  ChangeIsSelected
PROPERTIES
  EnvironmentSurvives
