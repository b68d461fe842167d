SPECIFICATION Spec
CONSTANTS
  Values = {rom, mine, yours}
  Default = rom
INVARIANT
  TypeOK
PROPERTIES
  SettingsSurvive
  DoneIsSaved
