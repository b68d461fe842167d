SPECIFICATION Spec
CONSTANTS
  Blocks = 4
  Chips = {"nor", "worn nor", "nand"}
INVARIANTS
  TypeOK
  SavedIsRestored
  DeletedIsGone
  CutIsPrefix
PROPERTIES
  KeepsArchive
  CallEnds
