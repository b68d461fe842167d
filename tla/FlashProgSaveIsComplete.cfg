SPECIFICATION Spec
CONSTANTS
  Blocks = 3
  Chips = {"nand"}
INVARIANT
  SaveIsComplete
