SPECIFICATION Spec
CONSTANTS
  Handlers = {h1, h2}
  NoHandler = NoHandler
  Registers = {1, 2, 3}
  Holding <- Table
  Capabilities = {"quick_charge"}
  Blocks <- TwoBlocks
  Bodies <- PutBodies
  ValueLists <- TwoLists
  Tries = 2
  Attempts = 2
  MaxQueue = 1
  MaxWire = 2
SYMMETRY Symmetry
INVARIANTS
  TypeOK
  WrittenWasTrue
  ReadWasTrue
