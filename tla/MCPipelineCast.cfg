\* One cast into a memory location read from a register.
CONSTANTS
  MemAddr <- MCMemAddr
  DefHead <- MCCastHead
  DefOperand <- MCRegOperand
  JmpShape <- MCHintShape
  MaxDefs = 1
  MaxJmps = 0
INIT PInit
NEXT PNext
CHECK_DEADLOCK FALSE
INVARIANT MemoryWritesAreStores
