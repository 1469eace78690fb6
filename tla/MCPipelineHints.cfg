\* Blocks of up to two direct branches that differ in their hint lists.
CONSTANTS
  MemAddr <- MCMemAddr
  DefHead <- MCDefHead
  DefOperand <- MCDefOperand
  JmpShape <- MCHintShape
  MaxDefs = 0
  MaxJmps = 2
INIT PInit
NEXT PNext
CHECK_DEADLOCK FALSE
INVARIANT HintsFromFirstNonEmpty
