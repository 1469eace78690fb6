CONSTANTS
  MemAddr <- MCMemAddr
  DefHead <- MCDefHead
  DefOperand <- MCDefOperand
  JmpShape <- MCJmpShape
  MaxDefs = 2
  MaxJmps = 2
SPECIFICATION Spec
CHECK_DEADLOCK FALSE
INVARIANTS
  TypeOK
  NoImplicitLoads
  LoadsFeedTheirUses
  UniqueTids
