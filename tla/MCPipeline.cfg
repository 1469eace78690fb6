\* Blocks of at most one def and one jump over every shape of MCPipeline.
CONSTANTS
  MemAddr <- MCMemAddr
  DefHead <- MCDefHead
  DefOperand <- MCDefOperand
  JmpShape <- MCJmpShape
  MaxDefs = 1
  MaxJmps = 1
INIT PInit
NEXT PNext
CHECK_DEADLOCK FALSE
INVARIANT PanicsExactlyOnMalformed
