CONSTANTS
  a1 = a1
  a2 = a2
  Addr <- MCAddr
  NumSubs = 2
  MaxBlocks = 3
  Jmps <- MCJmps
SPECIFICATION Spec
CHECK_DEADLOCK FALSE
INVARIANTS
  TypeOK
  NoLiftPanic
  EntryBlockInvariant
PROPERTIES
  ConversionRefinement
