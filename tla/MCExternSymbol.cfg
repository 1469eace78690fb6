\* Symbols of up to three arguments of every shape of MCExternSymbol.
CONSTANTS
  ArgShape <- MCArgShape
  MaxArgs = 3
  Width = 8
SPECIFICATION Spec
CHECK_DEADLOCK FALSE
INVARIANT ArgumentPartition
