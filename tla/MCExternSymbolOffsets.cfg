\* Symbols of up to two stack arguments whose offset text combines "0x" and a sign.
CONSTANTS
  ArgShape <- MCOffsetArgShape
  MaxArgs = 2
  Width = 8
SPECIFICATION Spec
CHECK_DEADLOCK FALSE
INVARIANT OffsetsResolveAsWritten
