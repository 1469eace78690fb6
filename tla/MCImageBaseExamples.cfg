\* The two examples of spec section 8, and the same image bases written
\* without the 0x prefix.
CONSTANTS
  ImageBases <- MCImageBases
  BinaryBases <- MCBinaryBases
  Width = 24
SPECIFICATION Spec
CHECK_DEADLOCK FALSE
INVARIANT OffsetExamples
