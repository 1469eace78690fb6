\* Symbols of up to three arguments of the shapes whose offsets the code and the
\* spec read alike.
CONSTANTS
  ArgShape <- MCStructuralArgShape
  MaxArgs = 3
  Width = 8
SPECIFICATION Spec
CHECK_DEADLOCK FALSE
INVARIANT MalformedArgFatal
