CONSTANTS
  RegisterProperties <- MCRegisterProperties
  Programs <- MCPrograms
  CallingConventions <- MCCallingConventions
SPECIFICATION Spec
CHECK_DEADLOCK FALSE
INVARIANTS
  TypeOK
  AliasFree
  ZextRemovedExactly
