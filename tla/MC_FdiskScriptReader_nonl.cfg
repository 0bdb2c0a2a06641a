CONSTANTS
  Kinds <- AllKinds
  MaxLines = 3
  FinalNewline = FALSE
SPECIFICATION Spec
INVARIANT ReadFileMatchesReference
CHECK_DEADLOCK FALSE
