CONSTANTS
  Kinds <- AllKinds
  MaxLines = 3
  FinalNewline = TRUE
SPECIFICATION Spec
INVARIANT TypeOK
INVARIANT ReadFileMatchesReference
CHECK_DEADLOCK FALSE
