CONSTANTS
  Paths <- MCPaths
  Ints = {0, 96}
  Strs = {"96", "abc", "2000"}
  Files = {f1}
  CmdArgs = {"96", "abc", "2000"}
  ParseInt <- MCParseInt
  NULL = NULL
  MISSING = MISSING
SPECIFICATION Spec
INVARIANT TypeOK
