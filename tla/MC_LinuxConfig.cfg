CONSTANTS
  Paths <- MainPaths
  Stores <- MainStores
  Ints = {1, 2}
  Strs = {"k", "long"}
  LongStrs = {"long"}
  MemSlots = 1
  Key <- MCKey
  PcdRegion <- MCPcdRegion
  NULL = NULL
  MISSING = MISSING
SPECIFICATION Spec
INVARIANT TypeOK
INVARIANT ConfigMatchesStore
