CONSTANTS
  UberblocksCount = 2
  ZfsWant = 4
  DevSizes <- MCDevSizes
  NvLists <- MCNvLists
SPECIFICATION Spec
INVARIANT TypeOK
INVARIANT ProbeMatchesReference
INVARIANT UberblockReported
INVARIANT MatchedLabelOnSlot
INVARIANT NvlistReadsInBounds
INVARIANT NvlistMatchesReference
CHECK_DEADLOCK FALSE
