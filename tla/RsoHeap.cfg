SPECIFICATION Spec
CONSTANTS
  CHARS = CHARS
  REALS = REALS
  RSOC_SIZE = 8
  RSOC_MIN_STORE = 3
  Overhead = 1
  Memory = 24
  Places = {1, 9}
  Types = {CHARS, REALS}
  Sizes <- SizesOfTwo
  NWords = 1
  Ints = {4}
  Fields = {f}
  Strategy = "default"
  CeilAtStart = 1
  RSOC_LIMIT = 2
  LargeStack = {TRUE, FALSE}
  MayFreeMin = 1
  Ops = {"leave", "collect", "assign", "switch", "exit"}
  MaxCollections = 2
  MaxNew = 3
INVARIANTS ArraysSafe HeapTiled ChunkTable NoDangling
PROPERTIES CollectExact ContentsKept Compacted NewNaReturns
