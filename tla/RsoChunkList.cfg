SPECIFICATION Spec
CONSTANTS
  CHARS = CHARS
  REALS = REALS
  RSOC_SIZE = 8
  RSOC_MIN_STORE = 3
  Overhead = 1
  Memory = 24
  Places = {1, 9, 17}
  Types = {CHARS}
  Sizes <- SizesOfTwo
  NWords = 2
  Ints = {4}
  Fields = {}
  Strategy = "default"
  CeilAtStart = 2
  RSOC_LIMIT = 2
  LargeStack = {FALSE}
  MayFreeMin = 1
  Ops = {"leave", "collect", "exit"}
  MaxCollections = 2
  MaxNew = 4
INVARIANTS ChunkListHasAll
