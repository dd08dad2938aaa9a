SPECIFICATION Spec
CONSTANTS
  ANY = ANY
  WEAK = WEAK
  w1 = w1
  w2 = w2
  NChunks = 2
  Slots = 2
  Types = {ANY, WEAK}
  WeakTypes = {WEAK}
  Holds <- HoldsAny
  Disposables = {ANY}
  Fields = {"item"}
  Words = {w1}
  Globals = {"once"}
  Garbage = {"unmarked", "next"}
  Strategy = "default"
  CeilAtStart = 1
  FsocLimit = 2
  LargeStack = {TRUE, FALSE}
  DisposeBeforeExit = TRUE
  Ops = {"assign", "load", "leave", "collect", "exit", "once", "switch"}
  SwitchAt = {2}
  MaxCollections = 2
  MaxNew = 3
INVARIANTS TypeOK NoDangling HeapPartition FsocWithinCeil
PROPERTIES ExitReclaimsAll CollectionEnds
