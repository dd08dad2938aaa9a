SPECIFICATION Spec
CONSTANTS
  ANY = ANY
  WEAK = WEAK
  w1 = w1
  w2 = w2
  NChunks = 2
  Slots = 2
  Types = {ANY, WEAK}
  WeakTypes = {WEAK}
  Holds <- HoldsAny
  Disposables = {ANY}
  Fields = {"item"}
  Words = {w1}
  Globals = {"once"}
  Garbage = {"next"}
  Strategy = "default"
  CeilAtStart = 1
  FsocLimit = 2
  LargeStack = {FALSE}
  DisposeBeforeExit = TRUE
  Ops = {"assign", "load", "leave", "collect", "exit", "once", "switch"}
  SwitchAt = {3}
  MaxCollections = 2
  MaxNew = 4
INVARIANTS NoDangling HeapPartition DisposedOnce CollectorInv
PROPERTIES WeakItemKept CollectExact ImplementsManagedHeap ExitReclaimsAll CollectionEnds
