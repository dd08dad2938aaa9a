SPECIFICATION Spec
CONSTANTS
  ANY = ANY
  WEAK = WEAK
  w1 = w1
  w2 = w2
  NChunks = 2
  Slots = 2
  Types = {ANY, WEAK}
  WeakTypes = {WEAK}
  Holds <- HoldsOne
  Disposables = {ANY}
  Fields = {"item"}
  Words = {w1, w2}
  Globals = {}
  Garbage = {"unmarked"}
  Strategy = "default"
  CeilAtStart = 2
  FsocLimit = 4
  LargeStack = {FALSE}
  DisposeBeforeExit = TRUE
  Ops = {"assign", "load", "leave", "collect", "exit"}
  SwitchAt = {3}
  MaxCollections = 2
  MaxNew = 3
SYMMETRY WordSymmetry
PROPERTIES WeakItemKept
