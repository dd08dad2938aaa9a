SPECIFICATION Spec
CONSTANTS
  ANY = ANY
  WEAK = WEAK
  w1 = w1
  w2 = w2
  NChunks = 2
  Slots = 1
  Types = {ANY}
  WeakTypes = {}
  Holds <- HoldsAny
  Disposables = {ANY}
  Fields = {"item"}
  Words = {w1, w2}
  Globals = {}
  Garbage = {"unmarked"}
  Strategy = "default"
  CeilAtStart = 4
  FsocLimit = 4
  LargeStack = {FALSE}
  DisposeBeforeExit = TRUE
  Ops = {"assign", "load", "leave", "collect", "exit"}
  SwitchAt = {3}
  MaxCollections = 2
  MaxNew = 3
SYMMETRY WordSymmetry
INVARIANTS NoDangling
