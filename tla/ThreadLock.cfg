SPECIFICATION LockSpec
CONSTANTS
  Nobody = none
  Main = m
  Workers = {w1, w2, w3}
  Turns = 2
  Notifiers = {"notify", "notify_all"}
  Uses = {"wait", "timed_wait"}
  Timeouts = {0, 2}
  MaxSpurious = 2
  Start = 4
  End = 5
INVARIANTS LockerOwnsMutex LockContracts
PROPERTY MainGetsThrough
CHECK_DEADLOCK FALSE
