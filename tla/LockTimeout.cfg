SPECIFICATION LockSpec
CONSTANTS
  Nobody = none
  Main = m
  Workers = {w1}
  Turns = 1
  Notifiers = {"notify"}
  Uses = {"timed_wait"}
  Timeouts = {2}
  MaxSpurious = 2
  Start = 4
  End = 8
PROPERTY FalseIfTimedOut
CHECK_DEADLOCK FALSE
