\* One subagent that two callers dispose of.
SPECIFICATION Spec
CONSTANTS
  Sessions = {s1}
  Disposers = {d1, d2}
  ChanCap = 1
  MaxMessages = 1
INVARIANT ClosedOnce
CHECK_DEADLOCK FALSE
