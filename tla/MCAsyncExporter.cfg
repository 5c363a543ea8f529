CONSTANTS
  Entry = {e1, e2, e3, e4, e5}
  Worker = {w1, w2}
  QueueCap = 2
  Nothing = Nothing
SPECIFICATION Spec
INVARIANTS PendingBounded EntriesConserved CleanExitDrains
PROPERTIES CloseReturns
CHECK_DEADLOCK FALSE
