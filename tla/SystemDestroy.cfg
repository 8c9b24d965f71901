\* The destructor destroys killed_threads_lock while its last user holds it.
CONSTANTS
  NBridges = 2
  Tile = {t1, t2}
  Evaluate = FALSE
  SendLimit = 3
  MsgLimit = 2
SPECIFICATION Spec
INVARIANT LocksOutliveUse
\* The System stops when the destructor has returned.
CHECK_DEADLOCK FALSE
