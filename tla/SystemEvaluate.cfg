\* With EVALUATE a receiving thread answers before the System is constructed.
CONSTANTS
  NBridges = 2
  Tile = {t1, t2}
  Evaluate = TRUE
  SendLimit = 3
  MsgLimit = 2
SPECIFICATION Spec
INVARIANT ReadyBeforeUse
\* The System stops when the destructor has returned.
CHECK_DEADLOCK FALSE
