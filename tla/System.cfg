\* Two bridges, two tiles that send.
CONSTANTS
  NBridges = 2
  Tile = {t1, t2}
  Evaluate = FALSE
  SendLimit = 3
  MsgLimit = 2
SPECIFICATION FairSpec
INVARIANTS TypeOK ReadyBeforeUse BridgeInRange NoIncrementLost ThreadsStopped
PROPERTY DestructorReturns
\* The System stops when the destructor has returned.
CHECK_DEADLOCK FALSE
