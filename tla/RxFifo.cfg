\* Two producers and the consumer.
CONSTANTS
  Producer = {p1, p2}
  Consumer = c
  Nobody = nobody
  PushLimit = 2
SPECIFICATION FairSpec
INVARIANTS TypeOK StatusAgrees NeverBlocksInPop FirstInFirstOut
PROPERTY EveryPacketPopped
\* The producers push a bounded number of packets; the consumer then waits.
CHECK_DEADLOCK FALSE
