\* THREADED_SEND, two bridges on each process.
CONSTANTS
  Size = 2
  NServices = 2
  IdSpan = 16384
  Packet = {1, 2, 3, 4}
  Source <- MixSource
  To <- MixTo
  ReturnTo <- MixReturnTo
  Dresp <- MixDresp
  NBridges = 2
  ThreadedSend = TRUE
SPECIFICATION FairSpec
INVARIANTS TypeOK RightTile SameFlow ExactlyOnce ArrayOwnership NoOrphanWait
PROPERTIES TransportSpec EveryPacketArrives
\* The workload is finite: once every packet is stored, nothing is left to do.
CHECK_DEADLOCK FALSE
