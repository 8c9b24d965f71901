\* Two packets with one tag, two bridges: an array may go to the other packet.
CONSTANTS
  Size = 2
  NServices = 2
  IdSpan = 16384
  Packet = {1, 2, 3}
  Source <- PairSource
  To <- PairTo
  ReturnTo <- PairReturnTo
  Dresp <- PairDresp
  NBridges = 2
  ThreadedSend = TRUE
SPECIFICATION Spec
INVARIANT OwnArray
\* The workload is finite: once every packet is stored, nothing is left to do.
CHECK_DEADLOCK FALSE
