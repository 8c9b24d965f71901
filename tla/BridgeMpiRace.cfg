\* Before MPI 3 with two bridges: both threads probe one message.
CONSTANTS
  Size = 2
  NServices = 2
  IdSpan = 16384
  Packet = {1, 2, 3}
  Source <- PairSource
  To <- PairTo
  ReturnTo <- PairReturnTo
  Dresp <- PairDresp
  NBridges = 2
  ThreadedSend = FALSE
  MpiVersion = {2}
SPECIFICATION MpiSpec
INVARIANT GetsWhatItProbed
\* The workload is finite: once every packet is stored, nothing is left to do.
CHECK_DEADLOCK FALSE
