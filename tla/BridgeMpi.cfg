\* One bridge on each process, no threaded sends, both ways of receiving.
CONSTANTS
  Size = 2
  NServices = 2
  IdSpan = 16384
  Packet = {1, 2, 3, 4}
  Source <- SerialSource
  To <- SerialTo
  ReturnTo <- SerialReturnTo
  Dresp <- SerialDresp
  NBridges = 1
  ThreadedSend = FALSE
  MpiVersion = {2, 3}
SPECIFICATION MpiSpec
INVARIANTS InOrder OwnArray
PROPERTIES EveryPacketArrives ImplementsBridge
\* The workload is finite: once every packet is stored, nothing is left to do.
CHECK_DEADLOCK FALSE
