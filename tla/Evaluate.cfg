\* Three rounds of test_time_dresp, three bridges (the number in Types.h).
CONSTANTS
  Size = 2
  NServices = 2
  IdSpan = 16384
  Packet = {1, 2, 3, 4, 5, 6}
  Source <- RoundSource
  To <- RoundTo
  ReturnTo <- RoundReturnTo
  Dresp = {1, 2, 3}
  Answer <- RoundAnswer
  NBridges = 3
  ThreadedSend = FALSE
SPECIFICATION EvSpec
INVARIANTS AnswerOfThisRound RoundCoversArray OneArrayLeftByRound
PROPERTY TestEnds
\* The test ends.
CHECK_DEADLOCK FALSE
