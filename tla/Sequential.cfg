\* node_ids around every boundary: one process, 13, 14, 16 bits, all tiles.
\* Process 588 has the tile that the Transceiver makes of a To field of 0.
\* Both variants of the search, all grids up to 4 rows and 5 columns.
CONSTANTS
  Size = 2000
  NServices = 9
  Sender = {0, 588, 1999}
  Type = {6, 8}
  NodeId = {1, 9, 10, 8191, 8192, 16383, 16384, 18000, 18001, 65535, 65536, 65537}
  MaxRows = 4
  MaxCols = 5
  TopologyOpt = {TRUE, FALSE}
SPECIFICATION BothSpec
INVARIANTS FieldsKept DestInRange TagsAgree TagTellsApart AnswerComesBack
INVARIANTS TypeOK PositionInTable SurroundingProcesses TorusNeighbours EachOnce
\* The packet has arrived, the search ends.
CHECK_DEADLOCK FALSE
