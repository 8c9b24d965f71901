\* MPI_TOPOLOGY_OPT: what find_neighbours finds is not what surrounds a process.
CONSTANTS
  MaxRows = 4
  MaxCols = 5
  TopologyOpt = {TRUE}
SPECIFICATION TopologySpec
INVARIANT SurroundingOnTorus
\* The search ends.
CHECK_DEADLOCK FALSE
