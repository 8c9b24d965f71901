------------------------------ MODULE Topology ------------------------------
(***************************************************************************)
(* The place of a process in the logical grid: the table of processes and  *)
(* the search for the processes around it, in both variants of the code.   *)
(* With MPI_TOPOLOGY_OPT the grid is a torus and MPI is asked for          *)
(* positions; without it the table is.                                     *)
(*                                                                         *)
(* Rows, columns and ranks start from 0.                                   *)
(***************************************************************************)
EXTENDS Integers, SequencesExt

CONSTANTS
  MaxRows, MaxCols,  \* bounds: the largest grid
  TopologyOpt        \* the builds: a subset of BOOLEAN (MPI_TOPOLOGY_OPT)

ASSUME TopologyAssumption ==
  /\ MaxRows \in Nat \ {0} /\ MaxCols \in Nat \ {0}
  /\ TopologyOpt \subseteq BOOLEAN

VARIABLES
  rows, cols,   \* arguments of the program
  opt,          \* MPI_TOPOLOGY_OPT is defined
  rank,         \* this process
  process_tbl,  \* process_tbl[i][j]: the process in row i and column j
  neighbours,
  next          \* position of find_neighbours: which of the 9 offsets is next

topologyVars == <<rows, cols, opt, rank, process_tbl, neighbours, next>>
grid == <<rows, cols, opt, rank>>

Process == 0 .. rows * cols - 1
Row == 0 .. rows - 1
Col == 0 .. cols - 1

Empty == <<>>
Done == next = 9

TypeOK ==
  /\ rows \in 1 .. MaxRows /\ cols \in 1 .. MaxCols
  /\ opt \in TopologyOpt
  /\ rank \in Process
  /\ process_tbl = Empty \/ process_tbl \in [Row -> [Col -> Process]]
  /\ neighbours \in Seq(Process)
  /\ next \in 0 .. 9

\* The number of processes is rows * cols, as run.sh starts them.
TopologyInit ==
  /\ rows \in 1 .. MaxRows /\ cols \in 1 .. MaxCols
  /\ opt \in TopologyOpt
  /\ rank \in Process
  /\ process_tbl = Empty
  /\ neighbours = <<>>
  /\ next = 0

-----------------------------------------------------------------------------

\* A mistake: the length of a row in the place of that of a column.
Entry_Cols(i, j) == cols * j + i

\* Processes are numbered column by column.
Entry(i, j) == rows * j + i

initialise_process_table ==
  /\ process_tbl = Empty
  /\ process_tbl' = [i \in Row |-> [j \in Col |-> Entry(i, j)]]
  /\ UNCHANGED <<grid, neighbours, next>>

\* The offsets in the order in which both variants visit them.
ColOffset == (next \div 3) - 1
RowOffset == (next % 3) - 1

\* The position of this process in the table.
MyCol == rank \div rows
MyRow == rank - MyCol * rows

\* A mistake: > in the place of >=.
InTable_Strict(row, col) == 0 < row /\ row < rows /\ 0 < col /\ col < cols

InTable(row, col) == 0 <= row /\ row < rows /\ 0 <= col /\ col < cols

\* find_neighbours without MPI_TOPOLOGY_OPT: the next of its eight tests.
VisitTable ==
  /\ ~opt /\ process_tbl # Empty /\ ~Done
  /\ LET row == MyRow + RowOffset
         col == MyCol + ColOffset
     IN neighbours' =
          IF next # 4 /\ InTable(row, col)
          THEN Append(neighbours, process_tbl[row][col]) ELSE neighbours
  /\ next' = next + 1
  /\ UNCHANGED <<grid, process_tbl>>

(* MPI_Cart_coords and MPI_Cart_rank in the communicator that              *)
(* create_communicator makes: MPI numbers processes row by row, and both   *)
(* dimensions, rows and cols, are periodic.                                *)
CartCoords(r) == <<r \div cols, r % cols>>
CartRank(c) == (c[1] % rows) * cols + (c[2] % cols)

\* A mistake: the whole column of the process is skipped.
Skipped_Column == ColOffset = 0

(* What the loop skips is meant to be the process itself; the code         *)
(* compares its rank.                                                      *)
Skipped == ColOffset = 0 /\ rank = 0

\* A mistake: what std::find returns is not looked at.
Found_Never(p) == FALSE

\* std::find among the neighbours
Found(p) == Contains(neighbours, p)

\* find_neighbours with MPI_TOPOLOGY_OPT: one turn of its loop.
VisitTorus ==
  /\ opt /\ process_tbl # Empty /\ ~Done
  /\ LET c == CartCoords(rank)
         neighbour == CartRank(<<c[1] + ColOffset, c[2] + RowOffset>>)
     IN neighbours' =
          IF Skipped \/ Found(neighbour)
          THEN neighbours ELSE Append(neighbours, neighbour)
  /\ next' = next + 1
  /\ UNCHANGED <<grid, process_tbl>>

TopologyNext == initialise_process_table \/ VisitTable \/ VisitTorus

TopologySpec == TopologyInit /\ [][TopologyNext]_topologyVars

-----------------------------------------------------------------------------
(* Properties *)

(* Every process is in the table, and find_neighbours computes the         *)
(* position of this one that initialise_process_table gave it.             *)
PositionInTable ==
  process_tbl # Empty =>
    /\ InTable(MyRow, MyCol) /\ process_tbl[MyRow][MyCol] = rank
    /\ \A p \in Process : \E i \in Row, j \in Col : process_tbl[i][j] = p

\* Process p is in the table, at most 1 row and 1 column from this process.
Near(p) ==
  \E i \in Row, j \in Col, i2 \in Row, j2 \in Col :
    /\ process_tbl[i][j] = rank /\ process_tbl[i2][j2] = p
    /\ i - i2 \in -1 .. 1 /\ j - j2 \in -1 .. 1

\* The same in the table of a torus.
NearOnTorus(p) ==
  \E i \in Row, j \in Col, i2 \in Row, j2 \in Col :
    /\ process_tbl[i][j] = rank /\ process_tbl[i2][j2] = p
    /\ \E a, b \in -1 .. 1 : (i + a) % rows = i2 /\ (j + b) % cols = j2

\* Positions i and k of a ring of n are at most 1 apart.
Adjacent(i, k, n) == (i - k) % n \in {0, 1, n - 1}

\* Process p is at most 1 away in both dimensions of the communicator.
Surrounds(p) ==
  LET c == CartCoords(rank)
      d == CartCoords(p)
  IN Adjacent(c[1], d[1], rows) /\ Adjacent(c[2], d[2], cols)

(* Without MPI_TOPOLOGY_OPT the neighbours are "the processes that         *)
(* surround the current MPI node in the aforementioned table".             *)
SurroundingProcesses ==
  ~opt /\ Done => ToSet(neighbours) = {p \in Process \ {rank} : Near(p)}

(* With it every neighbour is a process that surrounds this one on the     *)
(* torus of the communicator, and every process but 0 finds all of those,  *)
(* on every grid.  (What Skipped does to the list beyond that, and the     *)
(* numbering of the table, are the subject of SurroundingOnTorus.)         *)
TorusNeighbours ==
  opt /\ Done =>
    LET around == {p \in Process \ {rank} : Surrounds(p)}
    IN /\ ToSet(neighbours) \ {rank} \subseteq around
       /\ rank # 0 => around \subseteq ToSet(neighbours)

(* "Find the processes that surround the current MPI node in the           *)
(* aforementioned table.  This method considers the topology a torus."     *)
(* "Don't add the current MPI process in the list of neighbours."          *)
SurroundingOnTorus ==
  opt /\ Done /\ rows > 1 /\ cols > 1 =>
    ToSet(neighbours) = {p \in Process \ {rank} : NearOnTorus(p)}

(* "each neighbour is added only once": also on small tori, where several  *)
(* offsets lead to the same process.                                       *)
EachOnce == Cardinality(ToSet(neighbours)) = Len(neighbours)

=============================================================================
