--------------------------- MODULE TopologyProofs ---------------------------
(***************************************************************************)
(* For grids of any size: every process finds itself in the table, and     *)
(* without MPI_TOPOLOGY_OPT its neighbours are the processes around it;    *)
(* with it they are those around it on the torus of the communicator; in   *)
(* both variants each neighbour is added once.  Proofs about Topology.     *)
(***************************************************************************)
EXTENDS Topology, SequenceTheorems, FiniteSetTheorems, TLAPS

-----------------------------------------------------------------------------
(* Positions in a grid *)

\* What a quotient and a remainder are.
LEMMA DivisionProperties ==
  ASSUME NEW a \in Nat, NEW n \in Nat \ {0}
  PROVE  /\ a \div n \in Nat
         /\ (a \div n) * n <= a
         /\ a < (a \div n) * n + n
         /\ a % n \in 0 .. n - 1
BY Z3

\* Multiplying keeps the order: a rank below Size stays below it.
LEMMA ProductIsMonotonic ==
  ASSUME NEW q \in Nat, NEW s \in Nat, NEW n \in Nat \ {0}, q >= s
  PROVE  q * n >= s * n
BY Z3

\* There is at least one tile and one position in the grid.
LEMMA ProductIsPositive ==
  ASSUME NEW s \in Nat \ {0}, NEW n \in Nat \ {0}
  PROVE  s * n \in Nat \ {0}
BY Z3

\* The remainder of a number written as a multiple and a rest is that rest.
LEMMA Remainder ==
  ASSUME NEW n \in Nat \ {0}, NEW q \in Nat, NEW r \in 0 .. n - 1
  PROVE  (q * n + r) % n = r
BY Z3

\* A position in a grid has one number only: columns of n numbers do not overlap.
LEMMA PositionUnique ==
  ASSUME NEW n \in Nat \ {0}, NEW j \in Nat, NEW j2 \in Nat,
         NEW i \in 0 .. n - 1, NEW i2 \in 0 .. n - 1, n * j + i = n * j2 + i2
  PROVE  i = i2 /\ j = j2
<1>1. j < j2 => n * j + n <= n * j2
  BY Z3
<1>2. j2 < j => n * j2 + n <= n * j
  BY Z3
<1> DEFINE a == n * j
           b == n * j2
<1>3. a \in Nat /\ b \in Nat
  BY Z3
<1>4. ~(j < j2)
  <2> HIDE DEF a, b
  <2>1. a + i = b + i2 /\ (j < j2 => a + n <= b)
    BY <1>1 DEF a, b
  <2> QED
    BY <1>3, <2>1
<1>5. ~(j2 < j)
  <2> HIDE DEF a, b
  <2>1. a + i = b + i2 /\ (j2 < j => b + n <= a)
    BY <1>2 DEF a, b
  <2> QED
    BY <1>3, <2>1
<1>6. j = j2
  BY <1>4, <1>5
<1>7. i = i2
  <2> HIDE DEF a, b
  <2>1. a + i = b + i2 /\ a = b
    BY <1>6 DEF a, b
  <2> QED
    BY <1>3, <2>1
<1> QED
  BY <1>6, <1>7

\* A number below n * m is the number of one position of a grid.
LEMMA PositionOfNumber ==
  ASSUME NEW n \in Nat \ {0}, NEW m \in Nat \ {0}, NEW p \in 0 .. n * m - 1
  PROVE  /\ p \div n \in 0 .. m - 1
         /\ p - (p \div n) * n \in 0 .. n - 1
         /\ n * (p \div n) + (p - (p \div n) * n) = p
<1> DEFINE q == p \div n
<1>1. n * m \in Nat /\ p \in Nat
  BY Z3
<1>2. q \in Nat /\ q * n <= p /\ p < q * n + n /\ q * n \in Nat /\ n * q = q * n
  BY <1>1, Z3
<1> HIDE DEF q
<1>3. q >= m => q * n >= m * n
  BY <1>2, ProductIsMonotonic
<1>4. m * n = n * m
  BY Z3
<1>5. p < n * m
  BY <1>1
<1>6. q < m
  <2> DEFINE a == q * n
             b == n * m
  <2>1. a \in Nat /\ b \in Nat /\ a <= p /\ p < b /\ (q >= m => a >= b)
    BY <1>1, <1>2, <1>3, <1>4, <1>5
  <2> HIDE DEF a, b
  <2> QED
    BY <1>1, <1>2, <2>1
<1>7. p - q * n \in 0 .. n - 1 /\ n * q + (p - q * n) = p
  <2> DEFINE a == q * n
  <2>1. a \in Nat /\ a <= p /\ p < a + n /\ n * q = a
    BY <1>2
  <2> HIDE DEF a
  <2>2. p - a \in 0 .. n - 1 /\ a + (p - a) = p
    BY <1>1, <2>1
  <2> QED
    BY <2>1, <2>2 DEF a
<1> QED
  BY <1>2, <1>6, <1>7 DEF q

\* The number of a position of a grid is below n * m.
LEMMA NumberOfPosition ==
  ASSUME NEW n \in Nat \ {0}, NEW m \in Nat \ {0},
         NEW i \in 0 .. n - 1, NEW j \in 0 .. m - 1
  PROVE  n * j + i \in 0 .. n * m - 1
<1>1. n * j \in Nat /\ n * m \in Nat /\ n * j + n <= n * m
  BY Z3
<1> DEFINE a == n * j
           b == n * m
<1> HIDE DEF a, b
<1>2. a \in Nat /\ b \in Nat /\ a + n <= b
  BY <1>1 DEF a, b
<1>3. a + i \in 0 .. b - 1
  BY <1>2
<1> QED
  BY <1>3 DEF a, b

\* The same with the numbers going row by row.
LEMMA NumberInRows ==
  ASSUME NEW n \in Nat \ {0}, NEW m \in Nat \ {0},
         NEW i \in 0 .. n - 1, NEW j \in 0 .. m - 1
  PROVE  i * m + j \in 0 .. n * m - 1
<1>1. m * i + j \in 0 .. m * n - 1
  BY NumberOfPosition
<1>2. m * i = i * m /\ m * n = n * m
  BY Z3
<1> QED
  BY <1>1, <1>2

\* Positions on a torus are taken modulo its dimensions, also negative ones.
LEMMA RemainderOfInteger ==
  ASSUME NEW a \in Int, NEW n \in Nat \ {0}
  PROVE  a % n \in 0 .. n - 1
BY Z3

-----------------------------------------------------------------------------
(* Lists of neighbours *)

\* No element is twice in the sequence.
NoRepeat(s) == \A a, b \in DOMAIN s : s[a] = s[b] => a = b

(* Appending what is not there keeps a sequence without repeats.           *)
LEMMA AppendNew ==
  ASSUME NEW S, NEW s \in Seq(S), NEW e \in S
  PROVE  /\ Append(s, e) \in Seq(S)
         /\ ToSet(Append(s, e)) = ToSet(s) \cup {e}
         /\ NoRepeat(s) /\ e \notin ToSet(s) => NoRepeat(Append(s, e))
<1>1. /\ Append(s, e) \in Seq(S) /\ Len(Append(s, e)) = Len(s) + 1
      /\ \A i \in 1 .. Len(s) : Append(s, e)[i] = s[i]
      /\ Append(s, e)[Len(s) + 1] = e
  BY AppendProperties
<1>2. Len(s) \in Nat /\ DOMAIN s = 1 .. Len(s)
  BY LenProperties
<1>3. DOMAIN Append(s, e) = 1 .. Len(s) + 1
  BY <1>1, LenProperties
<1>4. ToSet(Append(s, e)) = ToSet(s) \cup {e}
  <2>1. \A i \in 1 .. Len(s) + 1 : i \in 1 .. Len(s) \/ i = Len(s) + 1
    BY <1>2
  <2>2. \A i \in 1 .. Len(s) : i \in 1 .. Len(s) + 1
    BY <1>2
  <2>3. Len(s) + 1 \in 1 .. Len(s) + 1
    BY <1>2
  <2> QED
    BY <1>1, <1>2, <1>3, <2>1, <2>2, <2>3 DEF ToSet
<1>5. ASSUME NoRepeat(s), e \notin ToSet(s),
             NEW a \in DOMAIN Append(s, e), NEW b \in DOMAIN Append(s, e),
             Append(s, e)[a] = Append(s, e)[b]
      PROVE  a = b
  <2>1. \A i \in DOMAIN s : s[i] # e
    BY <1>5 DEF ToSet
  <2>2. a \in DOMAIN s \/ a = Len(s) + 1
    BY <1>2, <1>3
  <2>3. b \in DOMAIN s \/ b = Len(s) + 1
    BY <1>2, <1>3
  <2> QED
    BY <1>1, <1>2, <1>5, <2>1, <2>2, <2>3 DEF NoRepeat
<1> QED
  BY <1>1, <1>4, <1>5 DEF NoRepeat

-----------------------------------------------------------------------------

\* The position that the offsets of turn k lead to.
RowOf(k) == MyRow + ((k % 3) - 1)
ColOf(k) == MyCol + ((k \div 3) - 1)

\* The turns before turn n that find a process around this one.
Hits(n) == {k \in 0 .. n - 1 : k # 4 /\ InTable(RowOf(k), ColOf(k))}

TableOK ==
  process_tbl # Empty =>
    process_tbl = [i \in Row |-> [j \in Col |-> Entry(i, j)]]

NotStarted == process_tbl = Empty => next = 0 /\ neighbours = <<>>

\* The neighbours are the processes that the turns so far have found.
Visited ==
  ~opt => ToSet(neighbours) = {Entry(RowOf(k), ColOf(k)) : k \in Hits(next)}

\* The process that turn k leads to on the torus.
TorusEntry(k) ==
  CartRank(<<CartCoords(rank)[1] + ((k \div 3) - 1), CartCoords(rank)[2] + ((k % 3) - 1)>>)

\* The turns before turn n that are not skipped.
Taken(n) == {k \in 0 .. n - 1 : ~(k \div 3 = 1 /\ rank = 0)}

VisitedTorus == opt => ToSet(neighbours) = {TorusEntry(k) : k \in Taken(next)}

Inv == TypeOK /\ TableOK /\ NotStarted /\ Visited /\ VisitedTorus /\ NoRepeat(neighbours)

-----------------------------------------------------------------------------
(* Positions *)

\* The dimensions are natural numbers, their product that of processes.
LEMMA GridTypes ==
  ASSUME TypeOK
  PROVE  rows \in Nat \ {0} /\ cols \in Nat \ {0} /\ rank \in 0 .. rows * cols - 1
BY TopologyAssumption DEF TypeOK, Process

\* The position that find_neighbours computes is the one of this process.
LEMMA MyPosition ==
  ASSUME TypeOK
  PROVE  /\ MyRow \in Row /\ MyCol \in Col /\ Entry(MyRow, MyCol) = rank
         /\ Row = 0 .. rows - 1 /\ Col = 0 .. cols - 1 /\ Row \subseteq Nat /\ Col \subseteq Nat
<1>1. /\ rank \div rows \in 0 .. cols - 1
      /\ rank - (rank \div rows) * rows \in 0 .. rows - 1
      /\ rows * (rank \div rows) + (rank - (rank \div rows) * rows) = rank
  BY GridTypes, PositionOfNumber
<1> QED
  BY <1>1 DEF MyRow, MyCol, Row, Col, Entry

\* An entry of the table is a process, and no process has two entries.
LEMMA EntryIsProcess ==
  ASSUME TypeOK, NEW i \in Row, NEW j \in Col
  PROVE  /\ Entry(i, j) \in Process
         /\ \A i2 \in Row, j2 \in Col :
              Entry(i, j) = Entry(i2, j2) => i = i2 /\ j = j2
<1>1. rows * j + i \in 0 .. rows * cols - 1
  BY GridTypes, NumberOfPosition DEF Row, Col
<1>2. ASSUME NEW i2 \in Row, NEW j2 \in Col, rows * j + i = rows * j2 + i2
      PROVE  i = i2 /\ j = j2
  <2>1. j \in Nat /\ j2 \in Nat /\ i \in 0 .. rows - 1 /\ i2 \in 0 .. rows - 1
    BY DEF Row, Col
  <2> QED
    BY <1>2, <2>1, GridTypes, PositionUnique
<1> QED
  BY <1>1, <1>2 DEF Entry, Process

\* Every process has an entry.
LEMMA ProcessHasEntry ==
  ASSUME TypeOK, NEW p \in Process
  PROVE  \E i \in Row, j \in Col : Entry(i, j) = p
<1> DEFINE j == p \div rows
           i == p - (p \div rows) * rows
<1>1. j \in 0 .. cols - 1 /\ i \in 0 .. rows - 1 /\ rows * j + i = p
  BY GridTypes, PositionOfNumber DEF Process
<1> HIDE DEF i, j
<1> QED
  BY <1>1 DEF Row, Col, Entry

\* What the table holds once it is made.
LEMMA TableEntries ==
  ASSUME TypeOK, TableOK, process_tbl # Empty
  PROVE  \A i \in Row, j \in Col : process_tbl[i][j] = Entry(i, j)
BY DEF TableOK

\* InTable says that a pair of numbers is a position.
LEMMA InTableIsPosition ==
  ASSUME TypeOK, NEW i \in Int, NEW j \in Int
  PROVE  InTable(i, j) <=> i \in Row /\ j \in Col
BY GridTypes DEF InTable, Row, Col

\* The turns stand for the nine pairs of offsets; turn 4 is the one in the middle.
LEMMA Turns ==
  /\ \A k \in 0 .. 8 : /\ k \div 3 \in 0 .. 2 /\ k % 3 \in 0 .. 2
                       /\ k = 3 * (k \div 3) + (k % 3)
                       /\ k \div 3 = 1 /\ k % 3 = 1 <=> k = 4
  /\ \A a, b \in 0 .. 2 : /\ 3 * b + a \in 0 .. 8
                          /\ (3 * b + a) \div 3 = b /\ (3 * b + a) % 3 = a
BY Z3

\* Each offset of find_neighbours leads to a pair of integers.
LEMMA TurnTypes ==
  ASSUME TypeOK, NEW k \in 0 .. 8
  PROVE  RowOf(k) \in Int /\ ColOf(k) \in Int
BY MyPosition, Turns DEF RowOf, ColOf

\* Two turns lead to two positions.
LEMMA TurnsDiffer ==
  ASSUME TypeOK, NEW k \in 0 .. 8, NEW l \in 0 .. 8,
         RowOf(k) = RowOf(l), ColOf(k) = ColOf(l)
  PROVE  k = l
<1>1. /\ k \div 3 \in 0 .. 2 /\ k % 3 \in 0 .. 2 /\ k = 3 * (k \div 3) + (k % 3)
      /\ l \div 3 \in 0 .. 2 /\ l % 3 \in 0 .. 2 /\ l = 3 * (l \div 3) + (l % 3)
  BY Turns
<1>2. MyRow \in Int /\ MyCol \in Int
  BY MyPosition
<1> DEFINE a == k \div 3
           b == k % 3
           c == l \div 3
           d == l % 3
<1>3. /\ a \in 0 .. 2 /\ b \in 0 .. 2 /\ k = 3 * a + b
      /\ c \in 0 .. 2 /\ d \in 0 .. 2 /\ l = 3 * c + d
      /\ MyRow + (b - 1) = MyRow + (d - 1) /\ MyCol + (a - 1) = MyCol + (c - 1)
  BY <1>1 DEF RowOf, ColOf
<1> HIDE DEF a, b, c, d
<1> QED
  BY <1>2, <1>3

-----------------------------------------------------------------------------
(* Inv is inductive *)

\* No process is in the table and none has neighbours at first.
LEMMA InitInv == TopologyInit => Inv
<1> SUFFICES ASSUME TopologyInit PROVE Inv
  OBVIOUS
<1>1. TypeOK /\ TableOK /\ NotStarted /\ NoRepeat(neighbours)
  BY EmptySeq DEF TopologyInit, TypeOK, TableOK, NotStarted, NoRepeat
<1>2. Visited
  <2>1. Hits(0) = {} /\ ToSet(<<>>) = {}
    BY DEF Hits, ToSet
  <2> QED
    BY <2>1 DEF TopologyInit, Visited
<1>3. VisitedTorus
  <2>1. Taken(0) = {} /\ ToSet(<<>>) = {}
    BY DEF Taken, ToSet
  <2> QED
    BY <2>1 DEF TopologyInit, VisitedTorus
<1> QED
  BY <1>1, <1>2, <1>3 DEF Inv

\* A turn changes neither the grid nor the table.
LEMMA SameGrid ==
  ASSUME UNCHANGED <<grid, process_tbl>>
  PROVE  /\ Row' = Row /\ Col' = Col /\ Process' = Process
         /\ TableOK' = TableOK
         /\ \A k : RowOf(k)' = RowOf(k) /\ ColOf(k)' = ColOf(k)
         /\ \A n : Hits(n)' = Hits(n)
         /\ \A i, j : Entry(i, j)' = Entry(i, j)
         /\ \A k : TorusEntry(k)' = TorusEntry(k)
         /\ \A n : Taken(n)' = Taken(n)
BY DEF grid, Row, Col, Process, TableOK, Empty, Entry, RowOf, ColOf, Hits, InTable,
       TorusEntry, CartRank, CartCoords, Taken, MyRow, MyCol

\* The table is filled column by column.
LEMMA TableInv ==
  ASSUME Inv, initialise_process_table
  PROVE  Inv'
<1> USE DEF Inv
<1>1. UNCHANGED grid /\ UNCHANGED <<neighbours, next>>
  BY DEF initialise_process_table
<1>2. Row' = Row /\ Col' = Col /\ Process' = Process
  BY <1>1 DEF grid, Row, Col, Process
<1>3. process_tbl' = [i \in Row |-> [j \in Col |-> Entry(i, j)]]
  BY DEF initialise_process_table
<1>4. process_tbl' \in [Row -> [Col -> Process]]
  BY <1>3, EntryIsProcess
<1>5. TypeOK'
  BY <1>1, <1>2, <1>4 DEF TypeOK, grid
<1>6. TableOK'
  <2>1. \A i, j : Entry(i, j)' = Entry(i, j)
    BY <1>1 DEF Entry, grid
  <2> QED
    BY <1>2, <1>3, <2>1 DEF TableOK
<1>7. process_tbl' # Empty
  <2>1. 0 \in Row
    BY GridTypes DEF Row
  <2>2. DOMAIN process_tbl' = Row
    BY <1>3
  <2>3. DOMAIN Empty = {}
    BY DEF Empty
  <2> QED
    BY <2>1, <2>2, <2>3
<1>8. Visited'
  <2>1. /\ \A k : RowOf(k)' = RowOf(k) /\ ColOf(k)' = ColOf(k)
        /\ \A n : Hits(n)' = Hits(n)
        /\ \A i, j : Entry(i, j)' = Entry(i, j)
    BY <1>1 DEF grid, Entry, RowOf, ColOf, Hits, InTable, MyRow, MyCol
  <2> QED
    BY <1>1, <2>1 DEF Visited, grid
<1>9. VisitedTorus'
  <2>1. (\A k : TorusEntry(k)' = TorusEntry(k)) /\ \A n : Taken(n)' = Taken(n)
    BY <1>1 DEF grid, TorusEntry, CartRank, CartCoords, Taken
  <2> QED
    BY <1>1, <2>1 DEF VisitedTorus, grid
<1> QED
  BY <1>1, <1>5, <1>6, <1>7, <1>8, <1>9 DEF NotStarted, NoRepeat

\* One offset of find_neighbours that looks into the table.
LEMMA VisitTableInv ==
  ASSUME Inv, VisitTable
  PROVE  Inv'
<1> USE DEF Inv
<1> DEFINE k == next
<1>1. /\ ~opt /\ process_tbl # Empty /\ next # 9 /\ next' = next + 1
      /\ UNCHANGED <<grid, process_tbl>>
  BY DEF VisitTable, Done
<1>2. k \in 0 .. 8 /\ next' \in 0 .. 9
  BY <1>1 DEF TypeOK
<1>3. /\ MyRow + RowOffset = RowOf(k) /\ MyCol + ColOffset = ColOf(k)
      /\ RowOf(k) \in Int /\ ColOf(k) \in Int
  BY <1>2, TurnTypes DEF RowOf, ColOf, RowOffset, ColOffset
<1>4. \A n \in 0 .. 8 : \A l : l \in 0 .. n <=> l \in 0 .. n - 1 \/ l = n
  OBVIOUS
<1>5. Hits(k + 1) = IF k # 4 /\ InTable(RowOf(k), ColOf(k)) THEN Hits(k) \cup {k} ELSE Hits(k)
  BY <1>2, <1>4 DEF Hits
<1>6. neighbours \in Seq(Process)
  BY DEF TypeOK
<1>7. CASE k # 4 /\ InTable(RowOf(k), ColOf(k))
  <2> DEFINE e == Entry(RowOf(k), ColOf(k))
  <2>1. RowOf(k) \in Row /\ ColOf(k) \in Col
    BY <1>3, <1>7, InTableIsPosition
  <2>2. neighbours' = Append(neighbours, e) /\ e \in Process
    BY <1>1, <1>3, <1>7, <2>1, TableEntries, EntryIsProcess DEF VisitTable
  <2>3. e \notin ToSet(neighbours)
    <3> SUFFICES ASSUME NEW l \in Hits(k), Entry(RowOf(l), ColOf(l)) = e PROVE FALSE
      BY <1>1 DEF Visited
    <3>1. l \in 0 .. 8 /\ l # k /\ InTable(RowOf(l), ColOf(l))
      BY <1>2 DEF Hits
    <3>2. RowOf(l) \in Row /\ ColOf(l) \in Col
      BY <3>1, TurnTypes, InTableIsPosition
    <3>3. RowOf(l) = RowOf(k) /\ ColOf(l) = ColOf(k)
      BY <2>1, <3>2, EntryIsProcess
    <3> QED
      BY <1>2, <3>1, <3>3, TurnsDiffer
  <2> HIDE DEF e
  <2>4. /\ neighbours' \in Seq(Process) /\ ToSet(neighbours') = ToSet(neighbours) \cup {e}
        /\ NoRepeat(neighbours)'
    BY <1>6, <2>2, <2>3, AppendNew DEF NoRepeat
  <2>5. ToSet(neighbours') = {Entry(RowOf(l), ColOf(l)) : l \in Hits(k + 1)}
    BY <1>1, <1>5, <1>7, <2>4 DEF Visited, e
  <2>6. Visited'
    BY <1>1, <2>5, SameGrid DEF Visited
  <2> QED
    BY <1>1, <1>2, <2>4, <2>6, SameGrid DEF TypeOK, grid, NotStarted, VisitedTorus
<1>8. CASE ~(k # 4 /\ InTable(RowOf(k), ColOf(k)))
  <2>1. neighbours' = neighbours
    BY <1>3, <1>8 DEF VisitTable
  <2>2. Visited'
    BY <1>1, <1>5, <1>8, <2>1, SameGrid DEF Visited
  <2> QED
    BY <1>1, <1>2, <1>6, <2>1, <2>2, SameGrid
    DEF TypeOK, grid, NotStarted, NoRepeat, VisitedTorus
<1> QED
  BY <1>7, <1>8

\* A number of a ring, and the two numbers next to the ring.
LEMMA Wrapped ==
  ASSUME NEW n \in Nat \ {0}, NEW r \in 0 .. n - 1
  PROVE  r % n = r /\ (r - n) % n = r /\ (r + n) % n = r
BY Z3

\* One step along a ring leads to an adjacent number.
LEMMA StepIsAdjacent ==
  ASSUME NEW n \in Nat \ {0}, NEW i \in 0 .. n - 1, NEW o \in -1 .. 1
  PROVE  (i + o) % n \in 0 .. n - 1 /\ Adjacent(i, (i + o) % n, n)
<1>1. CASE i + o \in 0 .. n - 1
  <2>1. (i + o) % n = i + o
    BY <1>1, Wrapped
  <2>2. i - (i + o) = -o
    OBVIOUS
  <2>3. CASE o = 1
    <3>1. n - 1 \in 0 .. n - 1 /\ (n - 1) - n = -o
      BY <2>3
    <3>2. (-o) % n = n - 1
      BY <3>1, Wrapped
    <3> QED
      BY <1>1, <2>1, <2>2, <3>2 DEF Adjacent
  <2>4. CASE o # 1
    <3>1. -o \in {0, 1} /\ -o \in 0 .. n - 1
      BY <1>1, <2>4
    <3>2. (-o) % n = -o
      BY <3>1, Wrapped
    <3> QED
      BY <1>1, <2>1, <2>2, <3>1, <3>2 DEF Adjacent
  <2> QED
    BY <2>3, <2>4
<1>2. CASE i + o = -1
  <2>1. n - 1 \in 0 .. n - 1 /\ (n - 1) - n = i + o /\ i = 0
    BY <1>2
  <2>2. (i + o) % n = n - 1
    BY <2>1, Wrapped
  <2>3. i - (n - 1) = 1 - n
    BY <2>1
  <2>4. CASE n = 1
    <3>1. 0 \in 0 .. n - 1 /\ 1 - n = 0
      BY <2>4
    <3>2. (1 - n) % n = 0
      BY <3>1, Wrapped
    <3> QED
      BY <2>1, <2>2, <2>3, <3>2 DEF Adjacent
  <2>5. CASE n # 1
    <3>1. 1 \in 0 .. n - 1
      BY <2>5
    <3>2. (1 - n) % n = 1
      BY <3>1, Wrapped
    <3> QED
      BY <2>1, <2>2, <2>3, <3>2 DEF Adjacent
  <2> QED
    BY <2>4, <2>5
<1>3. CASE i + o = n
  <2>1. 0 \in 0 .. n - 1 /\ 0 + n = i + o /\ i = n - 1
    BY <1>3
  <2>2. (i + o) % n = 0
    BY <2>1, Wrapped
  <2>3. i - 0 = n - 1 /\ (n - 1) % n = n - 1
    BY <2>1, Wrapped
  <2> QED
    BY <2>1, <2>2, <2>3 DEF Adjacent
<1> QED
  BY <1>1, <1>2, <1>3

\* Adjacent numbers are one step apart.
LEMMA AdjacentIsStep ==
  ASSUME NEW n \in Nat \ {0}, NEW i \in 0 .. n - 1, NEW k \in 0 .. n - 1, Adjacent(i, k, n)
  PROVE  \E o \in -1 .. 1 : (i + o) % n = k
<1>1. CASE i >= k
  <2>1. i - k \in 0 .. n - 1
    BY <1>1
  <2>2. i - k \in {0, 1, n - 1}
    BY <2>1, Wrapped DEF Adjacent
  <2>3. CASE i - k \in {0, 1}
    <3>1. k - i \in -1 .. 1 /\ i + (k - i) = k /\ k % n = k
      BY <2>3, Wrapped
    <3> QED
      BY <3>1
  <2>4. CASE i - k = n - 1
    <3>1. i = n - 1 /\ k = 0
      BY <2>4
    <3>2. i + 1 = 0 + n /\ 0 \in 0 .. n - 1
      BY <3>1
    <3>3. (0 + n) % n = 0
      BY <3>2, Wrapped
    <3> QED
      BY <3>1, <3>2, <3>3
  <2> QED
    BY <2>2, <2>3, <2>4
<1>2. CASE i < k
  <2> DEFINE d == (i - k) + n
  <2>1. d \in 1 .. n - 1 /\ d - n = i - k
    BY <1>2
  <2>2. (i - k) % n = d
    <3> HIDE DEF d
    <3> QED
      BY <2>1, Wrapped
  <2>3. d \in {1, n - 1}
    BY <2>1, <2>2 DEF Adjacent
  <2>4. CASE d = 1
    <3>1. i = 0 /\ k = n - 1
      BY <2>4
    <3>2. i + (-1) = (n - 1) - n /\ n - 1 \in 0 .. n - 1
      BY <3>1
    <3>3. ((n - 1) - n) % n = n - 1
      BY <3>2, Wrapped
    <3> QED
      BY <3>1, <3>2, <3>3
  <2>5. CASE d = n - 1
    <3>1. k = i + 1 /\ k % n = k
      BY <2>5, Wrapped
    <3> QED
      BY <3>1
  <2> QED
    BY <2>3, <2>4, <2>5
<1> QED
  BY <1>1, <1>2

\* MPI's coordinates of a process are a position of the grid, with that process in it.
LEMMA CoordsOfProcess ==
  ASSUME TypeOK, NEW p \in Process
  PROVE  /\ CartCoords(p)[1] \in 0 .. rows - 1 /\ CartCoords(p)[2] \in 0 .. cols - 1
         /\ CartCoords(p)[1] * cols + CartCoords(p)[2] = p
<1> DEFINE q == p \div cols
           r == p - q * cols
<1>1. rows * cols = cols * rows
  <2>1. \A a, b \in Nat : a * b = b * a
    BY Z3
  <2> QED
    BY <2>1, GridTypes
<1>2. p \in 0 .. cols * rows - 1
  BY <1>1 DEF Process
<1>3. q \in 0 .. rows - 1 /\ r \in 0 .. cols - 1 /\ cols * q + r = p
  BY <1>2, GridTypes, PositionOfNumber
<1> HIDE DEF r
<1>4. q * cols + r = p
  <2> HIDE DEF q
  <2>1. \A a, b \in Nat : a * b = b * a
    BY Z3
  <2> QED
    BY <1>3, <2>1, GridTypes
<1>5. p % cols = r
  <2>1. q \in Nat
    <3> HIDE DEF q
    <3> QED
      BY <1>3
  <2>2. (q * cols + r) % cols = r
    BY <1>3, <2>1, GridTypes, Remainder
  <2> QED
    BY <1>4, <2>2
<1>6. CartCoords(p) = <<q, r>>
  BY <1>5 DEF CartCoords
<1> HIDE DEF q
<1> QED
  BY <1>3, <1>4, <1>6

\* The process at a position has that position, modulo the dimensions.
LEMMA CoordsOfPosition ==
  ASSUME TypeOK, NEW a \in Int, NEW b \in Int
  PROVE  /\ CartRank(<<a, b>>) \in Process
         /\ CartCoords(CartRank(<<a, b>>)) = <<a % rows, b % cols>>
<1> DEFINE i == a % rows
           j == b % cols
           p == i * cols + j
<1>1. i \in 0 .. rows - 1 /\ j \in 0 .. cols - 1
  BY GridTypes, RemainderOfInteger
<1>2. CartRank(<<a, b>>) = p
  BY DEF CartRank
<1> HIDE DEF i, j
<1>3. p \in Process
  BY <1>1, GridTypes, NumberInRows DEF Process
<1>4. p % cols = j
  BY <1>1, GridTypes, Remainder
<1> DEFINE c == CartCoords(p)
<1>5. c[1] * cols + j = i * cols + j /\ c[1] \in 0 .. rows - 1
  BY <1>3, <1>4, CoordsOfProcess DEF CartCoords
<1> DEFINE d == c[1]
<1>6. d = i
  <2> HIDE DEF c, p
  <2>1. d \in Nat /\ cols * d + j = cols * i + j /\ i \in Nat
    <3>1. d \in Nat /\ i \in Nat
      BY <1>1, <1>5
    <3>2. \A x, y \in Nat : x * y = y * x
      BY Z3
    <3>3. d * cols = cols * d /\ i * cols = cols * i
      BY <3>1, <3>2, GridTypes
    <3> HIDE DEF d
    <3> QED
      BY <1>5, <3>1, <3>3 DEF d
  <2> HIDE DEF d
  <2> QED
    BY <1>1, <2>1, GridTypes, PositionUnique
<1>7. c = <<i, j>>
  BY <1>4, <1>6 DEF CartCoords
<1> QED
  BY <1>2, <1>3, <1>7 DEF i, j

\* Each turn leads to a process.
LEMMA TorusEntryIsProcess ==
  ASSUME TypeOK, NEW k \in 0 .. 8
  PROVE  TorusEntry(k) \in Process
<1> DEFINE a == CartCoords(rank)[1] + ((k \div 3) - 1)
           b == CartCoords(rank)[2] + ((k % 3) - 1)
<1>1. (k \div 3) - 1 \in Int /\ (k % 3) - 1 \in Int
  BY Turns
<1>2. CartCoords(rank)[1] \in Int /\ CartCoords(rank)[2] \in Int
  BY CoordsOfProcess DEF TypeOK
<1>3. a \in Int /\ b \in Int
  BY <1>1, <1>2
<1> HIDE DEF a, b
<1>4. CartRank(<<a, b>>) \in Process
  BY <1>3, CoordsOfPosition
<1> QED
  BY <1>4 DEF TorusEntry, a, b

\* One offset of find_neighbours that asks the communicator.
LEMMA VisitTorusInv ==
  ASSUME Inv, VisitTorus
  PROVE  Inv'
<1> USE DEF Inv
<1>1. /\ opt /\ process_tbl # Empty /\ next # 9 /\ next' = next + 1
      /\ UNCHANGED <<grid, process_tbl>>
  BY DEF VisitTorus, Done
<1>2. next' \in 0 .. 9 /\ next' # 0
  BY <1>1 DEF TypeOK
<1>3. neighbours \in Seq(Process)
  BY DEF TypeOK
<1>4. next \in 0 .. 8
  BY <1>1 DEF TypeOK
<1> DEFINE e == TorusEntry(next)
<1>5. neighbours' = IF Skipped \/ Found(e) THEN neighbours ELSE Append(neighbours, e)
  BY DEF VisitTorus, TorusEntry, ColOffset, RowOffset
<1>6. e \in Process
  BY <1>4, TorusEntryIsProcess
<1> HIDE DEF e
<1>7. Found(e) <=> e \in ToSet(neighbours)
  BY <1>3, LenProperties DEF Found, Contains, ToSet
<1>8. /\ neighbours' \in Seq(Process) /\ NoRepeat(neighbours)'
      /\ ToSet(neighbours') = IF Skipped THEN ToSet(neighbours) ELSE ToSet(neighbours) \cup {e}
  <2>1. CASE Skipped \/ Found(e)
    <3>1. neighbours' = neighbours
      BY <1>5, <2>1
    <3>2. ~Skipped => e \in ToSet(neighbours)
      BY <1>7, <2>1
    <3> QED
      BY <1>3, <3>1, <3>2 DEF NoRepeat
  <2>2. CASE ~(Skipped \/ Found(e))
    <3>1. neighbours' = Append(neighbours, e) /\ e \notin ToSet(neighbours)
      BY <1>5, <1>7, <2>2
    <3> QED
      BY <1>3, <1>6, <2>2, <3>1, AppendNew DEF NoRepeat
  <2> QED
    BY <2>1, <2>2
<1>9. VisitedTorus'
  <2>1. Taken(next + 1) = IF Skipped THEN Taken(next) ELSE Taken(next) \cup {next}
    <3>1. \A k : k \in 0 .. (next + 1) - 1 <=> k \in 0 .. next - 1 \/ k = next
      BY <1>4
    <3>2. next \div 3 = 1 <=> ColOffset = 0
      BY <1>4, Turns DEF ColOffset
    <3> QED
      BY <3>1, <3>2 DEF Taken, Skipped
  <2>2. ToSet(neighbours') = {TorusEntry(k) : k \in Taken(next + 1)}
    BY <1>1, <1>8, <2>1 DEF VisitedTorus, e
  <2> QED
    BY <1>1, <2>2, SameGrid DEF VisitedTorus
<1> QED
  BY <1>1, <1>2, <1>8, <1>9, SameGrid DEF TypeOK, grid, NotStarted, Visited

(* Inv holds in every state that the search reaches.                       *)
THEOREM InvCorrect == TopologySpec => []Inv
<1>1. Inv /\ [TopologyNext]_topologyVars => Inv'
  <2> SUFFICES ASSUME Inv, [TopologyNext]_topologyVars PROVE Inv'
    OBVIOUS
  <2>1. CASE UNCHANGED topologyVars
    <3>1. UNCHANGED <<grid, process_tbl>> /\ UNCHANGED <<neighbours, next>>
      BY <2>1 DEF topologyVars, grid
    <3> QED
      BY <3>1, SameGrid
      DEF Inv, TypeOK, grid, NotStarted, Visited, VisitedTorus, NoRepeat
  <2>2. CASE TopologyNext
    BY <2>2, TableInv, VisitTableInv, VisitTorusInv DEF TopologyNext
  <2> QED
    BY <2>1, <2>2
<1> QED
  BY InitInv, <1>1, PTL DEF TopologySpec

-----------------------------------------------------------------------------

(* The types of the variables; among them that neighbours are processes.   *)
THEOREM TypeOKCorrect == TopologySpec => []TypeOK
<1>1. Inv => TypeOK
  BY DEF Inv
<1> QED
  BY InvCorrect, <1>1, PTL

(* initialise_process_table and find_neighbours agree on the position of   *)
(* every process, and no process is missing from the table.                *)
THEOREM PositionInTableCorrect == TopologySpec => []PositionInTable
<1>1. Inv => PositionInTable
  <2> SUFFICES ASSUME Inv, process_tbl # Empty
               PROVE  /\ InTable(MyRow, MyCol) /\ process_tbl[MyRow][MyCol] = rank
                      /\ \A p \in Process : \E i \in Row, j \in Col : process_tbl[i][j] = p
    BY DEF PositionInTable
  <2>1. TypeOK /\ TableOK
    BY DEF Inv
  <2>2. InTable(MyRow, MyCol)
    BY <2>1, MyPosition, GridTypes DEF InTable
  <2>3. process_tbl[MyRow][MyCol] = rank
    BY <2>1, MyPosition, TableEntries
  <2>4. \A p \in Process : \E i \in Row, j \in Col : process_tbl[i][j] = p
    BY <2>1, ProcessHasEntry, TableEntries
  <2> QED
    BY <2>2, <2>3, <2>4
<1> QED
  BY InvCorrect, <1>1, PTL

(* No process is twice among the neighbours.                               *)
THEOREM EachOnceCorrect == TopologySpec => []EachOnce
<1>1. Inv => EachOnce
  <2> SUFFICES ASSUME Inv PROVE EachOnce
    OBVIOUS
  <2>1. neighbours \in Seq(Process) /\ NoRepeat(neighbours)
    BY DEF Inv, TypeOK
  <2>2. Len(neighbours) \in Nat /\ DOMAIN neighbours = 1 .. Len(neighbours)
    BY <2>1, LenProperties
  <2> DEFINE f == [i \in 1 .. Len(neighbours) |-> neighbours[i]]
  <2>3. f \in Bijection(1 .. Len(neighbours), ToSet(neighbours))
    <3>1. f \in [1 .. Len(neighbours) -> ToSet(neighbours)]
      BY <2>2 DEF ToSet
    <3>2. \A a, b \in 1 .. Len(neighbours) : f[a] = f[b] => a = b
      BY <2>1, <2>2 DEF NoRepeat
    <3>3. \A e \in ToSet(neighbours) : \E a \in 1 .. Len(neighbours) : f[a] = e
      BY <2>2 DEF ToSet
    <3> QED
      BY <3>1, <3>2, <3>3 DEF Bijection, Injection, Surjection, IsInjective
  <2>4. ExistsBijection(1 .. Len(neighbours), ToSet(neighbours))
    BY <2>3 DEF ExistsBijection
  <2> QED
    BY <2>2, <2>4, FS_CountingElements DEF EachOnce
<1> QED
  BY InvCorrect, <1>1, PTL

(* Without MPI_TOPOLOGY_OPT a process finds exactly the processes that     *)
(* surround it in the table, at the border of the grid as elsewhere.       *)
THEOREM SurroundingProcessesCorrect == TopologySpec => []SurroundingProcesses
<1>1. Inv => SurroundingProcesses
  <2> SUFFICES ASSUME Inv, ~opt, Done
               PROVE  ToSet(neighbours) = {p \in Process \ {rank} : Near(p)}
    BY DEF SurroundingProcesses
  <2>1. TypeOK /\ TableOK /\ process_tbl # Empty /\ next = 9
    BY DEF Inv, Done, NotStarted
  <2>2. ToSet(neighbours) = {Entry(RowOf(k), ColOf(k)) : k \in Hits(9)}
    BY <2>1 DEF Inv, Visited
  <2>3. /\ MyRow \in Row /\ MyCol \in Col /\ Entry(MyRow, MyCol) = rank
        /\ Row \subseteq Nat /\ Col \subseteq Nat
    BY <2>1, MyPosition
  <2>4. \A i \in Row, j \in Col : process_tbl[i][j] = Entry(i, j)
    BY <2>1, TableEntries
  <2>5. ASSUME NEW k \in Hits(9)
        PROVE  Entry(RowOf(k), ColOf(k)) \in {p \in Process \ {rank} : Near(p)}
    <3>1. k \in 0 .. 8 /\ k # 4 /\ RowOf(k) \in Row /\ ColOf(k) \in Col
      <4>1. k \in 0 .. 8 /\ k # 4 /\ InTable(RowOf(k), ColOf(k))
        BY DEF Hits
      <4> QED
        BY <2>1, <4>1, TurnTypes, InTableIsPosition
    <3>2. /\ k \div 3 \in 0 .. 2 /\ k % 3 \in 0 .. 2
          /\ ~(k \div 3 = 1 /\ k % 3 = 1)
      BY <3>1, Turns
    <3>3. Entry(RowOf(k), ColOf(k)) \in Process
      BY <2>1, <3>1, EntryIsProcess
    <3>4. ~(RowOf(k) = MyRow /\ ColOf(k) = MyCol)
      BY <2>3, <3>2 DEF RowOf, ColOf
    <3>5. Entry(RowOf(k), ColOf(k)) # rank
      BY <2>1, <2>3, <3>1, <3>4, EntryIsProcess
    <3>6. MyRow - RowOf(k) \in -1 .. 1 /\ MyCol - ColOf(k) \in -1 .. 1
      BY <2>3, <3>2 DEF RowOf, ColOf
    <3> QED
      BY <2>3, <2>4, <3>1, <3>3, <3>5, <3>6 DEF Near
  <2>6. ASSUME NEW p \in Process \ {rank}, Near(p)
        PROVE  \E k \in Hits(9) : p = Entry(RowOf(k), ColOf(k))
    <3>1. PICK i \in Row, j \in Col, i2 \in Row, j2 \in Col :
            /\ Entry(i, j) = rank /\ Entry(i2, j2) = p
            /\ i - i2 \in -1 .. 1 /\ j - j2 \in -1 .. 1
      BY <2>4, <2>6 DEF Near
    <3>2. i = MyRow /\ j = MyCol
      BY <2>1, <2>3, <3>1, EntryIsProcess
    <3> DEFINE a == i2 - MyRow + 1
               b == j2 - MyCol + 1
               k == 3 * b + a
    <3>3. a \in 0 .. 2 /\ b \in 0 .. 2
      BY <2>3, <3>1, <3>2
    <3>4. k \in 0 .. 8 /\ k \div 3 = b /\ k % 3 = a
      BY <3>3, Turns
    <3>5. RowOf(k) = i2 /\ ColOf(k) = j2
      <4>1. MyRow + (a - 1) = i2 /\ MyCol + (b - 1) = j2
        BY <2>3, <3>1
      <4> HIDE DEF a, b, k
      <4> QED
        BY <3>4, <4>1 DEF RowOf, ColOf
    <3>6. k # 4
      <4> SUFFICES ASSUME k = 4 PROVE FALSE
        OBVIOUS
      <4> HIDE DEF k
      <4>1. a = 1 /\ b = 1
        BY <3>4, Turns
      <4>2. i2 = MyRow /\ j2 = MyCol
        BY <2>3, <3>1, <4>1
      <4> QED
        BY <2>3, <3>1, <4>2
    <3>7. InTable(RowOf(k), ColOf(k))
      BY <2>1, <2>3, <3>1, <3>5, InTableIsPosition
    <3> HIDE DEF k
    <3>8. k \in Hits(9)
      BY <3>4, <3>6, <3>7 DEF Hits
    <3> QED
      BY <3>1, <3>5, <3>8
  <2> QED
    BY <2>2, <2>5, <2>6
<1> QED
  BY InvCorrect, <1>1, PTL

(* With MPI_TOPOLOGY_OPT the neighbours of a process surround it on the    *)
(* torus, on square grids and others, and a process that is not the first  *)
(* finds all the processes around it.                                      *)
THEOREM TorusNeighboursCorrect == TopologySpec => []TorusNeighbours
<1>1. Inv => TorusNeighbours
  <2> SUFFICES ASSUME Inv, opt, Done
               PROVE  /\ \A p \in ToSet(neighbours) \ {rank} : p \in Process /\ Surrounds(p)
                      /\ rank # 0 =>
                           \A p \in Process \ {rank} : Surrounds(p) => p \in ToSet(neighbours)
    BY DEF TorusNeighbours
  <2>1. TypeOK /\ next = 9
    BY DEF Inv, Done
  <2>2. ToSet(neighbours) = {TorusEntry(k) : k \in Taken(9)}
    BY <2>1 DEF Inv, VisitedTorus
  <2> DEFINE c == CartCoords(rank)
  <2>3. c[1] \in 0 .. rows - 1 /\ c[2] \in 0 .. cols - 1
    BY <2>1, CoordsOfProcess DEF TypeOK
  <2>4. rows \in Nat \ {0} /\ cols \in Nat \ {0}
    BY <2>1, GridTypes
  <2> HIDE DEF c
  <2>5. ASSUME NEW k \in 0 .. 8
        PROVE  TorusEntry(k) \in Process /\ Surrounds(TorusEntry(k))
    <3> DEFINE a == (k \div 3) - 1
               b == (k % 3) - 1
    <3>1. a \in -1 .. 1 /\ b \in -1 .. 1
      BY Turns
    <3>2. TorusEntry(k) = CartRank(<<c[1] + a, c[2] + b>>)
      BY DEF TorusEntry, c
    <3> HIDE DEF a, b
    <3>3. CartCoords(TorusEntry(k)) = <<(c[1] + a) % rows, (c[2] + b) % cols>>
      <4>1. c[1] + a \in Int /\ c[2] + b \in Int
        BY <2>3, <3>1
      <4> QED
        BY <2>1, <3>2, <4>1, CoordsOfPosition
    <3>4. Adjacent(c[1], (c[1] + a) % rows, rows) /\ Adjacent(c[2], (c[2] + b) % cols, cols)
      BY <2>3, <2>4, <3>1, StepIsAdjacent
    <3> QED
      BY <2>1, <3>3, <3>4, TorusEntryIsProcess DEF Surrounds, c
  <2>6. ASSUME rank # 0, NEW p \in Process, Surrounds(p)
        PROVE  p \in ToSet(neighbours)
    <3> DEFINE d == CartCoords(p)
    <3>1. d[1] \in 0 .. rows - 1 /\ d[2] \in 0 .. cols - 1 /\ d[1] * cols + d[2] = p
      BY <2>1, CoordsOfProcess
    <3>2. Adjacent(c[1], d[1], rows) /\ Adjacent(c[2], d[2], cols)
      BY <2>6 DEF Surrounds, c
    <3> HIDE DEF d
    <3>3. PICK a \in -1 .. 1 : (c[1] + a) % rows = d[1]
      BY <2>3, <2>4, <3>1, <3>2, AdjacentIsStep
    <3>4. PICK b \in -1 .. 1 : (c[2] + b) % cols = d[2]
      BY <2>3, <2>4, <3>1, <3>2, AdjacentIsStep
    <3>5. a + 1 \in 0 .. 2 /\ b + 1 \in 0 .. 2
      OBVIOUS
    <3> DEFINE k == 3 * (a + 1) + (b + 1)
    <3>6. k \in 0 .. 8 /\ k \div 3 = a + 1 /\ k % 3 = b + 1
      BY <3>5, Turns
    <3> HIDE DEF k
    <3>7. (k \div 3) - 1 = a /\ (k % 3) - 1 = b
      BY <3>6
    <3>8. TorusEntry(k) = p
      <4>1. TorusEntry(k) = CartRank(<<c[1] + a, c[2] + b>>)
        BY <3>7 DEF TorusEntry, c
      <4> QED
        BY <3>1, <3>3, <3>4, <4>1 DEF CartRank
    <3>9. k \in Taken(9)
      BY <2>6, <3>6 DEF Taken
    <3> QED
      BY <2>2, <3>8, <3>9
  <2>7. Taken(9) \subseteq 0 .. 8
    BY DEF Taken
  <2> QED
    BY <2>2, <2>5, <2>6, <2>7
<1> QED
  BY InvCorrect, <1>1, PTL

=============================================================================
