# TLA+ models of the GMCF bridge

The program in `src/bridge` extends GMCF (a manycore framework in which *tiles*
exchange packets) from one process to many: an MPI process creates a `System`
with `NSERVICES` tiles and `NBRIDGES` *bridges*, and the bridges carry packets
between processes.  This directory holds TLA+ models of it, the TLC
configurations that check them, and TLAPS proofs.

## 1. The system

### 1.1 How a packet travels

1. The thread of a tile builds a packet (`mkPacket`; header words and payload;
   for the type `P_DRESP` the last word is a pointer to a float array on the
   heap), puts it into the **TX FIFO** of the tile's `Transceiver` and calls
   `transmit_packets`.
2. `transmit_packets` takes one packet after another out of the TX FIFO.  The
   destination tile is the packet's `To`, reduced modulo the number of tiles.  A
   packet for a tile of the same process goes into that tile's **RX FIFO** at
   once; any other is passed to `System::send`, or with `THREADED_SEND` to
   `System::send_th`.
3. `System` chooses a bridge in turn (`increment_bridge_pos`, under a
   spinlock).  `Bridge::send` sends the packet in one MPI message tagged
   `tag_default` and polls `MPI_Test` until it is sent.  If the packet is a
   `P_DRESP`, the array follows in a second message, whose tag is made by
   `create_tag` from `tag_dresp_data`, the destination and `Return_to`; then
   the array is deleted.  `send_th` does the same in a new thread.
4. Each bridge of the receiving process has one **receiving thread**
   (`wait_recv_any_th`).  It polls for a message with `tag_default`; for a
   `P_DRESP` it then polls for a message with the tag made from the packet's
   own fields, receives the array into new memory and replaces the pointer;
   then it puts the packet into the RX FIFO of `nodes[dest]`.
5. The thread of the destination tile takes it out with `wait_for_packets` or
   `has_packets`, and `pop_front`.  (That thread is not in the repository.)

The constructor of `System` creates tiles, bridges (each starts its receiving
thread) and two spinlocks, in this order.  The destructor clears `active`,
waits until every receiving thread has counted itself in `killed_threads`,
destroys the locks, deletes the bridges and calls `MPI_Finalize`.

### 1.2 Components

| component | files | state | operations | what makes it correct |
|---|---|---|---|---|
| Transceiver | Transceiver.* | TX FIFO, RX FIFO | `transmit_packets` | each packet goes to the one right place, in order |
| Bridge: sending | Bridge.cc:80-205, 472-567 | the packet, the MPI request | `send`, `send_th` | array sent after its packet with a tag the receiver will look for; array deleted once, after it was sent |
| Bridge: receiving thread | Bridge.cc:224-470 | packet, pointer | `wait_recv_any_th` | packet stored for its tile, with an array of its own; ends when the `System` does |
| RX FIFO | Types.h:80-146 | deque, `_status`, `_RXlock` | `push_back`, `pop_front`, `status`, `has_packets`, `wait_for_packets` | FIFO under concurrent producers; `_status` tells the truth; every packet comes out |
| TX FIFO | Types.h:149-212 | deque, `_status` | deque operations | `_status` agrees with the deque |
| System: life | System.h | `nodes`, `bridge_list`, `active`, `killed_threads`, two spinlocks | constructor, destructor, `kill_thread` | nothing is used before it is ready or after it is gone; the destructor returns |
| System: choice of a bridge | System.cc:182-215 | `bridge_pos` | `send`, `send_th`, `increment_bridge_pos` | a bridge that exists; no choice is lost |
| MPI tags | Types.h:36-72, Bridge.cc:20-70 | - | `create_tag` and its getters | fields do not overlap; getters undo `create_tag` |
| Packet header | Packet.*, ServiceConfiguration.h | - | `mkHeader`, `mkPacket`, getters and setters | getters undo the packing; setters touch one field |
| Topology | System.cc:10-145 | `process_tbl`, `neighbours` | `create_communicator`, `find_neighbours` | neighbours are the surrounding processes, without the process itself |
| Evaluation | main.cc, EVALUATE branches | `testing_status`, timing | `test_time_dresp`, the `P_DACK` answer | every ping is answered |
| Test programs | main.cc | - | `send_packet_dresp`, `send_packet_no_dresp`, `main` | - |
| Base classes, `Tile` | Base/*, Tile.* | - | - | - |
| Scratch files | REMOVE.cc, REMOVE/ | - | - | not part of the program |

Components meet in three ways: by calls in one thread (tile thread -> Transceiver
-> System -> Bridge), by memory that threads share under spinlocks or without
(RX FIFO, `bridge_pos`, `active`, `killed_threads`), and by MPI messages.

### 1.3 What is hard here

- Threads of several kinds (tiles, sending threads, one receiving thread per
  bridge, the main thread) interleave without an order.  Threaded sends and
  several bridges overtake one another.
- A packet and its array are two messages, paired by tag alone, and any
  receiving thread of the process may take either.
- The loop that waits for an array has no way out, not even when `active` is
  false, and the destructor waits for the receiving threads.
- `MPI_Test` may report that a send is complete at once, or only when the
  message has been matched.
- The RX FIFO is read (`packets.empty()`) and `_status` written outside the
  lock; `bridge_pos` is read after the unlock.
- Receiving threads run before the constructor has finished.
- A `To` above the number of tiles wraps, in four places that must agree, one of
  them with unsigned arithmetic.
- Locks are destroyed while their last user may still be inside.

`PROJECT.json` lists these as hazards, each at its line, with the properties that
cover it or the reason why none does.  The program stores nothing that
survives a crash, and MPI neither loses nor duplicates messages, so crash
recovery and unreliable delivery do not arise.

## 2. The modules

| module | models | role |
|---|---|---|
| `Packets` | addresses, tags, pointers | constants and operators that the transport modules share |
| `Transport` | what tiles are promised | abstract specification |
| `Bridge` | steps 1-4 above, on all processes, with MPI 3 | detailed specification; implements `Transport` |
| `BridgeMpi` | the same with each version of MPI | composes `Bridge` with the older receiving thread; with one bridge implements `Bridge` |
| `Evaluate` | `test_time_dresp` and the receiving thread with EVALUATE | composes `Bridge` with the answers |
| `Codec` | header words and tags, bit by bit | detailed specification of what `Packets` abstracts |
| `RxFifo` | the RX FIFO of one tile | detailed specification |
| `System` | constructor, choice of a bridge, `kill_thread`, destructor | detailed specification |
| `Topology` | process table and both variants of `find_neighbours` | detailed specification |
| `MCPackets`, `MCBridge`, `MCBridgeMpi`, `MCEvaluate` | packets for TLC | workloads |
| `MCSequential` | - | `Codec` and `Topology` side by side, for one run |
| `BridgeProofs` | - | theorems about `Bridge`: types, delivery, refinement of `Transport`, waiting |
| `ArrayProofs` | - | theorems about `Bridge`: ownership of arrays, order, pairing of packets and arrays |
| `BridgeMpiProofs`, `EvaluateProofs`, `CodecProofs`, `RxFifoProofs`, `SystemProofs`, `TopologyProofs` | - | theorems about the module named |

How they fit together: `Bridge` takes the atomic RX FIFO that `RxFifo` justifies (a
sequence that `push_back` extends), the running `System` that `System` justifies
(locks ready, bridge in range, receiving threads in their loop), and the tags as
triples of fields that `Codec` justifies (`TagsAgree`, `TagTellsApart`,
`DestInRange`).  That the transport modules have one `Dest` for four computations of
the code is such a step: `Codec` writes the four out and shows that they agree for
every `To` whose 16 bits are not 0, which `PacketAssumption` excludes.  `System` in
turn takes from `Bridge` that an array comes.

Operators whose name ends in a word after an underscore (`PopStatus_Forgotten`)
and whose comment begins "A mistake" are not used by a specification.  Each is a
definition with a plausible programming error; put in the place of the definition
it is named after, it breaks one of the properties, and `PROJECT.json` says which.
They show that a property does depend on the code.

### 2.1 Packets

A packet is a number, and constants give what the code reads from its header:
`To`, `ReturnTo` and whether the type is `P_DRESP`.  `Source` is the tile whose
TX FIFO it is put into; it need not be `ReturnTo`: `test_all_tiles_in_node_send`
puts packets with the same `Return_to` into the FIFO of every tile.  `Dest`,
`RankOf` and `Nodes` are the arithmetic of `Transceiver.cc`, `Bridge.cc` and the
constructor.  A tag is the triple of its fields, each reduced to the number of
values it can hold (`IdSpan`, 2^14 in the code).  A pointer is an address space
and the name of the packet whose floats are there, so that a pointer of one
process used in another, and floats that go to the wrong packet, can be seen.

### 2.2 Bridge

| variable | in the code |
|---|---|
| `created` | the packets the test programs have built so far |
| `tx[t]` | `tx_fifo` of tile `t`; its `_status` is "not empty" |
| `transmitting` | tiles whose thread is inside `transmit_packets` |
| `bridge_pos[r]` | `System::bridge_pos` |
| `send[p]` | the position in `Bridge::send` or `send_th_fcn` of the thread that sends `p` |
| `net[s][r]` | MPI messages from `s` to `r` that no receive has matched, in the order of their `MPI_Isend` |
| `recv[th]` | position and local variables of a receiving thread |
| `heap` | float arrays allocated and not deleted, in all processes |
| `rx[t]` | what was put into the RX FIFO of tile `t`; nothing takes it out here |

| action | in the code |
|---|---|
| `Create` | `send_packet_dresp`, `send_packet_no_dresp`: build a packet, `tx_fifo.push_back` (`TxPush`) |
| `BeginTransmit`, `EndTransmit` | `tx_fifo.status()` is 1 at the call; is 0 in the loop |
| `TransmitLocal` | front, pop, `rx_fifo.push_back` of a tile of this process |
| `TransmitRemote` | front, pop (`TxPop`), `System::send` or `send_th`: choose a bridge (`NextBridge`) |
| `PostHeader`, `HeaderSent` | `MPI_Isend` of the packet; `MPI_Test` says it is complete |
| `PostArray`, `ArraySent` | the same for the array, tagged `SentTag`; then `delete` (`Deleted`) |
| `ReceiveHeader` | `MPI_Improbe` with `tag_default`, `MPI_Imrecv` (`Take`) |
| `ReceiveArray` | `MPI_Improbe` with the tag of the array, `MPI_Imrecv`, the pointer is replaced (`NewWord`) |
| `Store` | `nodes[dest]->transceiver->rx_fifo.push_back` (`StoreDest`) |

Without `THREADED_SEND` the tile's thread is inside `Bridge::send` until it
returns (`InSend`); with it, each packet has a thread of its own.  MPI is
modelled from its use: a message is matched once, by the oldest message from a
process that has the tag (messages with other tags are overtaken), in any order
between processes; a message and its receive are one step, since `MPI_Improbe`
takes it out of the reach of other threads.  `MPI_Test` may report completion at
any time after `MPI_Isend`, because MPI may buffer.

### 2.3 BridgeMpi

Before MPI 3 a receiving thread probes (`MPI_Iprobe`), posts a receive
(`MPI_Irecv`) for the source and tag it has found, and waits until a message has
matched it: three steps where `Bridge` has one, for the packet (`ProbePacket`,
`PostPacket`, `MatchPacket`) and for the array (`ProbeArray`, `PostArrayRecv`,
`MatchArray`).  The probe for a packet asks for `MPI_ANY_TAG`.  `recv_lock` is
held from a probe that finds something to the receive; a probe that finds nothing
changes nothing.  `mpi` is the version the program is compiled for, `probe[th]`
the `status` of the thread's last probe.  A posted receive makes the message it
will get invisible to later probes (`Visible`).  `ImplementsBridge` maps the
positions between a probe and its match to the position before the probe.

### 2.4 Evaluate

`run.sh` builds with EVALUATE.  Process 0 then runs `test_time_dresp`: `NewRound`
is one turn of its loop (build a packet, `testing_status = true`,
`transmit_packets`, spin).  A receiving thread does not store a packet: a
`P_DRESP` is answered with a `P_DACK` packet (`SendAnswer`), sent by the receiving
thread itself, which listens to nothing until the send is complete (`AnswerSent`),
unless sends are threaded; a `P_DACK` ends the round (`TakeAnswer`).  The packets
and their answers are constants, constrained by `EvaluateAssumption` to what the
test makes: one sender, one receiver on another process, `To` and `Return_to`
exchanged in the answer.

### 2.5 Codec

A word is the set of positions of its 1 bits, so that shifts and masks are
operations on sets.  A behaviour is the life of one packet: `Make` (the test
program: `mkHeader`, `mkPacket`), `Transmit` (`transmit_packets` keeps it or gives
it to a bridge), `Send` (destination and tag in `Bridge::send`), `Receive` (the tag
that the receiving thread looks for, the new pointer), then `Store` (the key of
`nodes`) or, with EVALUATE, `Answer` (the `P_DACK` header).  The tile of a packet is
computed anew in each place, and so it is here: `transmit_dest` with `unsigned int`
(`URem`), `node`, `receiver_node_id` and `service_id` with `int` (`CRem`).  All getters are modelled; parameters are cut to their
types (8, 16, 64 bits).  `create_tag` shifts a 16-bit sender by 18, which runs out
of an `int` from 14 bits on; gcc shifts the bits out and the mask drops what is
left, and that is what `Codec` says.  `Bits` and `Value` go from numbers to words
and back; `Value` is written as a sum of 16 terms, which the provers can take apart.

### 2.6 RxFifo

Each operation is cut where another thread can see the difference: acquiring the
lock, changing the deque (a read of its ends and a write of them, so that two
pushes at once could lose one), writing `_status`, releasing the lock, and the
reads of `packets.empty()` outside the lock, which see the deque before or after
a push.  (In C++ that read is a data race; a build that keeps each access to the
size as it is written, as `run.sh` without optimisation makes it, can produce
these two outcomes, and the model leaves the choice open by its interleaving.)
`pushed` and `popped` are history variables.  The consumer is external: one
thread, which calls `pop_front` only after `wait_for_packets`, `status` or
`has_packets` has told it of a packet, as the comments in `Types.h` expect.

### 2.7 System

`main` is the position of the constructor, then of the destructor; `pc[th]` that
of a tile's thread in `System::send` or of a receiving thread in its loop, in
`send` (with EVALUATE it sends the `P_DACK` answer itself) or in `kill_thread`.
`bridge_pos` and `killed_threads` are incremented by a read and a write, so that
the locks matter; a sender takes the bridge at `bridge_pos` (`TakeBridge`, `taken`)
in a later step, when the lock is free again.  A lock is raw, ready or destroyed.
What is sent and received is left to `Bridge`: messages come at any time (other processes may be ahead of
this one), and a packet may turn out to be a `P_DRESP` or not.  `System.h:242`
says that the destructor is called when all operations have been performed, so
`Deactivate` waits for the tiles; it does not wait for the receiving threads.

### 2.8 Topology

The grid (`rows`, `cols`), the build (`opt`: MPI_TOPOLOGY_OPT) and the rank are
chosen at the start; `initialise_process_table` fills the table column by column;
each of nine steps is one offset of `find_neighbours`: an `if` of the variant that
uses the table, a turn of the loops of the torus variant.  `MPI_Cart_coords` and
`MPI_Cart_rank` are external and number row by row, as MPI does.

The table numbers processes the other way, column by column.  `TorusNeighbours`
asks for what surrounds a process in the communicator, `SurroundingOnTorus`
for what surrounds it in the table, as the comments of `find_neighbours` do.

## 3. The runs

| run (`.cfg`) | checks | shows |
|---|---|---|
| `BridgeThreaded` | `TypeOK` `RightTile` `SameFlow` `ExactlyOnce` `ArrayOwnership` `NoOrphanWait` `TransportSpec` `EveryPacketArrives` | threads overtake each other, and still nothing is lost, duplicated, leaked, deleted early or misdelivered; a thread never waits for an array that does not come; `Bridge` implements `Transport`; every packet arrives |
| `BridgeMpi` | `InOrder` `OwnArray` `ImplementsBridge` `EveryPacketArrives` | with one bridge and no threaded sends, for both versions of MPI: order is kept, each packet gets its own array, probing before receiving is as good as doing both at once, and every packet arrives although both processes block in sends to each other |
| `Evaluate` | `AnswerOfThisRound` `RoundCoversArray` `OneArrayLeftByRound` `TestEnds` | with three bridges every round ends, by its own answer, after its array has been transferred; each leaves one array behind |
| `RxFifo` | `TypeOK` `StatusAgrees` `NeverBlocksInPop` `FirstInFirstOut` `EveryPacketPopped` | the RX FIFO is a FIFO, and the unlocked accesses do no harm |
| `System` | `TypeOK` `ReadyBeforeUse` `BridgeInRange` `NoIncrementLost` `ThreadsStopped` `DestructorReturns` | construction, choice of bridges and destruction without EVALUATE |
| `Sequential` | `FieldsKept` `DestInRange` `TagsAgree` `TagTellsApart` `AnswerComesBack` | `Codec`: what is read is what was written, as far as the fields reach, and what happens beyond |
| | `TypeOK` `PositionInTable` `SurroundingProcesses` `TorusNeighbours` `EachOnce` | `Topology`: both variants against the processes that surround one in the table or on the torus of the communicator |
| `BridgePairing` | `OwnArray` (violated) | finding 1 |
| `SystemEvaluate` | `ReadyBeforeUse` (violated) | finding 2 |
| `SystemDestroy` | `LocksOutliveUse` (violated) | finding 3 |
| `TopologyTorus` | `SurroundingOnTorus` (violated) | findings 4 and 5 |
| `BridgeMpiRace` | `GetsWhatItProbed` (violated) | finding 6 |
| `CodecTag` | `TagUsable` (violated) | finding 7 |

`Codec` and `Topology` have no steps of several processes and share no state, so
one run checks both: `MCSequential` lets them take their steps in any order, one of
them in its simplest case, so that all cases of each occur and not all pairs.

### 3.1 Bounds

- *Two processes, two tiles each* (transport runs).  A step of the transport
  involves one sending and one receiving process.  Two tiles on each side give a
  local packet, two senders at once and two destinations in one process.
- *Packets.*  `Mix` has four, sent by threads: three with arrays for one tile of
  the other process, two of them with the same tag (one with a `To` that wraps)
  and one with another, and one that stays on its process.  `Serial` has
  four: two from one tile to another (the second without an array), one with an
  array from a second tile to the same, and one the other way.  In it both
  processes send to each other, each tile blocked in a send that MPI may hold
  until it is matched: if senders and receiving threads of both sides could wait
  for each other, it would show here.  Liveness with threads is checked in one
  direction (a packet the other way takes `Mix` beyond what TLC does in a few
  minutes); there each send has a thread of its own and holds nothing else up.
  `Pair` has three, all with arrays: two with the same tag, created by two tiles,
  and one the other way; the violations need no more.  What does not depend on the
  number of packets is proved for any number (section 4).
- *Two bridges* are the fewest at which receiving threads compete; each then
  has a partner that takes what it waits for.  `Evaluate` has three, as `Types.h`
  does, and three rounds, so that there is an earlier and a later one.
- `IdSpan` is 2^14, as in the code; the tiles of the transport runs are far below
  it.  `Codec` looks at the boundary: 2000 processes of 9 tiles, so that there
  are more tiles than 2^14, and node_ids on both sides of 2^13 (sign), 2^14 (tag
  field), 2^16 (header field), the first process and the number of tiles.  The
  proofs lift the bound.
- *RxFifo*: two producers, two pushes each (`PushLimit`): a pop that empties the
  FIFO, a pop that does not, and a push in between.  The proofs lift the bound.
- *System*: two bridges, two tiles, `SendLimit` 3 (the position wraps and both
  tiles send at once), `MsgLimit` 2 (both receiving threads have a packet).
- *Topology*: every grid up to 4 by 5 and every rank.  A process with neighbours
  on all sides needs 3 by 3; wrapping to one process by several offsets happens
  below that; 4 and 5 give grids that are not square in both directions.  The
  proofs lift the bound.

Every configuration says `CHECK_DEADLOCK FALSE`: workloads are finite, a `System`
that has been destroyed takes no step, a search ends.  That nothing stops early
is what `EveryPacketArrives`, `TestEnds`, `EveryPacketPopped` and
`DestructorReturns` say.

### 3.2 Fairness

- *Threads run* (weak fairness of the steps of each thread): they are kernel
  threads that the scheduler does not starve, and every loop polls.
- *Spinlocks* promise no order, so acquiring one has weak fairness only: a lock
  that stays free is acquired.  No stronger promise is needed, because the
  number of pushes, sends and deaths of threads is bounded.
- *MPI* has to complete a send once it is matched, and is not assumed to do so
  earlier: in `SendProgress`, `HeaderSent` and `ArraySent` are fair only when
  `Matched`.  The liveness results therefore do not depend on buffering.
  Creating a packet (except for the rounds of the test, which are a loop) and
  calling the destructor have no fairness.
- *The test spins* on `testing_status`, which is neither volatile nor atomic;
  `run.sh` compiles without optimisation, so the loop reads it again.
- *The consumer of the RX FIFO* may poll `has_packets` but calls
  `wait_for_packets` again and again (strong fairness of `CallWait`); the code
  of tiles is not in the repository, and a tile that never looks gets nothing.
- In `System` the array a receiving thread waits for comes: this is
  `NoOrphanWait` and `EveryPacketArrives` of `Bridge`.  `DestructorReturns` hence
  says nothing of an array that does not come; those two do.

### 3.3 Findings

1. **An array may go to the wrong packet** (`Bridge.cc:376`).  The tag of an
   array is made of the packet's `To` and `Return_to`.  If two such packets are
   under way and two bridges receive them, each thread may take the other's
   array; the comment at `Bridge.cc:384` relies on the tag to single out the
   expected message.  The arrays may differ in content, and in length when the
   packets do.  What does hold is `SameFlow`: the array comes from the same
   `Return_to` for the same tile, as far as the 14 bits of a tag tell them apart
   (`Flow` has the same cut: what happens beyond is `TagTellsApart`'s subject).
2. **Receiving threads use what the constructor has not made yet**
   (`System.h:201`).  With EVALUATE, which `run.sh` sets, the answer to a packet
   goes through `System::send`: it locks a spinlock that may not be initialised
   and divides by the length of a `bridge_list` that may be empty.  Without
   EVALUATE `ReadyBeforeUse` holds.
3. **A spinlock is destroyed while it is held** (`System.h:233`).  The last
   thread adds itself to `killed_threads` before it unlocks; the destructor may
   then destroy the lock, and the unlock touches it afterwards.
4. **The torus variant skips the wrong process** (`System.cc:60`).  With
   MPI_TOPOLOGY_OPT the loop means to skip the process itself and tests
   `rank == 0` where it means the row offset.  Process 0 therefore skips three
   offsets in place of one: in a 2 by 2 grid it misses process 1, in a 3 by 3 grid it
   has 6 neighbours, where the comment says that all ranks have 8.  Every other
   process adds itself, process 1 of a 2 by 2 grid for example.
5. **The torus is not that of the table** (`System.cc:47`).  The comment says that
   the torus variant finds the processes that surround this one in the process
   table.  It asks MPI, which numbers row by row; the table is numbered column by
   column.  On a square grid one is the other mirrored and the neighbours are the
   same; on any other grid they need not be: with 2 rows and 4 columns process 0
   finds process 4, which is 2 columns away in the table.  TLC stops at a state
   where finding 4 is the reason; this one is a second reason for the same
   property to fail.  With respect to MPI's own numbering the search is right
   (`TorusNeighbours`).
6. **The lock around a probe excludes nobody** (`Bridge.cc:251`).  Before MPI 3
   the lock is to keep two receiving threads from acting on one message, but it
   is a member of `Bridge` and each bridge has one receiving thread.  With two
   bridges both may probe one message; one receives it, the other waits for the
   next one and receives that into a buffer of the wrong size.  With
   `MPI_ANY_TAG` this may be an array taken for a packet.  With one bridge
   `ImplementsBridge` holds.
7. **The tag of an array may be negative** (`Bridge.cc:49`).  `Types.h` promises 14
   bits for a sender, 1 to 16383; the last of them is the sign of the `int`.  From
   sender 8192 on the tag is negative, which MPI refuses.

Smaller things that the passing runs state as they are:

- Two senders may take the same bridge (`System.cc:203`).  `send` and `send_th`
  read `bridge_pos` again after `increment_bridge_pos` has released the lock.  If
  another sender increments it in between, both take the bridge of the second and
  that of the first is passed over, so the lock does not give each sender the
  turn it has taken.  What does hold: the bridge taken exists (`BridgeInRange`) and
  no increment is lost (`NoIncrementLost`).  Only the balance of the bridges
  suffers, and no message is lost by it.
- The tags of large node_ids exceed what MPI guarantees (`MPI_TAG_UB` is at least
  32767).
- A `To` field of 0, which is what is left of a `To` of 65536, is not a node_id,
  and the places that compute its tile disagree (`DestInRange`).
  `transmit_packets` computes with `unsigned int`, so that it gets a tile that
  exists: tile 4 with the 36 tiles of `run.sh`, which process 0 stores the
  packet for if it is the one that sends it.  Any other process gives the packet
  to a bridge, which computes with `int` and sends it to tile 0 of process 0, or
  with one tile for each process to process -1; there is no such tile.
- Each round of the test leaves one array behind (`OneArrayLeftByRound`).

## 4. The proofs

Most theorems are of the form `Spec => []P`, by an inductive invariant: it holds
at first, every step keeps it (one lemma for each kind of process or action), and
it implies `P`; two are refinements.  They hold for all values of the constants
that satisfy the named assumptions: `SizeAssumption`, `IdSpanAssumption` and
`PacketAssumption` (at least one process, tile and id; node_ids are positive),
`BridgeAssumption` (at least one bridge), `EvaluateAssumption` (what the test
sends), `CodecAssumption` (types have 8 bits, node_ids are positive),
`FifoAssumption` (the consumer is not a producer), `SystemAssumption`,
`TopologyAssumption`.  TLC evaluates the assumptions in every run.  A theorem that
needs more, because the program promises it only then, says so as a hypothesis:

| hypothesis | says | who meets it |
|---|---|---|
| `OneBridge` | `NBridges = 1` and no threaded sends | the build of `run.sh` (`-DNBRIDGES=1`, no THREADED_SEND) |
| `FlowOfOneProcess` | packets with arrays that a tag cannot tell apart come from one process | all of `main.cc`: `Return_to` is a tile of the sender's process (below 2^14 tiles) |
| `FlowOfOneTile` | they come from one tile | `send_packet_dresp`, whose `Return_to` is the tile; not `test_all_tiles_in_node_send` |
| `~Evaluate` | built without EVALUATE | a choice of the build |

### 4.1 BridgeProofs

`TypeCorrect`, `RightTileCorrect`, `SameFlowCorrect`, for any numbers of
processes, tiles, bridges and packets, threaded or not.  `Inv` adds to
`TypeOK`: `SendOK` (only a `P_DRESP` reaches the steps that send an array),
`NetOK` (a message is under way to the process of its packet's tile, and carries
`tag_default` or the tag of that packet's array), `RecvOK` (a thread holds a
packet for its process and, once it is about to store it, an array of the same
flow), `RxOK` (the same of what is stored).  The arithmetic it rests on is in
lemmas: `TileIsNode` (the tiles whose `RankOf` is `r` are `Nodes(r)`, so
`nodes[dest]` finds a tile), `DestIsTile` (wrapping yields a tile), `TagsDiffer`
(the tag of an array is never `tag_default`).

`ExactlyOnceCorrect`, `TransportImplemented`: the invariant
`Once` says for each packet (`PacketAt`) and each array (`ArrayAt`) that the
places it can be in exclude each other, and which positions of the sender go with
each place: a message that has not been posted is neither under way nor received.
`Shape` says that nothing is twice in a FIFO or a channel, so that sequences can
be read as sets; at the end, sets of one element give the cardinality 1 of
`ExactlyOnce`.  The refinement follows: `TransmitLocal` and `Store` are
`Transport`'s `Deliver`, whose guards (not delivered before, an array of the flow
that no other packet has) are parts of `Once`; `Create` is `Create`; everything
else is a stutter.

`NoOrphanWaitCorrect`: the inequality is not inductive, since a
thread that begins to wait raises one side.  `Balance` counts the packets still
under way too: for each process and tag, the arrays expected are as many as those
coming, and a step adds to or takes from both.

### 4.2 ArrayProofs

`ArrayOwnershipCorrect`: `HeapOK` says that an array is on a heap if
and only if someone owns it (the sender, a receiving thread, a packet in an RX
FIFO).  That the sender's `delete` takes nobody else's array rests on `SpaceOK`: a
receiver's array is in another process's memory, since bridges get only packets
for other processes.  The cardinalities are compared by a bijection.

`InOrderCorrect` (with `OneBridge`): a packet passes six places, and `Orderly` has
one part for each place and each pair of neighbours: the TX FIFO is in order
(`TxOrder`), a packet leaves it after its predecessors (`PopOrder`), is sent after
they are (`SendOrder`), a channel is in order (`NetOrder`), and what is in a thread
or an RX FIFO has no predecessor left in a channel or a thread (`TakeOrder`,
`StoreOrder`).  The one bridge matters in `Store`: while a thread holds a packet,
no other thread of the process can have a successor of it.  `Arranged`
(each two elements of a sequence, in this order, are in a relation) says what an
ordered FIFO is; its lemmas say that appending and removing keep it.

`OwnArrayCorrect` (with `OneBridge` and `FlowOfOneTile`): `Paired` says that the
array of a packet comes exactly while that packet expects it.  With one thread and
messages in order (`Orderly`), the first array with the tag that is looked for is
that of the packet held.

`MatchingHolds` (with `FlowOfOneProcess`, for any number of bridges): an array need
not be behind its *own* packet, since with threaded sends a later packet's thread
may be faster and its array may have gone to an earlier one.  But the arrays that
come can always be matched one to one with packets that expect an array with that
tag, and each is behind the packet it is matched to.  The matching is chosen anew
when an array is received: if it was meant for another packet, that one is given the
array that was meant for the packet that took it.  From this, `PacketFirst`: with one bridge, the message a
listening thread sees first from a process is a packet, even if it asks for any tag.

### 4.3 BridgeMpiProofs

`ProbingImplementsBridge` (with `NBridges = 1` and `FlowOfOneProcess`, threaded or
not): three steps where `Bridge` has one, and two dangers: the probe for a packet
asks for `MPI_ANY_TAG`, so that it could find an array; and between a probe and its
receive another receive could take the message.  The first is excluded by
`PacketFirst`, which is carried along as an invariant of the states that `Bridge`
sees; the second by the single bridge, since no other receive of the process waits.
A probe and a posted receive are stutters, a match is `ReceiveHeader` or
`ReceiveArray`.  Both hypotheses are needed: with two bridges finding 6 refutes the
refinement, and TLC refutes it with one bridge when two processes send packets with
the same tag, since the array of one may come when the packet of the other is looked
for.

`MpiInOrderCorrect`, `MpiOwnArrayCorrect`: what ArrayProofs shows of `Bridge` holds
of both versions of MPI, by the refinement.

### 4.4 EvaluateProofs

`AnswerOfThisRoundCorrect`, `RoundCoversArrayCorrect`, `OneArrayLeftByRoundCorrect`,
for any numbers of processes, tiles, bridges and rounds, threaded or not.  None of
the properties is inductive; what makes them true is that a round has one thing
under way at a time.  `EvInv` says so: either nothing is under way (`Between`), or
the last packet is in one of ten stages (`Round`): `Built`, `Given`, `PacketOut`,
`BothOut`, `Awaits`, `ArrayOut` before its array is received, `Whole`,
`AnswerGiven`, `AnswerOut`, `AnswerHeld` after.  A stage gives the contents of every
TX FIFO and channel, the positions of the two senders, and the one thread that has
something to do.  Each action leads from a stage to the next, or is one that may
come late: a sender that is told that its message is gone (`HeaderSent`,
`ArraySent`, `AnswerSent`, possibly rounds later), which changes no stage.
`HeapIs` gives the heap in each stage, and `BuiltInOrder` that rounds are in the
order of the packets.  TLC has checked `EvInv` as an invariant of the model with
three bridges, threaded and not.

### 4.5 CodecProofs

All properties of `Codec`, for every type, `To` and `Return_to` and any numbers of
processes and tiles: `FieldsKeptCorrect`, `DestInRangeCorrect`, `TagsAgreeCorrect`,
`TagTellsApartCorrect`, `AnswerComesBackCorrect`.  A behaviour of
`Codec` computes, so `Inv` says what it has computed: the packet, the tile and the
tags as terms of `Header`, the header of what the packet was made from
(`CodecInvHolds`).  The rest is about terms:

- *Fields* (`FieldRead`, `HeaderFields`, `TagFields`): what is read from a field is
  what was put into it, cut to the field's length, as the masks of the others do
  not meet it.
- *Numbers* (`Digits`, `SumOfBits`, `LowBits`): the remainder modulo 2^(b+1) is the
  one modulo 2^b and the next bit, written out for b up to 15; so the lowest 16
  bits of a number are its remainder modulo 65536, without induction over the bits.
  `TypeBits`: two types with the same bits are equal, so that `P_DRESP` is told
  from every other type.
- *Addresses* (`NodeIsWrap`, `RestOfUnsigned`, `SameTile`, `RankExists`): the `/`
  and `%` of C++, which round towards 0, and the unsigned `%` of the Transceiver
  give the tile that `Wrap` names, in a process that exists.

What the proof brought to light is in the property: the places agree exactly if
the `To` field is not 0 (`RestOfMinusOne`: 2^32 - 1 and -1 never leave the same
tile, unless there is only one), and with one tile in all a field of 0 reaches that
tile (`Wrap`).

### 4.6 The other modules

**SystemProofs** - `TypeOKCorrect`, `ReadyBeforeUseCorrect`,
`BridgeInRangeCorrect`, `NoIncrementLostCorrect`, `ThreadsStoppedCorrect`, each
under the hypothesis `~Evaluate` (with EVALUATE finding 2 refutes the second).
`Inv` is `Core` (types; which positions a thread of each kind can be at; the
bridges that exist; the state of each lock at each point of the constructor and
destructor; who is in a critical section holds its lock; a value read under the
lock is still current; `bridge_pos` follows from the number of choices; a bridge
that was taken exists), `CountOK`
(`killed_threads` is the number of threads that have counted themselves) and
`ThreadsStopped`.

**RxFifoProofs** - `TypeCorrect`, `StatusCorrect`, `PopNeverBlocks`,
`FifoCorrect`.  The properties alone are not inductive: in the middle of a push
`_status` is stale.  `Inv` adds `Mutex` (who is in a critical section holds the
lock), `EndsCurrent` (what a thread has read of the deque is still so when it
writes), `Told` (once the consumer knows of a packet there is one: producers only
add, and nobody else removes) and `StatusSettles` (`_status` is wrong only
between a change of the deque and the write that follows).  `Told` is why the
unlocked write of `wait_for_packets` does no harm.

**TopologyProofs** - all invariants of the run, for grids of any size:
`TypeOKCorrect`, `PositionInTableCorrect`, `SurroundingProcessesCorrect`,
`TorusNeighboursCorrect`, `EachOnceCorrect`.  `Inv` says what the table holds, and
for each variant that the neighbours so far are the processes at the offsets
visited so far (`Visited`, `VisitedTorus`), without repeats.  For the torus,
`CoordsOfPosition` says that `MPI_Cart_coords` undoes `MPI_Cart_rank` up to the
period of each dimension, `StepIsAdjacent` and `AdjacentIsStep` that what the
offsets -1, 0 and 1 reach on a ring is what is adjacent there.  The theorem covers
grids that are not square; that process 0 finds all its neighbours is false
(finding 4), and it claims for it only that what it finds is right.

The lemmas on quotients, positions and sequences that these proofs share are few;
each module has those it cites.

### 4.7 What stays with TLC

- *Liveness* (`EveryPacketArrives`, `TestEnds`, `EveryPacketPopped`,
  `DestructorReturns`): it rests on fairness, and on `ENABLED`, which the prover does
  not treat.
- *What the hypotheses exclude*: with two bridges, or with threaded sends, order is
  not promised, and finding 1 is what happens to arrays.

## 5. What is not modelled

- `main`: without two arguments it calls `MPI_Finalize` before `MPI_Init`
  (`main.cc:62`); it ends in an endless loop, with EVALUATE and without, so that
  the destructor never runs; `test_all_tiles_in_node_send` is not called (its packets
  are a workload of `MCPackets`).
- `test_time_dresp` with a single process: its packet is delivered locally, no
  answer comes, and the loop spins for ever.  `Evaluate` assumes two processes.
- A failing `pthread_create` in `send_th` (it ends the process) and the exhaustion
  of threads that are never joined: how many threads there may be is not in the
  repository.
- Sending threads that are still under way when the destructor is called:
  `System.h:242` requires that all operations have been performed.
- Operations of the template `Fifo` that nothing calls (`shift`, `unshift`,
  `push`, `pop`, `size`, `length`, `clear`); the TX FIFO is used by one thread.
- MPI may renumber processes in `MPI_Cart_create` (the code sets `reorder`); that
  makes no difference, as `rank` is read from the communicator that results.  The
  level of thread support that `MPI_Init_thread` returns, and output under VERBOSE.
- A packet of length 0, whose last word `send` would read; `mkPacket` makes none.
- `Base/*` and `Tile` have no behaviour of their own.  `REMOVE.cc` and `REMOVE/`
  are another program.

## 6. What is left

- Life and transport together: the destructor of one process while another still
  sends, and the condition on callers under which the wait for an array ends.
- `System` with EVALUATE: which of its invariants hold once the constructor is done.
