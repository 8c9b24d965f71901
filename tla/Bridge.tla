------------------------------- MODULE Bridge -------------------------------
(***************************************************************************)
(* Transport of GMCF packets between tiles: Transceiver::transmit_packets, *)
(* Bridge::send, Bridge::send_th and the receiving thread of each bridge,  *)
(* on every process, joined by MPI.  This is the build without EVALUATE    *)
(* and with MPI 3 or later (MPI_Improbe and MPI_Imrecv), between the end   *)
(* of the System constructors and the first destructor.                    *)
(*                                                                         *)
(* A tile's thread puts packets into the tile's TX FIFO and transmits      *)
(* them.  A packet for a tile of the same process goes straight into that  *)
(* tile's RX FIFO.  Any other is sent by a bridge in one MPI message, and  *)
(* if its type is P_DRESP the array it points to follows in a second one.  *)
(***************************************************************************)
EXTENDS Packets, Sequences, FiniteSets, SequencesExt

CONSTANTS
  NBridges,     \* number of bridges of a process (NBRIDGES)
  ThreadedSend  \* THREADED_SEND: each packet is sent by a new thread

ASSUME BridgeAssumption ==
  /\ NBridges \in Nat \ {0}
  /\ ThreadedSend \in BOOLEAN

VARIABLES
  created,       \* the packets put into a TX FIFO so far
  tx,            \* tx[t]: the packets in the TX FIFO of tile t
  transmitting,  \* the tiles whose thread is in transmit_packets
  bridge_pos,    \* bridge_pos[r]: System::bridge_pos of process r
  send,          \* send[p]: where the sending of packet p by a bridge is
  net,           \* net[s][r]: messages from process s to r not yet matched
  recv,          \* recv[th]: the local variables of receiving thread th
  heap,          \* the arrays allocated and not yet deleted
  rx             \* rx[t]: the packets in the RX FIFO of tile t

vars == <<created, tx, transmitting, bridge_pos, send, net, recv, heap, rx>>

\* Receiving thread <<r, b>> is the one of bridge b of process r.
Thread == Rank \X (1 .. NBridges)

Message == [tag : {tag_default} \cup {DataTag(p) : p \in Packet}, pkt : Packet]

(* Bridge::send and send_th_fcn, one packet each:                          *)
(*   none       no bridge has been given the packet                        *)
(*   header     about to call MPI_Isend with the packet                    *)
(*   headerTest in the MPI_Test loop that follows                          *)
(*   array      about to call MPI_Isend with the array                     *)
(*   arrayTest  in the MPI_Test loop that follows                          *)
(*   sent       returned                                                   *)
Sending == {"header", "headerTest", "array", "arrayTest"}

(* A receiving thread: it listens for a message with tag_default, waits    *)
(* for the array of a P_DRESP packet, stores the packet.                   *)
ThreadState ==
  [pc : {"listen", "awaitArray", "store"}, pkt : Packet \cup {0}, ptr : Pointer]

Listening == [pc |-> "listen", pkt |-> 0, ptr |-> NoArray]

\* An element of an RX FIFO: a packet, and the pointer in its last word.
Stored == [pkt : Packet, ptr : Pointer]

TypeOK ==
  /\ created \subseteq Packet
  /\ tx \in [Tile -> Seq(Packet)]
  /\ transmitting \subseteq Tile
  /\ bridge_pos \in [Rank -> -1 .. NBridges - 1]
  /\ send \in [Packet -> Sending \cup {"none", "sent"}]
  /\ net \in [Rank -> [Rank -> Seq(Message)]]
  /\ recv \in [Thread -> ThreadState]
  /\ heap \subseteq Pointer
  /\ rx \in [Tile -> Seq(Stored)]

Init ==
  /\ created = {}
  /\ tx = [t \in Tile |-> <<>>]
  /\ transmitting = {}
  /\ bridge_pos = [r \in Rank |-> -1]
  /\ send = [p \in Packet |-> "none"]
  /\ net = [s \in Rank |-> [r \in Rank |-> <<>>]]
  /\ recv = [th \in Thread |-> Listening]
  /\ heap = {}
  /\ rx = [t \in Tile |-> <<>>]

-----------------------------------------------------------------------------
(* The thread of a tile *)

SourceRank(p) == RankOf(Source[p])
DestRank(p) == RankOf(Dest(p))

(* The thread of tile t is inside Bridge::send.  With THREADED_SEND the    *)
(* call is made by a thread of its own, and the tile's thread goes on.     *)
InSend(t) ==
  /\ ~ThreadedSend
  /\ \E p \in Packet : Source[p] = t /\ send[p] \in Sending

\* A mistake: push_front in the place of push_back.
TxPush_Front(fifo, p) == <<p>> \o fifo

\* Fifo::push_back
TxPush(fifo, p) == Append(fifo, p)

(* A packet and its array are built and put into the TX FIFO, as the tests *)
(* of main.cc do.  The thread that does this is the one that transmits.    *)
Create(p) ==
  /\ p \notin created
  /\ \A q \in Packet : q < p /\ Source[q] = Source[p] => q \in created
  /\ Source[p] \notin transmitting
  /\ created' = created \cup {p}
  /\ tx' = [tx EXCEPT ![Source[p]] = TxPush(@, p)]
  /\ heap' = IF p \in Dresp THEN heap \cup {OwnPointer(p)} ELSE heap
  /\ UNCHANGED <<transmitting, bridge_pos, send, net, recv, rx>>

\* transmit_packets is called and finds tx_fifo.status() to be 1.
BeginTransmit(t) ==
  /\ t \notin transmitting
  /\ tx[t] # <<>>
  /\ transmitting' = transmitting \cup {t}
  /\ UNCHANGED <<created, tx, bridge_pos, send, net, recv, heap, rx>>

\* The next packet is for a tile of this process: its RX FIFO gets it.
TransmitLocal(t) ==
  /\ t \in transmitting
  /\ ~InSend(t)
  /\ tx[t] # <<>>
  /\ LET p == Head(tx[t]) IN
       /\ DestRank(p) = RankOf(t)
       /\ rx' = [rx EXCEPT
                   ![Dest(p)] = Append(@, [pkt |-> p, ptr |-> OwnPointer(p)])]
  /\ tx' = [tx EXCEPT ![t] = Tail(@)]
  /\ UNCHANGED <<created, transmitting, bridge_pos, send, net, recv, heap>>

\* A mistake: the position of the bridge does not start again from 0.
NextBridge_NoModulo(pos) == pos + 1

\* System::increment_bridge_pos
NextBridge(pos) == (pos + 1) % NBridges

\* A mistake: front() without pop_front().
TxPop_FrontOnly(fifo) == fifo

\* Fifo::pop_front
TxPop(fifo) == Tail(fifo)

(* The next packet is for another process: System::send or send_th chooses *)
(* a bridge in turn and passes the packet on.                              *)
TransmitRemote(t) ==
  /\ t \in transmitting
  /\ ~InSend(t)
  /\ tx[t] # <<>>
  /\ LET p == Head(tx[t]) IN
       /\ DestRank(p) # RankOf(t)
       /\ send' = [send EXCEPT ![p] = "header"]
  /\ bridge_pos' = [bridge_pos EXCEPT ![RankOf(t)] = NextBridge(@)]
  /\ tx' = [tx EXCEPT ![t] = TxPop(@)]
  /\ UNCHANGED <<created, transmitting, net, recv, heap, rx>>

\* transmit_packets finds tx_fifo.status() to be 0 and returns.
EndTransmit(t) ==
  /\ t \in transmitting
  /\ ~InSend(t)
  /\ tx[t] = <<>>
  /\ transmitting' = transmitting \ {t}
  /\ UNCHANGED <<created, tx, bridge_pos, send, net, recv, heap, rx>>

-----------------------------------------------------------------------------
(* Sending a packet *)

\* MPI_Isend of packet p to the process of its tile.
PostHeader(p) ==
  /\ send[p] = "header"
  /\ net' = [net EXCEPT ![SourceRank(p)][DestRank(p)] =
               Append(@, [tag |-> tag_default, pkt |-> p])]
  /\ send' = [send EXCEPT ![p] = "headerTest"]
  /\ UNCHANGED <<created, tx, transmitting, bridge_pos, recv, heap, rx>>

(* MPI_Test finds that the send of the packet is complete.  MPI may have   *)
(* buffered the message, or may wait until a receive has matched it.       *)
HeaderSent(p) ==
  /\ send[p] = "headerTest"
  /\ send' = [send EXCEPT ![p] = IF p \in Dresp THEN "array" ELSE "sent"]
  /\ UNCHANGED <<created, tx, transmitting, bridge_pos, net, recv, heap, rx>>

\* A mistake: the tag is made from the tile that sends, not from Return_to.
SentTag_Source(p) == create_tag(2, Dest(p), Source[p])

\* A mistake: receiver and sender are swapped.
SentTag_Swapped(p) == create_tag(2, ReturnTo[p], Dest(p))

\* The tag that the sender makes for the array of packet p.
SentTag(p) == DataTag(p)

\* MPI_Isend of the array of packet p.
PostArray(p) ==
  /\ send[p] = "array"
  /\ net' = [net EXCEPT ![SourceRank(p)][DestRank(p)] =
               Append(@, [tag |-> SentTag(p), pkt |-> p])]
  /\ send' = [send EXCEPT ![p] = "arrayTest"]
  /\ UNCHANGED <<created, tx, transmitting, bridge_pos, recv, heap, rx>>

\* A mistake: the array is not deleted.
Deleted_None(p) == {}

\* What Bridge::send deletes when it has sent packet p.
Deleted(p) == {OwnPointer(p)}

\* MPI_Test finds that the send of the array is complete: it is deleted.
ArraySent(p) ==
  /\ send[p] = "arrayTest"
  /\ heap' = heap \ Deleted(p)
  /\ send' = [send EXCEPT ![p] = "sent"]
  /\ UNCHANGED <<created, tx, transmitting, bridge_pos, net, recv, rx>>

-----------------------------------------------------------------------------
(* Receiving a packet *)

(* The message from process s that MPI_Improbe on process r matches for a  *)
(* tag: of those with the tag, the one sent first.                         *)
Matches(s, r, tag, i) ==
  /\ i \in DOMAIN net[s][r]
  /\ net[s][r][i].tag = tag
  /\ \A j \in 1 .. i - 1 : net[s][r][j].tag # tag

\* A mistake: the message is looked at (MPI_Iprobe) and not matched.
Take_Probe(s, r, i) == net' = net

\* Message i from s to r is matched and received.
Take(s, r, i) == net' = [net EXCEPT ![s][r] = RemoveAt(@, i)]

(* MPI_Improbe finds a message with tag_default, from any process, and it  *)
(* is received.  Its last word still points into the sender's memory.      *)
ReceiveHeader(th) ==
  /\ recv[th].pc = "listen"
  /\ \E s \in Rank : \E i \in DOMAIN net[s][th[1]] :
       /\ Matches(s, th[1], tag_default, i)
       /\ Take(s, th[1], i)
       /\ LET p == net[s][th[1]][i].pkt IN
            recv' = [recv EXCEPT
                       ![th] = [pc |-> IF p \in Dresp THEN "awaitArray"
                                                      ELSE "store",
                                pkt |-> p, ptr |-> OwnPointer(p)]]
  /\ UNCHANGED <<created, tx, transmitting, bridge_pos, send, heap, rx>>

\* A mistake: the pointer in the packet is not replaced.
NewWord_Old(word, arr) == word

\* What the last word of a packet becomes when its array is received.
NewWord(word, arr) == arr

(* MPI_Improbe finds a message with the tag made from the packet's To and  *)
(* Return_to.  The array is received into new memory, and the pointer in   *)
(* the packet is replaced.                                                 *)
ReceiveArray(th) ==
  /\ recv[th].pc = "awaitArray"
  /\ \E s \in Rank : \E i \in DOMAIN net[s][th[1]] :
       /\ Matches(s, th[1], DataTag(recv[th].pkt), i)
       /\ Take(s, th[1], i)
       /\ LET arr == [space |-> th[1], data |-> net[s][th[1]][i].pkt] IN
            /\ heap' = heap \cup {arr}
            /\ recv' = [recv EXCEPT ![th].pc = "store", ![th].ptr = NewWord(@, arr)]
  /\ UNCHANGED <<created, tx, transmitting, bridge_pos, send, rx>>

\* A mistake: the destination is computed as without bridges.
StoreDest_Local(p) == ((To[p] - 1) % NServices) + 1

\* The tile whose RX FIFO gets packet p.
StoreDest(p) == Dest(p)

(* The packet goes into the RX FIFO of its tile, and the thread listens    *)
(* again.                                                                  *)
Store(th) ==
  /\ recv[th].pc = "store"
  /\ LET p == recv[th].pkt IN
       rx' = [rx EXCEPT ![StoreDest(p)] = Append(@, [pkt |-> p, ptr |-> recv[th].ptr])]
  /\ recv' = [recv EXCEPT ![th] = Listening]
  /\ UNCHANGED <<created, tx, transmitting, bridge_pos, send, net, heap>>

-----------------------------------------------------------------------------

TileStep(t) ==
  BeginTransmit(t) \/ TransmitLocal(t) \/ TransmitRemote(t) \/ EndTransmit(t)

SendStep(p) == PostHeader(p) \/ HeaderSent(p) \/ PostArray(p) \/ ArraySent(p)

ThreadStep(th) == ReceiveHeader(th) \/ ReceiveArray(th) \/ Store(th)

Next ==
  \/ \E p \in Packet : Create(p) \/ SendStep(p)
  \/ \E t \in Tile : TileStep(t)
  \/ \E th \in Thread : ThreadStep(th)

Spec == Init /\ [][Next]_vars

\* A receive has matched every message of packet p.
Matched(p) == \A i \in DOMAIN net[SourceRank(p)][DestRank(p)] :
                net[SourceRank(p)][DestRank(p)][i].pkt # p

(* Threads run.  MPI completes a send at the latest when the message has   *)
(* been matched, and only then for certain.                                *)
SendProgress(p) ==
  PostHeader(p) \/ PostArray(p) \/ (Matched(p) /\ (HeaderSent(p) \/ ArraySent(p)))

SenderFairness ==
  /\ \A t \in Tile : WF_vars(TileStep(t))
  /\ \A p \in Packet : WF_vars(SendProgress(p))

FairSpec == Spec /\ SenderFairness /\ \A th \in Thread : WF_vars(ThreadStep(th))

-----------------------------------------------------------------------------
(* Properties *)

PacketsOf(s) == {s[i].pkt : i \in DOMAIN s}

(* A packet is only ever held by, or stored on, the process whose System   *)
(* created its tile, so nodes[dest] in the receiving thread finds a tile   *)
(* (and does not insert a null pointer); and it is stored for that tile.   *)
RightTile ==
  /\ \A t \in Tile : \A p \in PacketsOf(rx[t]) : Dest(p) = t
  /\ \A th \in Thread :
       recv[th].pc # "listen" => Dest(recv[th].pkt) \in Nodes(th[1])

(* The array that a packet is stored with was sent from the same Return_to *)
(* to the same tile, so a packet that is the only one between two tiles    *)
(* gets its own, with any number of bridges and any way of sending.        *)
SameFlow ==
  \A t \in Tile : \A i \in DOMAIN rx[t] :
    LET e == rx[t][i] IN
      IF e.pkt \in Dresp
      THEN /\ e.ptr.data \in Dresp
           /\ Flow(e.ptr.data) = Flow(e.pkt)
      ELSE e.ptr = NoArray

(* A P_DRESP packet is stored with the array it was sent with.             *)
OwnArray ==
  \A t \in Tile : \A i \in DOMAIN rx[t] :
    LET e == rx[t][i] IN e.pkt \in Dresp => e.ptr.data = e.pkt

(* Where packet p is: in a TX FIFO, about to be sent, in a message, held   *)
(* by a receiving thread, in an RX FIFO.                                   *)
Places(p) ==
  (UNION {{<<"tx", t, 0, i>> : i \in {j \in DOMAIN tx[t] : tx[t][j] = p}} : t \in Tile})
  \cup {<<"send", x, 0, 0>> : x \in {y \in {p} : send[y] = "header"}}
  \cup (UNION {{<<"net", c[1], c[2], i>> :
                  i \in {j \in DOMAIN net[c[1]][c[2]] :
                           /\ net[c[1]][c[2]][j].tag = tag_default
                           /\ net[c[1]][c[2]][j].pkt = p}} : c \in Rank \X Rank})
  \cup {<<"thread", th[1], th[2], 0>> :
          th \in {h \in Thread : recv[h].pc # "listen" /\ recv[h].pkt = p}}
  \cup (UNION {{<<"rx", t, 0, i>> : i \in {j \in DOMAIN rx[t] : rx[t][j].pkt = p}} :
                 t \in Tile})

(* Where the floats of packet q are on their way: still with the sender,   *)
(* in a message, received by a thread, in an RX FIFO.                      *)
ArrayPlaces(q) ==
  (UNION {{<<"tx", t, 0, i>> : i \in {j \in DOMAIN tx[t] : tx[t][j] = q}} : t \in Tile})
  \cup {<<"send", x, 0, 0>> :
          x \in {y \in {q} : send[y] \in {"header", "headerTest", "array"}}}
  \cup (UNION {{<<"net", c[1], c[2], i>> :
                  i \in {j \in DOMAIN net[c[1]][c[2]] :
                           /\ net[c[1]][c[2]][j].tag # tag_default
                           /\ net[c[1]][c[2]][j].pkt = q}} : c \in Rank \X Rank})
  \cup {<<"thread", th[1], th[2], 0>> :
          th \in {h \in Thread : recv[h].pc = "store" /\ recv[h].ptr.data = q}}
  \cup (UNION {{<<"rx", t, 0, i>> : i \in {j \in DOMAIN rx[t] : rx[t][j].ptr.data = q}} :
                 t \in Tile})

(* No packet and no array is lost or duplicated on its way: at any time    *)
(* each is in exactly one place.                                           *)
ExactlyOnce ==
  /\ \A p \in created : Cardinality(Places(p)) = 1
  /\ \A q \in created \cap Dresp : Cardinality(ArrayPlaces(q)) = 1

(* Who will delete an array, as pairs of an owner and a pointer: the       *)
(* sender until the array is sent, the receiving thread, the packet in the *)
(* RX FIFO.                                                                *)
Owners ==
  {<<<<"sender", p, 0>>, OwnPointer(p)>> :
     p \in {q \in created \cap Dresp :
              send[q] \in Sending \/ \E i \in DOMAIN tx[Source[q]] : tx[Source[q]][i] = q}}
  \cup {<<<<"thread", th[1], th[2]>>, recv[th].ptr>> :
     th \in {h \in Thread : recv[h].pc = "store" /\ recv[h].pkt \in Dresp}}
  \cup (UNION {{<<<<"rx", t, i>>, rx[t][i].ptr>> :
     i \in {j \in DOMAIN rx[t] : rx[t][j].pkt \in Dresp}} : t \in Tile})

(* Arrays are neither leaked nor deleted early nor shared: those allocated *)
(* are those with an owner, each has one, and a packet in an RX FIFO       *)
(* points into the memory of its own process.                              *)
ArrayOwnership ==
  /\ heap = {o[2] : o \in Owners}
  /\ Cardinality(Owners) = Cardinality(heap)
  /\ \A t \in Tile : \A i \in DOMAIN rx[t] :
       rx[t][i].pkt \in Dresp => rx[t][i].ptr.space = RankOf(t)

(* A receiving thread leaves the loop that waits for an array only with    *)
(* one, not even when the System is destroyed.  For the threads of a       *)
(* process that wait with the same tag there are at least as many arrays   *)
(* under way, or still to be sent by senders whose packet is posted.       *)
NoOrphanWait ==
  \A r \in Rank : \A w \in Thread :
    w[1] = r /\ recv[w].pc = "awaitArray" =>
      LET tag == DataTag(recv[w].pkt)
          waiting == {th \in Thread : /\ th[1] = r
                                      /\ recv[th].pc = "awaitArray"
                                      /\ DataTag(recv[th].pkt) = tag}
          coming == {p \in Dresp :
                       /\ DestRank(p) = r
                       /\ DataTag(p) = tag
                       /\ \/ send[p] \in {"headerTest", "array"}
                          \/ \E m \in {net[SourceRank(p)][r][i] :
                                 i \in DOMAIN net[SourceRank(p)][r]} :
                               m.tag = tag /\ m.pkt = p}
      IN  Cardinality(waiting) <= Cardinality(coming)

(* Packets of one tile for one tile are stored in the order in which they  *)
(* were put into the TX FIFO.  (One bridge for each process, and no        *)
(* threaded sends: with more, threads overtake each other.)                *)
InOrder ==
  \A t \in Tile : \A i, j \in DOMAIN rx[t] :
    i < j /\ Source[rx[t][i].pkt] = Source[rx[t][j].pkt]
      => rx[t][i].pkt < rx[t][j].pkt

(* Every packet put into a TX FIFO arrives.                                *)
EveryPacketArrives ==
  \A p \in Packet : p \in created ~> p \in PacketsOf(rx[Dest(p)])

(* The transport of packets is what Transport promises: the abstraction    *)
(* forgets where arrays are and keeps what they hold.                      *)
T == INSTANCE Transport WITH
       delivered <- [t \in Tile |->
                       [i \in DOMAIN rx[t] |-> [pkt |-> rx[t][i].pkt,
                                                data |-> rx[t][i].ptr.data]]]

TransportSpec == T!Spec

=============================================================================
