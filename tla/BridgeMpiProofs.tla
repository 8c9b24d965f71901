-------------------------- MODULE BridgeMpiProofs --------------------------
(***************************************************************************)
(* Receiving in two steps, as before MPI 3, implements receiving at once,  *)
(* for any number of processes, tiles and packets, with or without         *)
(* threaded sends: as long as a process has one bridge, and no two         *)
(* processes send P_DRESP packets that a tag cannot tell apart.            *)
(*                                                                         *)
(* A thread that has probed is still listening, for Bridge.  What it has   *)
(* probed is a packet and not an array: this rests on PacketFirst, so the  *)
(* steps are shown to be steps of Bridge along with what ArrayProofs shows *)
(* of the states of Bridge.  What the thread then receives is the first    *)
(* message with the tag, since no other receive of its process waits.      *)
(***************************************************************************)
EXTENDS BridgeMpi, FiniteSetTheorems, SequenceTheorems, TLAPS

\* What Bridge has for recv.
Bridge_recv ==
  [th \in Thread |->
     [recv[th] EXCEPT !.pc =
        CASE @ \in {"probed", "posted"} -> "listen"
          [] @ \in {"arrayProbed", "arrayPosted"} -> "awaitArray"
          [] OTHER -> @]]

P == INSTANCE ArrayProofs WITH recv <- Bridge_recv

(* Only one process sends P_DRESP packets that a tag cannot tell apart.    *)
FlowOfOneProcess == \A p, q \in Dresp : Flow(p) = Flow(q) => SourceRank(p) = SourceRank(q)

(* Only one tile does.                                                     *)
FlowOfOneTile == \A p, q \in Dresp : Flow(p) = Flow(q) => Source[p] = Source[q]

\* The states of a receiving thread, without garbage.
MpiState ==
  [pc : {"listen", "probed", "posted", "awaitArray", "arrayProbed", "arrayPosted", "store"},
   pkt : Packet \cup {0}, ptr : Pointer]

Status == [MPI_SOURCE : Rank, MPI_TAG : {tag_default} \cup {DataTag(p) : p \in Packet},
           pkt : Packet \cup {0}]

MpiTypeOK == recv \in [Thread -> MpiState] /\ probe \in [Thread -> Status]

(* A thread that is to take a packet has found one, and a thread that is   *)
(* to take an array has found one with the tag of the packet it holds.     *)
ProbeOK ==
  \A th \in Thread :
    /\ recv[th].pc \in {"probed", "posted"} => probe[th].MPI_TAG = tag_default
    /\ recv[th].pc \in {"arrayProbed", "arrayPosted"} =>
         probe[th].MPI_TAG = DataTag(recv[th].pkt)

-----------------------------------------------------------------------------
(* The state of Bridge *)

\* The assumptions of Bridge are made here too.
LEMMA Assumptions ==
  P!SizeAssumption /\ P!IdSpanAssumption /\ P!PacketAssumption /\ P!BridgeAssumption
BY SizeAssumption, IdSpanAssumption, PacketAssumption, BridgeAssumption
DEF P!SizeAssumption, P!IdSpanAssumption, P!PacketAssumption, P!BridgeAssumption, P!Tile, Tile

\* The specification that ArrayProofs is about is the one that is to be implemented.
LEMMA SameSpec == (B!Init <=> P!Init) /\ (B!Next <=> P!Next) /\ B!vars = P!vars
<1>1. B!Init <=> P!Init
  BY DEF B!Init, P!Init, Bridge_recv, B!Listening, P!Listening, B!NoArray, P!NoArray,
         B!Thread, P!Thread, B!Rank, P!Rank, B!Tile, P!Tile
<1>2. (B!Next <=> P!Next) /\ B!vars = P!vars
  BY DEF Bridge_recv, B!Next, P!Next, B!vars, P!vars,
         B!Create, P!Create, B!TxPush, P!TxPush, B!OwnPointer, P!OwnPointer,
         B!NoArray, P!NoArray, B!SendStep, P!SendStep, B!PostHeader, P!PostHeader,
         B!HeaderSent, P!HeaderSent, B!PostArray, P!PostArray, B!ArraySent, P!ArraySent,
         B!SourceRank, P!SourceRank, B!DestRank, P!DestRank, B!Dest, P!Dest,
         B!RankOf, P!RankOf, B!tag_default, P!tag_default, B!create_tag, P!create_tag,
         B!DataTag, P!DataTag, B!SentTag, P!SentTag, B!Deleted, P!Deleted,
         B!TileStep, P!TileStep, B!BeginTransmit, P!BeginTransmit,
         B!TransmitLocal, P!TransmitLocal, B!TransmitRemote, P!TransmitRemote,
         B!EndTransmit, P!EndTransmit, B!InSend, P!InSend, B!Sending, P!Sending,
         B!NextBridge, P!NextBridge, B!TxPop, P!TxPop, B!ThreadStep, P!ThreadStep,
         B!ReceiveHeader, P!ReceiveHeader, B!ReceiveArray, P!ReceiveArray,
         B!Store, P!Store, B!Matches, P!Matches, B!Take, P!Take, B!RemoveAt, P!RemoveAt,
         B!NewWord, P!NewWord, B!StoreDest, P!StoreDest, B!Listening, P!Listening,
         B!Thread, P!Thread, B!Tile, P!Tile, B!Rank, P!Rank
<1> QED
  BY <1>1, <1>2

\* What Bridge names is what is named here.
LEMMA SameNames ==
  /\ P!Rank = Rank /\ P!Tile = Tile /\ P!Thread = Thread /\ P!Pointer = Pointer
  /\ P!tag_default = tag_default /\ P!Listening = Listening
  /\ \A p : /\ P!DataTag(p) = DataTag(p) /\ P!OwnPointer(p) = OwnPointer(p)
            /\ P!Dest(p) = Dest(p) /\ P!Flow(p) = Flow(p) /\ P!SourceRank(p) = SourceRank(p)
  /\ \A s, i : P!RemoveAt(s, i) = RemoveAt(s, i)
BY DEF P!Rank, Rank, P!Tile, Tile, P!Thread, Thread, P!Pointer, Pointer,
       P!tag_default, tag_default, P!create_tag, create_tag, P!Listening, Listening,
       P!NoArray, NoArray, P!DataTag, DataTag, P!Dest, Dest, P!OwnPointer, OwnPointer,
       P!Flow, Flow, P!SourceRank, SourceRank, P!RankOf, RankOf, P!RemoveAt, RemoveAt

\* A field of a thread's state is replaced.
LEMMA ReplacePc ==
  ASSUME NEW st \in MpiState, NEW x
  PROVE  [st EXCEPT !.pc = x] = [pc |-> x, pkt |-> st.pkt, ptr |-> st.ptr]
<1> DEFINE u == [st EXCEPT !.pc = x]
           v == [pc |-> x, pkt |-> st.pkt, ptr |-> st.ptr]
<1>1. DOMAIN u = {"pc", "pkt", "ptr"} /\ DOMAIN v = {"pc", "pkt", "ptr"}
  BY DEF MpiState
<1>2. u.pc = v.pc /\ u.pkt = v.pkt /\ u.ptr = v.ptr
  BY DEF MpiState
<1>3. u = [f \in {"pc", "pkt", "ptr"} |-> u[f]] /\ v = [f \in {"pc", "pkt", "ptr"} |-> v[f]]
  BY DEF MpiState
<1> HIDE DEF u, v
<1>4. u = v
  BY <1>2, <1>3
<1> QED
  BY <1>4 DEF u, v

\* Where a thread is, for Bridge.
BridgePc(pc) ==
  IF pc \in {"probed", "posted"} THEN "listen"
  ELSE IF pc \in {"arrayProbed", "arrayPosted"} THEN "awaitArray" ELSE pc

\* The state of a thread, for Bridge.
BridgeOf(st) == [pc |-> BridgePc(st.pc), pkt |-> st.pkt, ptr |-> st.ptr]

\* Bridge_recv has it so.
LEMMA BridgeState ==
  ASSUME NEW st \in MpiState
  PROVE  [st EXCEPT !.pc = CASE @ \in {"probed", "posted"} -> "listen"
                             [] @ \in {"arrayProbed", "arrayPosted"} -> "awaitArray"
                             [] OTHER -> @]
           = [pc |-> BridgePc(st.pc), pkt |-> st.pkt, ptr |-> st.ptr]
<1> DEFINE x == CASE st.pc \in {"probed", "posted"} -> "listen"
                  [] st.pc \in {"arrayProbed", "arrayPosted"} -> "awaitArray"
                  [] OTHER -> st.pc
<1>1. x = BridgePc(st.pc)
  BY DEF BridgePc
<1> HIDE DEF x
<1>2. [st EXCEPT !.pc = x] = [pc |-> x, pkt |-> st.pkt, ptr |-> st.ptr]
  BY ReplacePc
<1> QED
  BY <1>1, <1>2 DEF x

\* The states of the threads, for Bridge, before and after a step.
LEMMA BridgeRecv ==
  /\ recv \in [Thread -> MpiState] =>
       \A th \in Thread : Bridge_recv[th] =
         [pc |-> BridgePc(recv[th].pc), pkt |-> recv[th].pkt, ptr |-> recv[th].ptr]
  /\ recv' \in [Thread -> MpiState] =>
       \A th \in Thread : (Bridge_recv[th])' =
         [pc |-> BridgePc(recv'[th].pc), pkt |-> recv'[th].pkt, ptr |-> recv'[th].ptr]
<1>1. ASSUME recv \in [Thread -> MpiState], NEW th \in Thread
      PROVE  Bridge_recv[th] =
               [pc |-> BridgePc(recv[th].pc), pkt |-> recv[th].pkt, ptr |-> recv[th].ptr]
  <2>1. recv[th] \in MpiState
    BY <1>1
  <2> QED
    BY <2>1, BridgeState DEF Bridge_recv
<1>2. ASSUME recv' \in [Thread -> MpiState], NEW th \in Thread
      PROVE  (Bridge_recv[th])' =
               [pc |-> BridgePc(recv'[th].pc), pkt |-> recv'[th].pkt, ptr |-> recv'[th].ptr]
  <2>1. recv'[th] \in MpiState
    BY <1>2
  <2> QED
    BY <2>1, BridgeState DEF Bridge_recv
<1> QED
  BY <1>1, <1>2

-----------------------------------------------------------------------------
(* What the steps are for Bridge *)

\* The state of one thread changes.
LEMMA OneMoves ==
  ASSUME recv \in [Thread -> MpiState], NEW th \in Thread, NEW st \in MpiState,
         recv' = [recv EXCEPT ![th] = st],
         NEW x, x = BridgeOf(st)
  PROVE  /\ recv' \in [Thread -> MpiState]
         /\ \A h \in Thread : recv'[h] = IF h = th THEN st ELSE recv[h]
         /\ Bridge_recv' = [Bridge_recv EXCEPT ![th] = x]
<1>1. /\ recv' \in [Thread -> MpiState]
      /\ \A h \in Thread : recv'[h] = IF h = th THEN st ELSE recv[h]
  OBVIOUS
<1>2. \A h \in Thread : (Bridge_recv[h])' = IF h = th THEN x ELSE Bridge_recv[h]
  BY <1>1, BridgeRecv DEF BridgeOf
<1>3. /\ Bridge_recv = [h \in Thread |-> Bridge_recv[h]]
      /\ Bridge_recv' = [h \in Thread |-> (Bridge_recv[h])']
  BY DEF Bridge_recv
<1>4. Bridge_recv' = [h \in Thread |-> IF h = th THEN x ELSE Bridge_recv[h]]
  BY <1>2, <1>3
<1>5. [Bridge_recv EXCEPT ![th] = x] = [h \in Thread |-> IF h = th THEN x ELSE Bridge_recv[h]]
  BY <1>3
<1> QED
  BY <1>1, <1>4, <1>5

\* Thread th goes on to another place of its code.
GoesOn(th, to) == recv' = [recv EXCEPT ![th].pc = to]

\* A thread goes on, and for Bridge it is where it was.
LEMMA Stutters ==
  ASSUME recv \in [Thread -> MpiState], NEW th \in Thread,
         NEW to \in {"listen", "probed", "posted", "awaitArray", "arrayProbed", "arrayPosted"},
         GoesOn(th, to), BridgePc(to) = BridgePc(recv[th].pc)
  PROVE  /\ recv' \in [Thread -> MpiState] /\ UNCHANGED Bridge_recv
         /\ \A h \in Thread : /\ recv'[h].pc = IF h = th THEN to ELSE recv[h].pc
                              /\ recv'[h].pkt = recv[h].pkt
<1> DEFINE st == [recv[th] EXCEPT !.pc = to]
<1>1. recv[th] \in MpiState /\ recv' = [recv EXCEPT ![th] = st]
  BY DEF GoesOn
<1>2. st = [pc |-> to, pkt |-> recv[th].pkt, ptr |-> recv[th].ptr]
  BY <1>1, ReplacePc
<1> HIDE DEF st
<1>3. st \in MpiState /\ st.pc = to /\ st.pkt = recv[th].pkt /\ st.ptr = recv[th].ptr
  BY <1>1, <1>2 DEF MpiState
<1>4. BridgeOf(st) = Bridge_recv[th]
  BY <1>3, BridgeRecv DEF BridgeOf
<1>5. /\ recv' \in [Thread -> MpiState]
      /\ \A h \in Thread : recv'[h] = IF h = th THEN st ELSE recv[h]
      /\ Bridge_recv' = [Bridge_recv EXCEPT ![th] = BridgeOf(st)]
  BY <1>1, <1>3, OneMoves
<1>6. Bridge_recv = [h \in Thread |-> Bridge_recv[h]]
  BY DEF Bridge_recv
<1>7. [Bridge_recv EXCEPT ![th] = Bridge_recv[th]] = Bridge_recv
  BY <1>6
<1> QED
  BY <1>3, <1>4, <1>5, <1>7

\* The steps of tiles and senders are those of Bridge.
LEMMA OtherSteps ==
  ASSUME UNCHANGED recv
  PROVE  /\ \A p \in Packet : Create(p) \/ SendStep(p) => P!Create(p) \/ P!SendStep(p)
         /\ \A t \in Tile : TileStep(t) => P!TileStep(t)
<1>1. UNCHANGED Bridge_recv
  BY DEF Bridge_recv
<1>2. \A p : Create(p) => P!Create(p)
  BY <1>1 DEF Create, P!Create, TxPush, P!TxPush, OwnPointer, P!OwnPointer,
              NoArray, P!NoArray, RankOf, P!RankOf
<1>3. \A p : SendStep(p) => P!SendStep(p)
  BY <1>1 DEF SendStep, P!SendStep, PostHeader, P!PostHeader, HeaderSent, P!HeaderSent,
              PostArray, P!PostArray, ArraySent, P!ArraySent, SentTag, P!SentTag,
              Deleted, P!Deleted, SourceRank, P!SourceRank, DestRank, P!DestRank,
              Dest, P!Dest, RankOf, P!RankOf, tag_default, P!tag_default,
              create_tag, P!create_tag, DataTag, P!DataTag, OwnPointer, P!OwnPointer,
              NoArray, P!NoArray
<1>4. \A t : TileStep(t) => P!TileStep(t)
  BY <1>1 DEF TileStep, P!TileStep, BeginTransmit, P!BeginTransmit,
              TransmitLocal, P!TransmitLocal, TransmitRemote, P!TransmitRemote,
              EndTransmit, P!EndTransmit, InSend, P!InSend, Sending, P!Sending,
              NextBridge, P!NextBridge, TxPop, P!TxPop, DestRank, P!DestRank,
              Dest, P!Dest, RankOf, P!RankOf, OwnPointer, P!OwnPointer, NoArray, P!NoArray
<1> QED
  BY <1>2, <1>3, <1>4

\* A message is to a process from its packet's, with the tag of a packet or an array.
LEMMA MessageTags ==
  ASSUME P!Once, NEW s \in Rank, NEW r \in Rank, NEW i \in DOMAIN net[s][r]
  PROVE  /\ net[s][r] # <<>> /\ 1 \in DOMAIN net[s][r] /\ i \in Nat /\ 1 <= i
         /\ net[s][r][i].tag \in AnyTag /\ net[s][r][i].pkt \in Packet
<1>1. net[s][r] \in Seq(P!Message)
  BY SameNames DEF P!Once, P!Inv, P!TypeOK
<1>2. DOMAIN net[s][r] = 1 .. Len(net[s][r]) /\ Len(net[s][r]) \in Nat
  BY <1>1, LenProperties
<1>3. net[s][r] # <<>> /\ 1 \in DOMAIN net[s][r] /\ i \in Nat /\ 1 <= i
  BY <1>1, <1>2, EmptySeq
<1>4. net[s][r][i] \in P!ToSet(net[s][r])
  BY DEF P!ToSet
<1> DEFINE m == net[s][r][i]
<1>5. m.pkt \in Packet /\ (m = P!Header(m.pkt) \/ (m.pkt \in Dresp /\ m = P!ArrayMessage(m.pkt)))
  BY <1>4, Assumptions, SameNames, P!MessageKinds
<1> HIDE DEF m
<1>6. m.tag \in AnyTag
  BY <1>5, SameNames DEF AnyTag, P!Header, P!ArrayMessage
<1> QED
  BY <1>3, <1>5, <1>6 DEF m

\* Thread th takes the packet in message i from s.
PacketTaken(th, s, i) ==
  /\ Matches(s, th[1], tag_default, i) /\ Take(s, th[1], i)
  /\ LET p == net[s][th[1]][i].pkt IN
       recv' = [recv EXCEPT ![th] = [pc |-> IF p \in Dresp THEN "awaitArray" ELSE "store",
                                     pkt |-> p, ptr |-> OwnPointer(p)]]
  /\ UNCHANGED <<created, tx, transmitting, bridge_pos, send, heap, rx>>

\* Thread th takes the array in message i from s.
ArrayTaken(th, s, i) ==
  /\ Matches(s, th[1], DataTag(recv[th].pkt), i) /\ Take(s, th[1], i)
  /\ LET arr == [space |-> th[1], data |-> net[s][th[1]][i].pkt] IN
       /\ heap' = heap \cup {arr}
       /\ recv' = [recv EXCEPT ![th].pc = "store", ![th].ptr = NewWord(@, arr)]
  /\ UNCHANGED <<created, tx, transmitting, bridge_pos, send, rx>>

\* A thread that Bridge has listen receives a packet.
LEMMA TakesPacket ==
  ASSUME P!Once, MpiTypeOK, NEW th \in Thread, BridgePc(recv[th].pc) = "listen",
         NEW s \in Rank, NEW i \in DOMAIN net[s][th[1]], PacketTaken(th, s, i)
  PROVE  /\ P!ReceiveHeader(th) /\ recv' \in [Thread -> MpiState]
         /\ recv'[th].pc \in {"awaitArray", "store"}
         /\ \A h \in Thread : h = th \/ recv'[h] = recv[h]
<1> DEFINE p == net[s][th[1]][i].pkt
           pc == IF p \in Dresp THEN "awaitArray" ELSE "store"
           st == [pc |-> pc, pkt |-> p, ptr |-> OwnPointer(p)]
<1>1. recv \in [Thread -> MpiState] /\ th[1] \in Rank
  BY DEF MpiTypeOK, Thread
<1>2. p \in Packet
  BY <1>1, MessageTags
<1>3. Bridge_recv[th] = [pc |-> "listen", pkt |-> recv[th].pkt, ptr |-> recv[th].ptr]
  BY <1>1, BridgeRecv
<1>4. P!Matches(s, th[1], P!tag_default, i)
  BY SameNames DEF PacketTaken, Matches, P!Matches
<1>5. P!Take(s, th[1], i)
  BY SameNames DEF PacketTaken, Take, P!Take
<1>6. OwnPointer(p) \in Pointer
  <2>1. P!OwnPointer(p) \in P!Pointer
    BY <1>2, Assumptions, P!RanksOfPacket
  <2> QED
    BY <2>1, SameNames
<1>7. st \in MpiState /\ BridgePc(st.pc) = st.pc
  BY <1>2, <1>6 DEF MpiState, BridgePc
<1>8. st = BridgeOf(st)
  BY <1>7 DEF BridgeOf
<1>9. st.pc \in {"awaitArray", "store"} /\ st = [pc |-> pc, pkt |-> p, ptr |-> P!OwnPointer(p)]
  BY SameNames
<1>10. recv' = [recv EXCEPT ![th] = st]
  BY DEF PacketTaken
<1> HIDE DEF st
<1>11. /\ recv' \in [Thread -> MpiState]
       /\ \A h \in Thread : recv'[h] = IF h = th THEN st ELSE recv[h]
       /\ Bridge_recv' = [Bridge_recv EXCEPT ![th] = st]
  BY <1>1, <1>7, <1>8, <1>10, OneMoves
<1>12. UNCHANGED <<created, tx, transmitting, bridge_pos, send, heap, rx>>
  BY DEF PacketTaken
<1>13. P!ReceiveHeader(th)
  <2>1. Bridge_recv[th].pc = "listen"
    BY <1>3
  <2> QED
    BY <2>1, <1>4, <1>5, <1>9, <1>11, <1>12, SameNames DEF P!ReceiveHeader
<1> QED
  BY <1>9, <1>11, <1>13

\* Two fields of a thread's state are replaced.
LEMMA ReplaceArray ==
  ASSUME NEW st \in MpiState, NEW arr
  PROVE  [st EXCEPT !.pc = "store", !.ptr = arr] = [pc |-> "store", pkt |-> st.pkt, ptr |-> arr]
<1> DEFINE u == [st EXCEPT !.pc = "store", !.ptr = arr]
           v == [pc |-> "store", pkt |-> st.pkt, ptr |-> arr]
<1>1. DOMAIN u = {"pc", "pkt", "ptr"} /\ DOMAIN v = {"pc", "pkt", "ptr"}
  BY DEF MpiState
<1>2. u.pc = v.pc /\ u.pkt = v.pkt /\ u.ptr = v.ptr
  BY DEF MpiState
<1>3. u = [f \in {"pc", "pkt", "ptr"} |-> u[f]] /\ v = [f \in {"pc", "pkt", "ptr"} |-> v[f]]
  BY DEF MpiState
<1> HIDE DEF u, v
<1>4. u = v
  BY <1>2, <1>3
<1> QED
  BY <1>4 DEF u, v

\* A thread that Bridge has wait for an array receives one.
LEMMA TakesArray ==
  ASSUME P!Once, MpiTypeOK, NEW th \in Thread, BridgePc(recv[th].pc) = "awaitArray",
         NEW s \in Rank, NEW i \in DOMAIN net[s][th[1]], ArrayTaken(th, s, i)
  PROVE  /\ P!ReceiveArray(th) /\ recv' \in [Thread -> MpiState]
         /\ recv'[th].pc = "store" /\ \A h \in Thread : h = th \/ recv'[h] = recv[h]
<1> DEFINE arr == [space |-> th[1], data |-> net[s][th[1]][i].pkt]
           st == [pc |-> "store", pkt |-> recv[th].pkt, ptr |-> arr]
           old == Bridge_recv[th]
<1>1. recv \in [Thread -> MpiState] /\ recv[th] \in MpiState /\ th[1] \in Rank
  BY DEF MpiTypeOK, Thread
<1>2. net[s][th[1]][i].pkt \in Packet
  BY <1>1, MessageTags
<1>3. old = [pc |-> "awaitArray", pkt |-> recv[th].pkt, ptr |-> recv[th].ptr]
  BY <1>1, BridgeRecv
<1>4. st \in MpiState /\ BridgePc(st.pc) = st.pc /\ st.pc = "store"
  BY <1>1, <1>2 DEF MpiState, Pointer, BridgePc
<1>5. st = BridgeOf(st)
  BY <1>4 DEF BridgeOf
<1>6. [recv[th] EXCEPT !.pc = "store", !.ptr = arr] = st
  BY <1>1, ReplaceArray
<1>7. [old EXCEPT !.pc = "store", !.ptr = arr] = st
  <2>1. old \in MpiState /\ old.pkt = recv[th].pkt
    BY <1>1, <1>3 DEF MpiState
  <2> HIDE DEF arr, old
  <2> QED
    BY <2>1, ReplaceArray
<1>8. recv' = [recv EXCEPT ![th] = st]
  <2>1. recv' = [recv EXCEPT ![th] = [recv[th] EXCEPT !.pc = "store", !.ptr = arr]]
    BY <1>1 DEF ArrayTaken, NewWord, MpiState
  <2> QED
    BY <1>6, <2>1
<1>9. heap' = heap \cup {arr} /\ UNCHANGED <<created, tx, transmitting, bridge_pos, send, rx>>
  BY DEF ArrayTaken
<1>10. P!Matches(s, th[1], P!DataTag(old.pkt), i)
  BY <1>3, SameNames DEF ArrayTaken, Matches, P!Matches
<1>11. P!Take(s, th[1], i)
  BY SameNames DEF ArrayTaken, Take, P!Take
<1>12. /\ recv' \in [Thread -> MpiState]
       /\ \A h \in Thread : recv'[h] = IF h = th THEN st ELSE recv[h]
       /\ Bridge_recv' = [Bridge_recv EXCEPT ![th] = st]
  <2> HIDE DEF st
  <2> QED
    BY <1>1, <1>4, <1>5, <1>8, OneMoves
<1>13. Bridge_recv' = [Bridge_recv EXCEPT ![th].pc = "store", ![th].ptr = arr]
  <2>1. Bridge_recv = [h \in Thread |-> Bridge_recv[h]]
    BY DEF Bridge_recv
  <2> HIDE DEF st, arr
  <2>2. [Bridge_recv EXCEPT ![th].pc = "store", ![th].ptr = arr]
          = [Bridge_recv EXCEPT ![th] = [old EXCEPT !.pc = "store", !.ptr = arr]]
    BY <1>3, <2>1
  <2> QED
    BY <1>7, <1>12, <2>2
<1> HIDE DEF st
<1>14. P!ReceiveArray(th)
  <2>1. old.pc = "awaitArray"
    BY <1>3
  <2> QED
    BY <1>9, <1>10, <1>11, <1>13, <2>1, SameNames DEF P!ReceiveArray, P!NewWord
<1> QED
  BY <1>4, <1>12, <1>14

\* A thread stores what it holds.
LEMMA StoreStep ==
  ASSUME MpiTypeOK, NEW th \in Thread, Store(th)
  PROVE  /\ P!Store(th) /\ recv' \in [Thread -> MpiState]
         /\ recv'[th].pc = "listen" /\ \A h \in Thread : h = th \/ recv'[h] = recv[h]
<1>1. /\ recv \in [Thread -> MpiState] /\ recv[th].pc = "store"
      /\ recv' = [recv EXCEPT ![th] = Listening]
      /\ rx' = [rx EXCEPT ![Dest(recv[th].pkt)] =
                  Append(@, [pkt |-> recv[th].pkt, ptr |-> recv[th].ptr])]
      /\ UNCHANGED <<created, tx, transmitting, bridge_pos, send, net, heap>>
  BY DEF MpiTypeOK, Store, StoreDest
<1>2. 0 \in Rank
  BY SizeAssumption DEF Rank
<1>3. /\ Listening \in MpiState /\ Listening.pc = "listen"
      /\ Listening = BridgeOf(Listening)
  BY <1>2 DEF BridgeOf, Listening, NoArray, MpiState, Pointer, BridgePc
<1>4. /\ recv' \in [Thread -> MpiState]
      /\ \A h \in Thread : recv'[h] = IF h = th THEN Listening ELSE recv[h]
      /\ Bridge_recv' = [Bridge_recv EXCEPT ![th] = Listening]
  BY <1>1, <1>3, OneMoves
<1>5. Bridge_recv[th] = [pc |-> "store", pkt |-> recv[th].pkt, ptr |-> recv[th].ptr]
  BY <1>1, BridgeRecv DEF BridgePc
<1>6. /\ Bridge_recv[th].pc = "store" /\ Bridge_recv[th].pkt = recv[th].pkt
      /\ Bridge_recv[th].ptr = recv[th].ptr
  BY <1>5
<1>7. P!Store(th)
  BY <1>1, <1>4, <1>6, SameNames DEF P!Store, P!StoreDest
<1> QED
  BY <1>3, <1>4, <1>7

\* Receiving at once is receiving at once.
LEMMA AtOnce ==
  ASSUME P!Once, MpiTypeOK, NEW th \in Thread, ReceiveHeader(th) \/ ReceiveArray(th)
  PROVE  /\ P!ThreadStep(th) /\ recv' \in [Thread -> MpiState]
         /\ recv'[th].pc \in {"awaitArray", "store"}
         /\ \A h \in Thread : h = th \/ recv'[h] = recv[h]
<1>2. CASE ReceiveHeader(th)
  <2>1. \E s \in Rank : \E i \in DOMAIN net[s][th[1]] : PacketTaken(th, s, i)
    BY <1>2 DEF ReceiveHeader, PacketTaken
  <2>2. BridgePc(recv[th].pc) = "listen"
    BY <1>2 DEF ReceiveHeader, BridgePc
  <2> QED
    BY <2>1, <2>2, TakesPacket DEF P!ThreadStep
<1>3. CASE ReceiveArray(th)
  <2>1. \E s \in Rank : \E i \in DOMAIN net[s][th[1]] : ArrayTaken(th, s, i)
    BY <1>3 DEF ReceiveArray, ArrayTaken
  <2>2. BridgePc(recv[th].pc) = "awaitArray"
    BY <1>3 DEF ReceiveArray, BridgePc
  <2> QED
    BY <2>1, <2>2, TakesArray DEF P!ThreadStep
<1> QED
  BY <1>2, <1>3

-----------------------------------------------------------------------------
(* What a probe finds *)

\* With one bridge, a process has one receiving thread.
LEMMA OneThread ==
  ASSUME NBridges = 1, NEW th \in Thread
  PROVE  th[1] \in Rank /\ \A h \in Thread : h[1] = th[1] => h = th
<1>1. \A h \in Thread : h[1] \in Rank /\ h = <<h[1], 1>>
  BY DEF Thread
<1> QED
  BY <1>1

\* Messages with the tag of message i, and not sent after it.
Until(s, r, i) == {j \in 1 .. i : net[s][r][j].tag = net[s][r][i].tag}

\* There are finitely many of these, and one at least.
LEMMA UntilFinite ==
  ASSUME P!Once, NEW s \in Rank, NEW r \in Rank, NEW i \in DOMAIN net[s][r]
  PROVE  /\ IsFiniteSet(Until(s, r, i)) /\ Cardinality(Until(s, r, i)) \in Nat
         /\ i \in Until(s, r, i) /\ Cardinality(Until(s, r, i)) >= 1
<1>1. i \in Nat /\ 1 <= i
  BY MessageTags
<1>2. IsFiniteSet(1 .. i) /\ Until(s, r, i) \in SUBSET (1 .. i) /\ i \in Until(s, r, i)
  BY <1>1, FS_Interval DEF Until
<1>3. IsFiniteSet(Until(s, r, i)) /\ Cardinality(Until(s, r, i)) \in Nat
  BY <1>2, FS_Subset, FS_CardinalityType
<1>4. Cardinality(Until(s, r, i)) # 0
  BY <1>2, <1>3, FS_EmptySet
<1> QED
  BY <1>2, <1>3, <1>4

\* If its thread has not posted a receive, a process sees all its messages.
LEMMA AllVisible ==
  ASSUME NBridges = 1, P!Once, NEW th \in Thread, recv[th].pc \notin {"posted", "arrayPosted"},
         NEW s \in Rank, NEW i \in DOMAIN net[s][th[1]]
  PROVE  Visible(s, th[1], i)
<1> DEFINE r == th[1]
           tag == net[s][r][i].tag
<1>1. r \in Rank
  BY OneThread
<1>2. Pending(s, r, tag) = {}
  BY OneThread DEF Pending
<1>3. Cardinality(Until(s, r, i)) \in Nat /\ Cardinality(Until(s, r, i)) >= 1
  BY <1>1, UntilFinite
<1>4. Cardinality(Pending(s, r, tag)) = 0
  BY <1>2, FS_EmptySet
<1>5. Visible(s, r, i) <=> Cardinality(Until(s, r, i)) > Cardinality(Pending(s, r, tag))
  BY DEF Visible, Until
<1> QED
  BY <1>3, <1>4, <1>5

\* A message that cannot be probed is the first with its tag.
LEMMA TakenIsFirst ==
  ASSUME NBridges = 1, P!Once, NEW th \in Thread,
         NEW s \in Rank, NEW i \in DOMAIN net[s][th[1]], ~Visible(s, th[1], i)
  PROVE  \A j \in 1 .. i - 1 : net[s][th[1]][j].tag # net[s][th[1]][i].tag
<1> DEFINE r == th[1]
           tag == net[s][r][i].tag
           U == Until(s, r, i)
<1>1. r \in Rank /\ i \in Nat
  BY OneThread, MessageTags
<1>2. IsFiniteSet(Pending(s, r, tag)) /\ Cardinality(Pending(s, r, tag)) <= 1
  <2>1. Pending(s, r, tag) \in SUBSET {th}
    BY OneThread DEF Pending
  <2>2. IsFiniteSet({th}) /\ Cardinality({th}) = 1
    BY FS_Singleton
  <2> QED
    BY <2>1, <2>2, FS_Subset
<1>3. IsFiniteSet(U) /\ Cardinality(U) \in Nat /\ i \in U
  BY <1>1, UntilFinite
<1>4. Cardinality(U) <= 1
  <2>1. ~(Cardinality(U) > Cardinality(Pending(s, r, tag)))
    BY DEF Visible, Until
  <2>2. Cardinality(Pending(s, r, tag)) \in Nat
    BY <1>2, FS_CardinalityType
  <2> HIDE DEF U, tag
  <2> QED
    BY <1>2, <1>3, <2>1, <2>2
<1>5. SUFFICES ASSUME NEW j \in 1 .. i - 1, net[s][r][j].tag = tag PROVE FALSE
  OBVIOUS
<1>6. j \in U /\ j # i
  BY <1>1, <1>5 DEF Until
<1> HIDE DEF U
<1>7. {j, i} \in SUBSET U /\ IsFiniteSet({j, i}) /\ Cardinality({j, i}) = 2
  <2>1. IsFiniteSet({j}) /\ Cardinality({j}) = 1 /\ i \notin {j}
    BY <1>6, FS_Singleton
  <2>2. IsFiniteSet({j} \cup {i}) /\ Cardinality({j} \cup {i}) = 1 + 1
    BY <2>1, FS_AddElement
  <2>3. {j, i} = {j} \cup {i}
    OBVIOUS
  <2>4. {j, i} \in SUBSET U
    BY <1>3, <1>6
  <2> QED
    BY <2>2, <2>3, <2>4
<1>8. 2 <= Cardinality(U)
  BY <1>3, <1>7, FS_Subset
<1> QED
  BY <1>3, <1>4, <1>8

\* What holds of the states in which threads probe and receive.
MpiInv == MpiTypeOK /\ ProbeOK /\ P!Once /\ P!SomeMatching

\* The part of it that Bridge does not have.
ThreadInv == MpiTypeOK /\ ProbeOK

\* A thread that listens finds a packet, though it asks for any tag.
LEMMA FindsPacket ==
  ASSUME NBridges = 1, FlowOfOneProcess, MpiInv, NEW th \in Thread, recv[th].pc = "listen",
         NEW s \in Rank, NEW i \in Probed(s, th[1], AnyTag)
  PROVE  net[s][th[1]][i].tag = tag_default
<1> DEFINE r == th[1]
<1>1. r \in Rank /\ i \in DOMAIN net[s][r]
  BY OneThread DEF Probed
<1>2. /\ net[s][r] # <<>> /\ 1 \in DOMAIN net[s][r] /\ i \in Nat /\ 1 <= i
      /\ net[s][r][1].tag \in AnyTag
  BY <1>1, MessageTags DEF MpiInv
<1>3. Visible(s, r, 1)
  BY <1>2, AllVisible DEF MpiInv
<1>4. i = 1
  <2>1. CASE 1 \in 1 .. i - 1
    BY <1>2, <1>3, <2>1 DEF Probed
  <2> QED
    BY <1>2, <2>1
<1>5. P!FlowOfOneProcess
  BY SameNames DEF FlowOfOneProcess, P!FlowOfOneProcess
<1>6. th \in P!Thread /\ s \in P!Rank /\ Bridge_recv[th].pc = "listen"
  <2>1. Bridge_recv[th] = [pc |-> BridgePc("listen"), pkt |-> recv[th].pkt, ptr |-> recv[th].ptr]
    BY BridgeRecv DEF MpiInv, MpiTypeOK
  <2>2. Bridge_recv[th].pc = "listen"
    BY <2>1 DEF BridgePc
  <2> QED
    BY <2>2, SameNames
<1>7. net[s][r][1].tag = P!tag_default
  <2>1. P!Once /\ P!SomeMatching
    BY DEF MpiInv
  <2> QED
    BY <2>1, <1>2, <1>5, <1>6, Assumptions, P!PacketFirst
<1> QED
  BY <1>4, <1>7, SameNames

-----------------------------------------------------------------------------
(* The steps with one bridge *)

\* A thread goes on, with what MPI_Iprobe has told it last.
LEMMA ThreadInvNext ==
  ASSUME ThreadInv, NEW th \in Thread, NEW x \in Status, probe' = [probe EXCEPT ![th] = x],
         recv' \in [Thread -> MpiState],
         \A h \in Thread : h = th \/ (recv'[h].pc = recv[h].pc /\ recv'[h].pkt = recv[h].pkt),
         recv'[th].pc \in {"probed", "posted"} => x.MPI_TAG = tag_default,
         recv'[th].pc \in {"arrayProbed", "arrayPosted"} => x.MPI_TAG = DataTag(recv'[th].pkt)
  PROVE  ThreadInv'
<1>1. probe \in [Thread -> Status]
  BY DEF ThreadInv, MpiTypeOK
<1>2. MpiTypeOK'
  BY <1>1 DEF MpiTypeOK
<1>3. \A h \in Thread : probe'[h] = IF h = th THEN x ELSE probe[h]
  BY <1>1
<1>4. ProbeOK'
  BY <1>3 DEF ThreadInv, ProbeOK
<1> QED
  BY <1>2, <1>4 DEF ThreadInv

\* The status of a thread that has probed nothing is one.
LEMMA NothingProbed == NoStatus \in Status
BY SizeAssumption DEF NoStatus, Status, Rank

\* A probe that finds a message changes nothing for Bridge.
LEMMA ProbeStep ==
  ASSUME NBridges = 1, FlowOfOneProcess, MpiInv, NEW th \in Thread,
         ProbePacket(th) \/ ProbeArray(th)
  PROVE  ThreadInv' /\ UNCHANGED P!vars
<1>1. ThreadInv /\ recv \in [Thread -> MpiState] /\ probe \in [Thread -> Status]
  BY DEF MpiInv, MpiTypeOK, ThreadInv
<1>2. ASSUME NEW from, NEW to, NEW tags, recv[th].pc = from,
             \/ from = "listen" /\ to = "probed" /\ tags = AnyTag
             \/ from = "awaitArray" /\ to = "arrayProbed" /\ tags = ArrayTags(th),
             Iprobe(th, tags, to)
      PROVE  ThreadInv' /\ UNCHANGED P!vars
  <2>1. PICK s \in Rank : \E i \in Probed(s, th[1], tags) :
          probe' = [probe EXCEPT ![th] = [MPI_SOURCE |-> s, MPI_TAG |-> net[s][th[1]][i].tag,
                                          pkt |-> net[s][th[1]][i].pkt]]
    BY <1>2 DEF Iprobe
  <2>2. PICK i \in Probed(s, th[1], tags) :
          probe' = [probe EXCEPT ![th] = [MPI_SOURCE |-> s, MPI_TAG |-> net[s][th[1]][i].tag,
                                          pkt |-> net[s][th[1]][i].pkt]]
    BY <2>1
  <2> DEFINE m == net[s][th[1]][i]
             x == [MPI_SOURCE |-> s, MPI_TAG |-> m.tag, pkt |-> m.pkt]
  <2>3. i \in DOMAIN net[s][th[1]] /\ m.tag \in tags /\ th[1] \in Rank
    BY OneThread DEF Probed
  <2>4. m.tag \in AnyTag /\ m.pkt \in Packet
    BY <2>3, MessageTags DEF MpiInv
  <2>5. x \in Status
    BY <2>4, PacketAssumption DEF Status, AnyTag
  <2>6. GoesOn(th, to) /\ UNCHANGED <<created, tx, transmitting, bridge_pos, send, net, heap, rx>>
    BY <1>2 DEF Iprobe, GoesOn
  <2>7. to \in {"listen", "probed", "posted", "awaitArray", "arrayProbed", "arrayPosted"}
        /\ BridgePc(to) = BridgePc(recv[th].pc)
    BY <1>2 DEF BridgePc
  <2>8. /\ recv' \in [Thread -> MpiState] /\ UNCHANGED Bridge_recv
        /\ \A h \in Thread : /\ recv'[h].pc = IF h = th THEN to ELSE recv[h].pc
                             /\ recv'[h].pkt = recv[h].pkt
    BY <1>1, <2>6, <2>7, Stutters
  <2>9. recv'[th].pc \in {"probed", "posted"} => m.tag = tag_default
    BY <1>2, <2>8, FindsPacket
  <2>10. recv'[th].pc \in {"arrayProbed", "arrayPosted"} => m.tag = DataTag(recv'[th].pkt)
    BY <1>2, <2>3, <2>8 DEF ArrayTags
  <2> HIDE DEF m
  <2>11. x.MPI_TAG = m.tag
    OBVIOUS
  <2>12. probe' = [probe EXCEPT ![th] = x]
    BY <2>2 DEF m
  <2> HIDE DEF x
  <2>13. ThreadInv'
    BY <1>1, <2>5, <2>8, <2>9, <2>10, <2>11, <2>12, ThreadInvNext
  <2> QED
    BY <2>6, <2>8, <2>13 DEF P!vars
<1>3. CASE ProbePacket(th)
  <2>1. recv[th].pc = "listen" /\ Iprobe(th, AnyTag, "probed")
    BY <1>3 DEF ProbePacket
  <2> DEFINE from == "listen"
             to == "probed"
             tags == AnyTag
  <2>2. /\ recv[th].pc = from /\ Iprobe(th, tags, to)
        /\ from = "listen" /\ to = "probed" /\ tags = AnyTag
    BY <2>1
  <2> HIDE DEF from, to, tags
  <2> QED
    BY <2>2, <1>2
<1>4. CASE ProbeArray(th)
  <2>1. recv[th].pc = "awaitArray" /\ Iprobe(th, ArrayTags(th), "arrayProbed")
    BY <1>4 DEF ProbeArray
  <2> QED
    BY <2>1, <1>2
<1> QED
  BY <1>3, <1>4

\* Nor does the call of MPI_Irecv.
LEMMA PostStep ==
  ASSUME MpiInv, NEW th \in Thread, PostPacket(th) \/ PostArrayRecv(th)
  PROVE  ThreadInv' /\ UNCHANGED P!vars
<1>1. /\ ThreadInv /\ recv \in [Thread -> MpiState] /\ probe \in [Thread -> Status]
      /\ ProbeOK
  BY DEF MpiInv, MpiTypeOK, ThreadInv
<1>2. ASSUME NEW from, NEW to,
             \/ from = "probed" /\ to = "posted"
             \/ from = "arrayProbed" /\ to = "arrayPosted",
             Irecv(th, from, to)
      PROVE  ThreadInv' /\ UNCHANGED P!vars
  <2>1. /\ recv[th].pc = from /\ GoesOn(th, to)
        /\ UNCHANGED <<created, tx, transmitting, bridge_pos, send, net, heap, rx, mpi, probe>>
    BY <1>2 DEF Irecv, GoesOn
  <2>2. to \in {"listen", "probed", "posted", "awaitArray", "arrayProbed", "arrayPosted"}
        /\ BridgePc(to) = BridgePc(recv[th].pc)
    BY <1>2, <2>1 DEF BridgePc
  <2>3. /\ recv' \in [Thread -> MpiState] /\ UNCHANGED Bridge_recv
        /\ \A h \in Thread : /\ recv'[h].pc = IF h = th THEN to ELSE recv[h].pc
                             /\ recv'[h].pkt = recv[h].pkt
    BY <1>1, <2>1, <2>2, Stutters
  <2>4. probe[th] \in Status /\ probe' = [probe EXCEPT ![th] = probe[th]]
    BY <1>1, <2>1
  <2>5. /\ recv'[th].pc \in {"probed", "posted"} => probe[th].MPI_TAG = tag_default
        /\ recv'[th].pc \in {"arrayProbed", "arrayPosted"} =>
             probe[th].MPI_TAG = DataTag(recv'[th].pkt)
    BY <1>1, <1>2, <2>1, <2>3 DEF ProbeOK
  <2>6. ThreadInv'
    BY <1>1, <2>3, <2>4, <2>5, ThreadInvNext
  <2> QED
    BY <2>1, <2>3, <2>6 DEF P!vars
<1>3. CASE PostPacket(th)
  <2> DEFINE from == "probed"
             to == "posted"
  <2>1. Irecv(th, from, to) /\ from = "probed" /\ to = "posted"
    BY <1>3 DEF PostPacket
  <2> HIDE DEF from, to
  <2> QED
    BY <2>1, <1>2
<1>4. CASE PostArrayRecv(th)
  BY <1>2, <1>4 DEF PostArrayRecv
<1> QED
  BY <1>3, <1>4

\* The message that a posted receive gets is the one that Bridge receives.
LEMMA MatchStep ==
  ASSUME NBridges = 1, MpiInv, NEW th \in Thread, MatchPacket(th) \/ MatchArray(th)
  PROVE  ThreadInv' /\ P!ThreadStep(th)
<1>1. /\ ThreadInv /\ MpiTypeOK /\ ProbeOK /\ P!Once
      /\ recv \in [Thread -> MpiState] /\ probe[th] \in Status
  BY DEF MpiInv, MpiTypeOK, ThreadInv
<1> DEFINE s == probe[th].MPI_SOURCE
<1>2. s \in Rank
  BY <1>1 DEF Status
<1>3. ASSUME NEW i \in DOMAIN net[s][th[1]], Received(th, i)
      PROVE  /\ Matches(s, th[1], probe[th].MPI_TAG, i) /\ Take(s, th[1], i)
             /\ probe' = [probe EXCEPT ![th] = NoStatus]
  BY <1>1, <1>2, <1>3, TakenIsFirst DEF Received, Matches
<1>4. CASE MatchPacket(th)
  <2>1. probe[th].MPI_TAG = tag_default /\ BridgePc(recv[th].pc) = "listen"
    BY <1>1, <1>4 DEF MatchPacket, ProbeOK, BridgePc
  <2>2. PICK i \in DOMAIN net[s][th[1]] :
          /\ Received(th, i)
          /\ LET p == ReceivedPacket(th, i) IN
               recv' = [recv EXCEPT
                          ![th] = [pc |-> IF probe[th].MPI_TAG # tag_default THEN "garbage"
                                          ELSE IF p \in Dresp THEN "awaitArray" ELSE "store",
                                   pkt |-> p, ptr |-> OwnPointer(p)]]
    BY <1>4 DEF MatchPacket
  <2>3. UNCHANGED <<created, tx, transmitting, bridge_pos, send, heap, rx>>
    BY <1>4 DEF MatchPacket
  <2>4. PacketTaken(th, s, i)
    BY <1>3, <2>1, <2>2, <2>3 DEF PacketTaken, ReceivedPacket
  <2>5. /\ P!ReceiveHeader(th) /\ recv' \in [Thread -> MpiState]
        /\ recv'[th].pc \in {"awaitArray", "store"}
        /\ \A h \in Thread : h = th \/ recv'[h] = recv[h]
    BY <1>1, <1>2, <2>1, <2>4, TakesPacket
  <2>6. ThreadInv'
    BY <1>1, <1>3, <2>2, <2>5, NothingProbed, ThreadInvNext
  <2> QED
    BY <2>5, <2>6 DEF P!ThreadStep
<1>5. CASE MatchArray(th)
  <2>1. probe[th].MPI_TAG = DataTag(recv[th].pkt) /\ BridgePc(recv[th].pc) = "awaitArray"
    BY <1>1, <1>5 DEF MatchArray, ProbeOK, BridgePc
  <2>2. PICK i \in DOMAIN net[s][th[1]] :
          /\ Received(th, i)
          /\ LET arr == [space |-> th[1], data |-> ReceivedPacket(th, i)] IN
               /\ heap' = heap \cup {arr}
               /\ recv' = [recv EXCEPT ![th].pc = "store", ![th].ptr = NewWord(@, arr)]
    BY <1>5 DEF MatchArray
  <2>3. UNCHANGED <<created, tx, transmitting, bridge_pos, send, rx>>
    BY <1>5 DEF MatchArray
  <2>4. ArrayTaken(th, s, i)
    BY <1>3, <2>1, <2>2, <2>3 DEF ArrayTaken, ReceivedPacket
  <2>5. /\ P!ReceiveArray(th) /\ recv' \in [Thread -> MpiState]
        /\ recv'[th].pc = "store" /\ \A h \in Thread : h = th \/ recv'[h] = recv[h]
    BY <1>1, <1>2, <2>1, <2>4, TakesArray
  <2>6. ThreadInv'
    BY <1>1, <1>3, <2>2, <2>5, NothingProbed, ThreadInvNext
  <2> QED
    BY <2>5, <2>6 DEF P!ThreadStep
<1> QED
  BY <1>4, <1>5

\* What the program does first is what Bridge does first.
LEMMA InitStep == MpiInit => B!Init /\ P!Init /\ ThreadInv
<1> SUFFICES ASSUME MpiInit PROVE P!Init /\ ThreadInv
  BY SameSpec
<1>1. recv = [th \in Thread |-> Listening] /\ probe = [th \in Thread |-> NoStatus]
  BY DEF MpiInit, Init
<1>2. Listening \in MpiState /\ Listening.pc = "listen"
  BY SizeAssumption DEF Listening, MpiState, NoArray, Pointer, Rank
<1>3. MpiTypeOK
  BY <1>1, <1>2, NothingProbed DEF MpiTypeOK
<1>4. ProbeOK
  BY <1>1, <1>2 DEF ProbeOK
<1>5. Bridge_recv = [th \in P!Thread |-> P!Listening]
  <2>1. Listening = BridgeOf(Listening)
    BY DEF BridgeOf, BridgePc, Listening
  <2>2. \A th \in Thread : Bridge_recv[th] = Listening
    BY <1>1, <1>3, <2>1, BridgeRecv DEF MpiTypeOK, BridgeOf
  <2>3. Bridge_recv = [th \in Thread |-> Bridge_recv[th]]
    BY DEF Bridge_recv
  <2>4. Bridge_recv = [th \in Thread |-> Listening]
    BY <2>2, <2>3
  <2> QED
    BY <2>4, SameNames
<1>6. P!Init
  BY <1>5, SameNames DEF MpiInit, Init, P!Init
<1> QED
  BY <1>3, <1>4, <1>6 DEF ThreadInv

\* A step of Bridge keeps what is known of the states of Bridge.
LEMMA BridgeNext ==
  ASSUME P!Once, [P!Next]_P!vars
  PROVE  /\ P!Once' /\ [B!Next]_(B!vars)
         /\ FlowOfOneProcess /\ P!SomeMatching => P!SomeMatching'
<1>1. P!Once'
  BY Assumptions, P!OnceNext
<1>2. ASSUME FlowOfOneProcess, P!SomeMatching PROVE P!SomeMatching'
  <2>1. P!FlowOfOneProcess
    BY <1>2, SameNames DEF FlowOfOneProcess, P!FlowOfOneProcess
  <2> QED
    BY <1>2, <2>1, Assumptions, P!MatchingNext
<1>3. [B!Next]_(B!vars)
  <2>1. B!vars = P!vars /\ B!vars' = P!vars'
    BY DEF Bridge_recv, B!vars, P!vars
  <2> QED
    BY <2>1, SameSpec
<1> QED
  BY <1>1, <1>2, <1>3

\* Tiles, senders and steps that are none are as in Bridge.
LEMMA SharedStep ==
  ASSUME ThreadInv,
         \/ UNCHANGED mpiVars
         \/ /\ \/ \E p \in Packet : Create(p) \/ SendStep(p)
               \/ \E t \in Tile : TileStep(t)
            /\ UNCHANGED <<mpi, probe>>
  PROVE  ThreadInv' /\ [P!Next]_(P!vars) /\ UNCHANGED <<recv, mpi>>
<1>1. UNCHANGED <<recv, probe, mpi>>
  BY DEF mpiVars, vars, Create, SendStep, PostHeader, HeaderSent, PostArray, ArraySent,
         TileStep, BeginTransmit, TransmitLocal, TransmitRemote, EndTransmit
<1>2. ThreadInv'
  BY <1>1 DEF ThreadInv, MpiTypeOK, ProbeOK
<1>3. CASE UNCHANGED mpiVars
  <2>1. UNCHANGED P!vars
    BY <1>3 DEF mpiVars, vars, P!vars, Bridge_recv
  <2> QED
    BY <1>1, <1>2, <2>1
<1>4. CASE \E p \in Packet : Create(p) \/ SendStep(p)
  BY <1>1, <1>2, <1>4, OtherSteps DEF P!Next
<1>5. CASE \E t \in Tile : TileStep(t)
  <2>1. \E t \in P!Tile : P!TileStep(t)
    BY <1>1, <1>5, OtherSteps, SameNames
  <2> QED
    BY <1>1, <1>2, <2>1 DEF P!Next
<1> QED
  BY <1>3, <1>4, <1>5

\* With MPI 3 or before, what receives at once and what stores is as in Bridge.
LEMMA ReceiveStep ==
  ASSUME ThreadInv, P!Once, NEW th \in Thread,
         ReceiveHeader(th) \/ ReceiveArray(th) \/ Store(th), UNCHANGED probe
  PROVE  /\ ThreadInv' /\ P!ThreadStep(th) /\ recv'[th].pc \in {"listen", "awaitArray", "store"}
         /\ \A h \in Thread : h = th \/ recv'[h] = recv[h]
<1>1. MpiTypeOK /\ probe[th] \in Status /\ probe' = [probe EXCEPT ![th] = probe[th]]
  BY DEF ThreadInv, MpiTypeOK
<1>2. /\ P!ThreadStep(th) /\ recv' \in [Thread -> MpiState]
      /\ recv'[th].pc \in {"listen", "awaitArray", "store"}
      /\ \A h \in Thread : h = th \/ recv'[h] = recv[h]
  <2>1. CASE ReceiveHeader(th) \/ ReceiveArray(th)
    BY <1>1, <2>1, AtOnce
  <2>2. CASE Store(th)
    BY <1>1, <2>2, StoreStep DEF P!ThreadStep
  <2> QED
    BY <2>1, <2>2
<1>3. ThreadInv'
  BY <1>1, <1>2, ThreadInvNext
<1> QED
  BY <1>2, <1>3

\* With one bridge every step is a step of Bridge or none.
LEMMA StepOfBridge ==
  ASSUME NBridges = 1, FlowOfOneProcess
  PROVE  MpiInv /\ [MpiNext]_mpiVars => MpiInv' /\ [B!Next]_(B!vars)
<1> SUFFICES ASSUME MpiInv, [MpiNext]_mpiVars PROVE MpiInv' /\ [B!Next]_(B!vars)
  OBVIOUS
<1>1. ThreadInv /\ P!Once /\ P!SomeMatching
  BY DEF MpiInv, ThreadInv
<1>2. ThreadInv' /\ [P!Next]_(P!vars)
  <2>1. ASSUME NEW th \in Thread, MpiThreadStep(th) PROVE ThreadInv' /\ [P!Next]_(P!vars)
    <3>1. CASE ProbePacket(th) \/ ProbeArray(th)
      BY <3>1, ProbeStep
    <3>2. CASE PostPacket(th) \/ PostArrayRecv(th)
      BY <3>2, PostStep
    <3>3. CASE MatchPacket(th) \/ MatchArray(th)
      BY <3>3, MatchStep, SameNames DEF P!Next
    <3>4. CASE (ReceiveHeader(th) \/ ReceiveArray(th) \/ Store(th)) /\ UNCHANGED probe
      BY <1>1, <3>4, ReceiveStep, SameNames DEF P!Next
    <3> QED
      BY <2>1, <3>1, <3>2, <3>3, <3>4 DEF MpiThreadStep
  <2>2. CASE \E th \in Thread : MpiThreadStep(th)
    BY <2>1, <2>2
  <2>3. CASE UNCHANGED mpiVars
    BY <1>1, <2>3, SharedStep
  <2> QED
    BY <1>1, <2>2, <2>3, SharedStep DEF MpiNext
<1>3. P!Once' /\ P!SomeMatching' /\ [B!Next]_(B!vars)
  BY <1>1, <1>2, BridgeNext
<1> QED
  BY <1>2, <1>3 DEF MpiInv, ThreadInv

(* With one bridge for each process, and P_DRESP packets that a tag cannot *)
(* tell apart sent by one process only, a thread that probes and then      *)
(* receives (Bridge.cc before MPI 3) does what one does that receives at   *)
(* once, with or without threaded sends: it finds no array where it looks  *)
(* for a packet, and gets the message that it has found.                   *)
THEOREM ProbingImplementsBridge ==
  ASSUME NBridges = 1, FlowOfOneProcess PROVE MpiSpec => ImplementsBridge
<1>1. MpiInit => B!Init /\ MpiInv
  <2>1. MpiInit => P!Once /\ P!SomeMatching
    BY InitStep, Assumptions, P!InitOnce, P!InitMatching
  <2> QED
    BY <2>1, InitStep DEF MpiInv, ThreadInv
<1> QED
  BY <1>1, StepOfBridge, PTL DEF MpiSpec, ImplementsBridge, B!Spec

(* Without threaded sends, packets of one tile for one tile are then in    *)
(* order also before MPI 3.                                                *)
THEOREM MpiInOrderCorrect ==
  ASSUME NBridges = 1, ~ThreadedSend, FlowOfOneProcess PROVE MpiSpec => []InOrder
<1>1. P!Spec => []P!InOrder
  <2>1. P!OneBridge
    BY DEF P!OneBridge
  <2> QED
    BY <2>1, Assumptions, P!InOrderCorrect
<1>2. P!InOrder <=> InOrder
  BY SameNames DEF P!InOrder, InOrder
<1>3. B!Init /\ [][B!Next]_(B!vars) => P!Spec
  <2>1. B!vars = P!vars /\ B!vars' = P!vars'
    BY DEF Bridge_recv, B!vars, P!vars
  <2>2. [B!Next]_(B!vars) => [P!Next]_(P!vars)
    BY <2>1, SameSpec
  <2> QED
    BY <2>2, SameSpec, PTL DEF P!Spec
<1> QED
  BY <1>1, <1>2, <1>3, ProbingImplementsBridge, PTL DEF ImplementsBridge, B!Spec

(* If one tile only sends what a tag cannot tell apart, a packet then has  *)
(* its own array also before MPI 3.                                        *)
THEOREM MpiOwnArrayCorrect ==
  ASSUME NBridges = 1, ~ThreadedSend, FlowOfOneTile PROVE MpiSpec => []OwnArray
<1>1. P!Spec => []P!OwnArray
  <2>1. P!OneBridge
    BY DEF P!OneBridge
  <2>2. P!FlowOfOneTile
    BY SameNames DEF FlowOfOneTile, P!FlowOfOneTile
  <2> QED
    BY <2>1, <2>2, Assumptions, P!OwnArrayCorrect
<1>2. P!OwnArray <=> OwnArray
  BY SameNames DEF P!OwnArray, OwnArray
<1>3. B!Init /\ [][B!Next]_(B!vars) => P!Spec
  <2>1. B!vars = P!vars /\ B!vars' = P!vars'
    BY DEF Bridge_recv, B!vars, P!vars
  <2>2. [B!Next]_(B!vars) => [P!Next]_(P!vars)
    BY <2>1, SameSpec
  <2> QED
    BY <2>2, SameSpec, PTL DEF P!Spec
<1>4. FlowOfOneProcess
  BY DEF FlowOfOneTile, FlowOfOneProcess, SourceRank
<1> QED
  BY <1>1, <1>2, <1>3, <1>4, ProbingImplementsBridge, PTL DEF ImplementsBridge, B!Spec

=============================================================================
