---------------------------- MODULE ArrayProofs -----------------------------
(***************************************************************************)
(* Who owns an array, and which array a packet gets.                       *)
(*                                                                         *)
(* Arrays are neither leaked nor deleted early nor shared, for any number  *)
(* of processes, tiles, bridges and packets, and with or without threaded  *)
(* sends.  HeapOK says who owns each array on a heap.  That the sender     *)
(* deletes its own array and nobody else's rests on SpaceOK: the array     *)
(* that a receiver owns is in the memory of another process, since a       *)
(* packet is only given to a bridge when its tile is not one of this       *)
(* process.                                                                *)
(*                                                                         *)
(* With one bridge for each process and without threaded sends, packets of *)
(* one tile for one tile are stored in the order in which they were built  *)
(* (Orderly), and with the arrays they were sent with (Own).               *)
(*                                                                         *)
(* With one bridge a thread that listens always finds a packet before the  *)
(* array of a packet (PacketFirst), which BridgeMpiProofs needs.           *)
(***************************************************************************)
EXTENDS BridgeProofs

-----------------------------------------------------------------------------
(* Messages and FIFOs that are in order *)

(* Of two elements of a sequence, the earlier and the later are a pair of R. *)
Arranged(s, R) == \A i, j \in DOMAIN s : i < j => <<s[i], s[j]>> \in R

(* What may come after all there is may be appended.                       *)
LEMMA ArrangedAppend ==
  ASSUME NEW S, NEW R, NEW s \in Seq(S), NEW e \in S, Arranged(s, R),
         \A x \in ToSet(s) : <<x, e>> \in R
  PROVE  Arranged(Append(s, e), R)
<1> DEFINE n == Len(s)
           u == Append(s, e)
<1>1. n \in Nat /\ DOMAIN s = 1 .. n /\ DOMAIN u = 1 .. n + 1
  BY AppendProperties, LenProperties
<1>2. u[n + 1] = e /\ \A i \in 1 .. n : u[i] = s[i] /\ s[i] \in ToSet(s)
  BY <1>1, AppendProperties DEF ToSet
<1> HIDE DEF n, u
<1>3. ASSUME NEW i \in 1 .. n + 1, NEW j \in 1 .. n + 1, i < j
      PROVE  <<u[i], u[j]>> \in R
  <2>1. i \in 1 .. n /\ (j \in 1 .. n \/ j = n + 1)
    BY <1>1, <1>3
  <2> QED
    BY <1>1, <1>2, <1>3, <2>1 DEF Arranged
<1> QED
  BY <1>1, <1>3 DEF Arranged, u

(* An element is removed, whichever it is.                                 *)
LEMMA ArrangedRemoveAt ==
  ASSUME NEW S, NEW R, NEW s \in Seq(S), NEW k \in DOMAIN s, Arranged(s, R)
  PROVE  Arranged(RemoveAt(s, k), R)
<1> DEFINE n == Len(s)
           u == RemoveAt(s, k)
           at(i) == IF i < k THEN i ELSE i + 1
<1>1. n \in Nat /\ DOMAIN s = 1 .. n /\ k \in 1 .. n
  BY LenProperties
<1>2. DOMAIN u = 1 .. n - 1 /\ \A i \in 1 .. n - 1 : u[i] = s[at(i)]
  BY RemoveAtElements
<1> HIDE DEF n, u
<1>3. \A i, j \in 1 .. n - 1 : at(i) \in 1 .. n /\ (i < j => at(i) < at(j))
  BY <1>1
<1> HIDE DEF at
<1> QED
  BY <1>1, <1>2, <1>3 DEF Arranged, u

(* The first element is removed: it may come before all the others.        *)
LEMMA ArrangedTail ==
  ASSUME NEW S, NEW R, NEW s \in Seq(S), s # <<>>, Arranged(s, R)
  PROVE  /\ Arranged(Tail(s), R)
         /\ \A x \in ToSet(Tail(s)) : <<Head(s), x>> \in R
<1> DEFINE n == Len(s)
           u == Tail(s)
<1>1. n \in Nat \ {0} /\ DOMAIN s = 1 .. n /\ Head(s) = s[1]
  BY LenProperties, EmptySeq
<1>2. DOMAIN u = 1 .. n - 1 /\ \A i \in 1 .. n - 1 : u[i] = s[i + 1]
  BY HeadTailProperties, LenProperties
<1> HIDE DEF n, u
<1>3. \A i \in 1 .. n - 1 : i + 1 \in 1 .. n /\ 1 \in 1 .. n /\ 1 < i + 1
  BY <1>1
<1>4. \A i, j \in 1 .. n - 1 : i < j => i + 1 < j + 1
  OBVIOUS
<1>5. Arranged(u, R)
  BY <1>1, <1>2, <1>3, <1>4 DEF Arranged
<1>6. \A i \in 1 .. n - 1 : <<s[1], u[i]>> \in R
  BY <1>1, <1>2, <1>3 DEF Arranged
<1>7. \A x \in ToSet(u) : \E i \in 1 .. n - 1 : x = u[i]
  BY <1>2 DEF ToSet
<1> QED
  BY <1>1, <1>5, <1>6, <1>7 DEF u

(* An element with nothing of its kind before it comes before all others   *)
(* of its kind.                                                            *)
LEMMA ArrangedFirst ==
  ASSUME NEW S, NEW R, NEW s \in Seq(S), NEW k \in DOMAIN s, Arranged(s, R),
         NEW x \in ToSet(s), \A j \in 1 .. k - 1 : s[j] # x
  PROVE  x = s[k] \/ <<s[k], x>> \in R
<1>1. PICK i \in DOMAIN s : s[i] = x
  BY DEF ToSet
<1>2. Len(s) \in Nat /\ DOMAIN s = 1 .. Len(s)
  BY LenProperties
<1>3. i = k \/ k < i
  BY <1>1, <1>2
<1> QED
  BY <1>1, <1>3 DEF Arranged

-----------------------------------------------------------------------------

(* The array of packet q is the sender's, who deletes it.                  *)
SenderOwns(q) == InTx(q) \/ send[q] \in Sending

\* Pointer x is a thread's, or that of a packet in an RX FIFO.
ThreadOwns(th, x) == recv[th].pc = "store" /\ recv[th].pkt \in Dresp /\ recv[th].ptr = x
RxOwns(x) == \E t \in Tile : \E e \in ToSet(rx[t]) : e.pkt \in Dresp /\ e.ptr = x

Owned(x) ==
  \/ x.data \in Dresp /\ x = OwnPointer(x.data) /\ SenderOwns(x.data)
  \/ \E th \in Thread : ThreadOwns(th, x)
  \/ RxOwns(x)

HeapOK == \A x \in Pointer : x \in heap <=> Owned(x)

\* Only packets for other processes are given to a bridge.
SendSpace == \A p \in Packet : send[p] # "none" => DestRank(p) # SourceRank(p)

\* Receivers own arrays in their own memory, sent to their process.
ThreadSpace ==
  \A th \in Thread, x \in Pointer : ThreadOwns(th, x) =>
    x.data \in Dresp /\ x.space = th[1] /\ th[1] = DestRank(x.data)

RxSpace ==
  \A t \in Tile : \A e \in ToSet(rx[t]) : e.pkt \in Dresp =>
    e.ptr.data \in Dresp /\ e.ptr.space = RankOf(t) /\ RankOf(t) = DestRank(e.ptr.data)

SpaceOK == SendSpace /\ ThreadSpace /\ RxSpace

Owning == Once /\ HeapOK /\ SpaceOK /\ IsFiniteSet(heap)

-----------------------------------------------------------------------------
(* What the steps do to the owners *)

\* The pointer of a packet points to its own array, at its sender.
LEMMA OwnPointerOf ==
  ASSUME NEW q \in Dresp
  PROVE  /\ OwnPointer(q) \in Pointer /\ OwnPointer(q).data = q
         /\ OwnPointer(q).space = SourceRank(q) /\ q \in Packet /\ q # 0
BY RanksOfPacket, DrespArePackets DEF OwnPointer, SourceRank

\* Steps that leave the receiving threads alone.
LEMMA SameThreadOwners ==
  ASSUME UNCHANGED recv
  PROVE  \A th \in Thread, x \in Pointer : ThreadOwns(th, x)' = ThreadOwns(th, x)
BY DEF ThreadOwns

\* Steps that leave the RX FIFOs alone.
LEMMA SameRxOwners ==
  ASSUME UNCHANGED rx
  PROVE  \A x \in Pointer : RxOwns(x)' = RxOwns(x)
BY DEF RxOwns

\* A thread that is not about to store a packet with an array owns none.
LEMMA ThreadLeaves ==
  ASSUME Owning, NEW th \in Thread, NEW st, recv' = [recv EXCEPT ![th] = st]
  PROVE  \A h \in Thread, x \in Pointer :
           ThreadOwns(h, x)' <=>
             IF h = th THEN st.pc = "store" /\ st.pkt \in Dresp /\ st.ptr = x
                       ELSE ThreadOwns(h, x)
BY DEF ThreadOwns, Owning, Once, Inv, TypeOK

\* A packet that is stored takes over its array.
LEMMA RxGains ==
  ASSUME Owning, NEW t \in Tile, NEW e \in Stored, rx' = [rx EXCEPT ![t] = Append(@, e)]
  PROVE  /\ \A u \in Tile : ToSet(rx'[u]) = IF u = t THEN ToSet(rx[t]) \cup {e} ELSE ToSet(rx[u])
         /\ \A x \in Pointer : RxOwns(x)' <=> RxOwns(x) \/ (e.pkt \in Dresp /\ e.ptr = x)
<1>1. rx \in [Tile -> Seq(Stored)] /\ rx[t] \in Seq(Stored)
  BY DEF Owning, Once, Inv, TypeOK
<1>2. ToSet(Append(rx[t], e)) = ToSet(rx[t]) \cup {e}
  BY <1>1, AppendNew
<1>3. ASSUME NEW u \in Tile
      PROVE  ToSet(rx'[u]) = IF u = t THEN ToSet(rx[t]) \cup {e} ELSE ToSet(rx[u])
  <2>1. CASE u = t
    <3>1. rx'[u] = Append(rx[t], e)
      BY <1>1, <2>1
    <3> QED
      BY <1>2, <2>1, <3>1
  <2>2. CASE u # t
    <3>1. rx'[u] = rx[u]
      BY <1>1, <2>2
    <3> QED
      BY <2>2, <3>1
  <2> QED
    BY <2>1, <2>2
<1>4. ASSUME NEW x \in Pointer
      PROVE  RxOwns(x)' <=> RxOwns(x) \/ (e.pkt \in Dresp /\ e.ptr = x)
  <2>1. RxOwns(x)' <=> \E u \in Tile : \E f \in ToSet(rx'[u]) : f.pkt \in Dresp /\ f.ptr = x
    BY DEF RxOwns
  <2>2. RxOwns(x) <=> \E u \in Tile : \E f \in ToSet(rx[u]) : f.pkt \in Dresp /\ f.ptr = x
    BY DEF RxOwns
  <2> QED
    BY <1>3, <2>1, <2>2
<1> QED
  BY <1>3, <1>4

\* The owners after a step, by kind.
LEMMA OwnedNext ==
  ASSUME NEW x \in Pointer
  PROVE  Owned(x)' <=> \/ x.data \in Dresp /\ x = OwnPointer(x.data) /\ SenderOwns(x.data)'
                       \/ \E th \in Thread : ThreadOwns(th, x)'
                       \/ RxOwns(x)'
BY DEF Owned, OwnPointer, RankOf, NoArray

\* What is said of address spaces depends on these variables only.
LEMMA SameSpace ==
  /\ UNCHANGED send => SendSpace' = SendSpace
  /\ UNCHANGED recv => ThreadSpace' = ThreadSpace
  /\ UNCHANGED rx => RxSpace' = RxSpace
BY DEF SendSpace, ThreadSpace, ThreadOwns, RxSpace, DestRank, SourceRank, Dest, RankOf

\* What the invariants of the sender and of the receivers say together.
LEMMA OwnersApart ==
  ASSUME Owning, NEW q \in Dresp, SenderOwns(q)
  PROVE  /\ \A th \in Thread : ~ThreadOwns(th, OwnPointer(q))
         /\ ~RxOwns(OwnPointer(q))
<1>1. PacketAt(q) /\ ArrayAt(q) /\ SpaceOK
  BY DrespArePackets DEF Owning, Once, PacketOnce, ArrayOnce
<1>2. OwnPointer(q) \in Pointer /\ OwnPointer(q).data = q /\ OwnPointer(q).space = SourceRank(q)
  BY OwnPointerOf
<1>3. ASSUME NEW th \in Thread, ThreadOwns(th, OwnPointer(q)) PROVE FALSE
  <2>1. ArrayHeldBy(th, q)
    BY <1>2, <1>3 DEF ThreadOwns, ArrayHeldBy
  <2>2. send[q] \in {"arrayTest", "sent"}
    BY <1>1, <2>1 DEF ArrayAt
  <2>3. DestRank(q) # SourceRank(q)
    BY <1>1, <2>2, DrespArePackets DEF SpaceOK, SendSpace
  <2> QED
    BY <1>1, <1>2, <1>3, <2>3 DEF SpaceOK, ThreadSpace
<1>4. ASSUME RxOwns(OwnPointer(q)) PROVE FALSE
  <2>1. PICK t \in Tile : \E e \in ToSet(rx[t]) : e.pkt \in Dresp /\ e.ptr = OwnPointer(q)
    BY <1>4 DEF RxOwns
  <2>2. PICK e \in ToSet(rx[t]) : e.pkt \in Dresp /\ e.ptr = OwnPointer(q)
    BY <2>1
  <2>3. ArrayInRx(t, q)
    BY <1>2, <2>2 DEF ArrayInRx
  <2>4. ~InTx(q) /\ send[q] # "none"
    BY <1>1, <2>3 DEF ArrayAt, Unsent, SenderOwns, Sending
  <2>5. DestRank(q) # SourceRank(q)
    BY <1>1, <2>4, DrespArePackets DEF SpaceOK, SendSpace
  <2> QED
    BY <1>1, <1>2, <2>2, <2>5 DEF SpaceOK, RxSpace
<1> QED
  BY <1>3, <1>4

-----------------------------------------------------------------------------
(* Owning is inductive *)

\* There are no arrays at first.
LEMMA InitOwning == Init => Owning
<1> SUFFICES ASSUME Init PROVE Owning
  OBVIOUS
<1>1. Once /\ heap = {}
  BY InitOnce DEF Init
<1>2. /\ \A t \in Tile : tx[t] = <<>> /\ rx[t] = <<>>
      /\ \A th \in Thread : recv[th].pc = "listen"
      /\ \A p \in Packet : send[p] = "none"
  BY DEF Init, Listening
<1>3. ToSet(<<>>) = {}
  BY DEF ToSet
<1>4. /\ \A q \in Dresp : ~SenderOwns(q)
      /\ \A x : ~RxOwns(x)
      /\ \A th \in Thread, x \in Pointer : ~ThreadOwns(th, x)
  BY <1>2, <1>3, OwnPointerOf, RanksOfPacket
  DEF SenderOwns, InTx, Sending, ThreadOwns, RxOwns
<1>5. HeapOK
  BY <1>1, <1>4 DEF HeapOK, Owned
<1>6. SpaceOK
  BY <1>2, <1>3, <1>4 DEF SpaceOK, SendSpace, ThreadSpace, RxSpace
<1> QED
  BY <1>1, <1>5, <1>6, FS_EmptySet DEF Owning

\* A new array is the sender's.
LEMMA CreateOwning ==
  ASSUME Owning, NEW p \in Packet, Create(p)
  PROVE  (HeapOK /\ SpaceOK /\ IsFiniteSet(heap))'
<1>1. /\ p \notin created /\ tx' = [tx EXCEPT ![Source[p]] = Append(@, p)]
      /\ heap' = IF p \in Dresp THEN heap \cup {OwnPointer(p)} ELSE heap
      /\ UNCHANGED send /\ UNCHANGED recv /\ UNCHANGED rx
  BY DEF Create, TxPush
<1>2. Once /\ HeapOK /\ SpaceOK /\ IsFiniteSet(heap)
  BY DEF Owning
<1>3. \A q \in Packet : InTx(q)' <=> InTx(q) \/ q = p
  <2>1. ~InTx(p)
    BY <1>1, <1>2 DEF Once, PacketOnce, PacketAt
  <2> QED
    BY <1>1, <1>2, <2>1, PushTx
<1>4. \A q \in Dresp : SenderOwns(q)' <=> SenderOwns(q) \/ q = p
  BY <1>1, <1>3, DrespArePackets DEF SenderOwns
<1>5. ASSUME NEW x \in Pointer PROVE x \in heap' <=> Owned(x)'
  <2>1. Owned(x)' <=> Owned(x) \/ (x.data \in Dresp /\ x = OwnPointer(x.data) /\ x.data = p)
    BY <1>1, <1>4, OwnedNext, SameThreadOwners, SameRxOwners DEF Owned
  <2>2. x \in heap <=> Owned(x)
    BY <1>2 DEF HeapOK
  <2> QED
    BY <1>1, <2>1, <2>2, OwnPointerOf
<1>6. IsFiniteSet(heap')
  BY <1>1, <1>2, FS_AddElement
<1> QED
  BY <1>1, <1>2, <1>5, <1>6, SameSpace DEF HeapOK, SpaceOK, Pointer, Rank

\* Within a process the array changes hands from sender to RX FIFO.
LEMMA TransmitLocalOwning ==
  ASSUME Owning, NEW t \in Tile, TransmitLocal(t)
  PROVE  (HeapOK /\ SpaceOK /\ IsFiniteSet(heap))'
<1> DEFINE p == Head(tx[t])
           e == [pkt |-> p, ptr |-> OwnPointer(p)]
<1>1. /\ tx[t] # <<>> /\ tx' = [tx EXCEPT ![t] = Tail(@)] /\ DestRank(p) = RankOf(t)
      /\ rx' = [rx EXCEPT ![Dest(p)] = Append(@, e)]
      /\ UNCHANGED heap /\ UNCHANGED send /\ UNCHANGED recv
  BY DEF TransmitLocal
<1>2. Once /\ HeapOK /\ SpaceOK /\ IsFiniteSet(heap)
  BY DEF Owning
<1>3. /\ p \in Packet /\ InTx(p) /\ Source[p] = t
      /\ \A q \in Packet : InTx(q)' <=> InTx(q) /\ q # p
  BY <1>1, <1>2, PopTx
<1>4. e \in Stored /\ e.pkt = p /\ e.ptr = OwnPointer(p) /\ Dest(p) \in Tile
  BY <1>3, RanksOfPacket DEF Stored
<1>5. send[p] = "none"
  BY <1>2, <1>3 DEF Once, PacketOnce, PacketAt
<1>6. RankOf(Dest(p)) = DestRank(p) /\ DestRank(p) = SourceRank(p)
  BY <1>1, <1>3 DEF DestRank, SourceRank
<1> HIDE DEF p, e
<1>7. \A q \in Dresp : SenderOwns(q)' <=> SenderOwns(q) /\ q # p
  BY <1>1, <1>3, <1>5, DrespArePackets DEF SenderOwns, Sending
<1>8. /\ \A u \in Tile : ToSet(rx'[u]) = IF u = Dest(p) THEN ToSet(rx[Dest(p)]) \cup {e}
                                                       ELSE ToSet(rx[u])
      /\ \A x \in Pointer : RxOwns(x)' <=> RxOwns(x) \/ (e.pkt \in Dresp /\ e.ptr = x)
  BY <1>1, <1>4, RxGains
<1>9. ASSUME NEW x \in Pointer PROVE x \in heap' <=> Owned(x)'
  <2>1. x \in heap <=> Owned(x)
    BY <1>2 DEF HeapOK
  <2>2. SenderOwns(p)
    BY <1>3 DEF SenderOwns
  <2>3. (x.data \in Dresp /\ x = OwnPointer(x.data) /\ x.data = p)
          <=> (p \in Dresp /\ OwnPointer(p) = x)
    BY OwnPointerOf
  <2>4. Owned(x)' <=>
          \/ x.data \in Dresp /\ x = OwnPointer(x.data) /\ SenderOwns(x.data) /\ x.data # p
          \/ \E th \in Thread : ThreadOwns(th, x)
          \/ RxOwns(x) \/ (p \in Dresp /\ OwnPointer(p) = x)
    BY <1>1, <1>4, <1>7, <1>8, OwnedNext, SameThreadOwners
  <2> QED
    BY <1>1, <2>1, <2>2, <2>3, <2>4 DEF Owned
<1>10. RxSpace'
  <2> SUFFICES ASSUME NEW u \in Tile, NEW f \in ToSet(rx'[u]), f.pkt \in Dresp
               PROVE  /\ f.ptr.data \in Dresp /\ f.ptr.space = RankOf(u)
                      /\ RankOf(u) = DestRank(f.ptr.data)
    BY DEF RxSpace, DestRank, Dest, RankOf
  <2>1. CASE f \in ToSet(rx[u])
    BY <1>2, <2>1 DEF SpaceOK, RxSpace
  <2>2. CASE f = e /\ u = Dest(p)
    BY <1>4, <1>6, <2>2, OwnPointerOf
  <2> QED
    BY <1>8, <2>1, <2>2
<1> QED
  BY <1>1, <1>2, <1>9, <1>10, SameSpace DEF HeapOK, SpaceOK, Pointer, Rank

\* The sender keeps the array that a bridge is to send.
LEMMA TransmitRemoteOwning ==
  ASSUME Owning, NEW t \in Tile, TransmitRemote(t)
  PROVE  (HeapOK /\ SpaceOK /\ IsFiniteSet(heap))'
<1> DEFINE p == Head(tx[t])
<1>1. /\ tx[t] # <<>> /\ tx' = [tx EXCEPT ![t] = Tail(@)] /\ DestRank(p) # RankOf(t)
      /\ send' = [send EXCEPT ![p] = "header"]
      /\ UNCHANGED heap /\ UNCHANGED rx /\ UNCHANGED recv
  BY DEF TransmitRemote, TxPop
<1>2. Once /\ HeapOK /\ SpaceOK /\ IsFiniteSet(heap)
  BY DEF Owning
<1>3. /\ p \in Packet /\ InTx(p) /\ Source[p] = t
      /\ \A q \in Packet : InTx(q)' <=> InTx(q) /\ q # p
  BY <1>1, <1>2, PopTx
<1>4. DestRank(p) # SourceRank(p)
  BY <1>1, <1>3 DEF SourceRank
<1> HIDE DEF p
<1>5. \A q \in Packet : send'[q] = IF q = p THEN "header" ELSE send[q]
  BY <1>1, <1>2 DEF Once, Inv, TypeOK
<1>6. \A q \in Dresp : SenderOwns(q)' <=> SenderOwns(q)
  BY <1>3, <1>5, DrespArePackets DEF SenderOwns, Sending
<1>7. ASSUME NEW x \in Pointer PROVE x \in heap' <=> Owned(x)'
  BY <1>1, <1>2, <1>6, OwnedNext, SameThreadOwners, SameRxOwners DEF Owned, HeapOK
<1>8. SendSpace'
  BY <1>2, <1>4, <1>5 DEF SpaceOK, SendSpace, DestRank, SourceRank, Dest, RankOf
<1> QED
  BY <1>1, <1>2, <1>7, <1>8, SameSpace DEF HeapOK, SpaceOK, Pointer, Rank

\* A sender that goes on without deleting the array stays its owner.
LEMMA KeepsArray ==
  ASSUME Owning, NEW p \in Packet, NEW st, send[p] # "none",
         send' = [send EXCEPT ![p] = st], st # "none",
         p \in Dresp => send[p] \in Sending /\ st \in Sending,
         UNCHANGED <<tx, recv, heap, rx>>
  PROVE  (HeapOK /\ SpaceOK /\ IsFiniteSet(heap))'
<1>1. Once /\ HeapOK /\ SpaceOK /\ IsFiniteSet(heap)
  BY DEF Owning
<1>2. \A q \in Packet : send'[q] = IF q = p THEN st ELSE send[q]
  BY <1>1 DEF Once, Inv, TypeOK
<1>3. /\ UNCHANGED recv /\ UNCHANGED rx /\ UNCHANGED heap
      /\ \A q \in Packet : InTx(q)' = InTx(q)
  BY SameTx
<1>4. \A q \in Dresp : SenderOwns(q)' <=> SenderOwns(q)
  BY <1>2, <1>3, DrespArePackets DEF SenderOwns
<1>5. ASSUME NEW x \in Pointer PROVE x \in heap' <=> Owned(x)'
  BY <1>1, <1>3, <1>4, OwnedNext, SameThreadOwners, SameRxOwners DEF Owned, HeapOK
<1>6. SendSpace'
  BY <1>1, <1>2 DEF SpaceOK, SendSpace, DestRank, SourceRank, Dest, RankOf
<1> QED
  BY <1>1, <1>3, <1>5, <1>6, SameSpace DEF HeapOK, SpaceOK, Pointer, Rank

\* The array that is deleted is the sender's and nobody else's.
LEMMA ArraySentOwning ==
  ASSUME Owning, NEW p \in Packet, ArraySent(p)
  PROVE  (HeapOK /\ SpaceOK /\ IsFiniteSet(heap))'
<1>1. Once /\ HeapOK /\ SpaceOK /\ IsFiniteSet(heap)
  BY DEF Owning
<1>2. /\ send[p] = "arrayTest" /\ send' = [send EXCEPT ![p] = "sent"]
      /\ heap' = heap \ {OwnPointer(p)}
      /\ UNCHANGED tx /\ UNCHANGED recv /\ UNCHANGED rx
  BY DEF ArraySent, Deleted
<1>3. p \in Dresp /\ ~InTx(p) /\ SenderOwns(p)
  BY <1>1, <1>2 DEF Once, Inv, SendOK, PacketOnce, PacketAt, SenderOwns, Sending
<1>4. \A q \in Packet : send'[q] = IF q = p THEN "sent" ELSE send[q]
  BY <1>1, <1>2 DEF Once, Inv, TypeOK
<1>5. \A q \in Dresp : SenderOwns(q)' <=> SenderOwns(q) /\ q # p
  BY <1>2, <1>3, <1>4, SameTx, DrespArePackets DEF SenderOwns, Sending
<1>6. ASSUME NEW x \in Pointer PROVE x \in heap' <=> Owned(x)'
  <2>1. Owned(x)' <=>
          \/ x.data \in Dresp /\ x = OwnPointer(x.data) /\ SenderOwns(x.data) /\ x.data # p
          \/ \E th \in Thread : ThreadOwns(th, x)
          \/ RxOwns(x)
    BY <1>2, <1>5, OwnedNext, SameThreadOwners, SameRxOwners
  <2>2. x \in heap <=> Owned(x)
    BY <1>1 DEF HeapOK
  <2>3. CASE x = OwnPointer(p)
    BY <1>2, <1>3, <2>1, <2>3, OwnersApart, OwnPointerOf
  <2>4. CASE x # OwnPointer(p)
    BY <1>2, <2>1, <2>2, <2>4, OwnPointerOf DEF Owned
  <2> QED
    BY <2>3, <2>4
<1>7. SendSpace'
  BY <1>1, <1>2, <1>4 DEF SpaceOK, SendSpace, DestRank, SourceRank, Dest, RankOf
<1>8. IsFiniteSet(heap')
  BY <1>1, <1>2, FS_RemoveElement
<1> QED
  BY <1>1, <1>2, <1>6, <1>7, <1>8, SameSpace DEF HeapOK, SpaceOK, Pointer, Rank

\* A sender owns its array until it has deleted it.
LEMMA SendOwning ==
  ASSUME Owning, NEW p \in Packet, SendStep(p)
  PROVE  (HeapOK /\ SpaceOK /\ IsFiniteSet(heap))'
<1>1. CASE PostHeader(p)
  BY <1>1, KeepsArray DEF PostHeader, Sending
<1>2. CASE HeaderSent(p)
  <2> DEFINE st == IF p \in Dresp THEN "array" ELSE "sent"
  <2>1. /\ send[p] = "headerTest" /\ send' = [send EXCEPT ![p] = st]
        /\ UNCHANGED <<tx, recv, heap, rx>>
    BY <1>2 DEF HeaderSent
  <2>2. st # "none" /\ (p \in Dresp => st \in Sending)
    BY DEF Sending
  <2> HIDE DEF st
  <2> QED
    BY <2>1, <2>2, KeepsArray DEF Sending
<1>3. CASE PostArray(p)
  BY <1>3, KeepsArray DEF PostArray, Sending
<1> QED
  BY <1>1, <1>2, <1>3, ArraySentOwning DEF SendStep

\* A thread that receives a packet owns no array yet.
LEMMA ReceiveHeaderOwning ==
  ASSUME Owning, NEW th \in Thread, ReceiveHeader(th)
  PROVE  (HeapOK /\ SpaceOK /\ IsFiniteSet(heap))'
<1>1. Once /\ HeapOK /\ SpaceOK /\ IsFiniteSet(heap)
  BY DEF Owning
<1>2. /\ UNCHANGED tx /\ UNCHANGED rx /\ UNCHANGED send /\ UNCHANGED heap
      /\ recv[th].pc = "listen"
  BY DEF ReceiveHeader
<1>3. PICK p : recv' = [recv EXCEPT
                         ![th] = [pc |-> IF p \in Dresp THEN "awaitArray" ELSE "store",
                                  pkt |-> p, ptr |-> OwnPointer(p)]]
  BY DEF ReceiveHeader
<1> DEFINE st == [pc |-> IF p \in Dresp THEN "awaitArray" ELSE "store",
                  pkt |-> p, ptr |-> OwnPointer(p)]
<1>4. ~(st.pc = "store" /\ st.pkt \in Dresp)
  OBVIOUS
<1>5. recv' = [recv EXCEPT ![th] = st]
  BY <1>3
<1> HIDE DEF st
<1>6. \A h \in Thread, x \in Pointer : ThreadOwns(h, x)' <=> ThreadOwns(h, x)
  <2>1. \A x \in Pointer : ~ThreadOwns(th, x)
    BY <1>2 DEF ThreadOwns
  <2> QED
    BY <1>4, <1>5, <2>1, ThreadLeaves
<1>7. \A q \in Dresp : SenderOwns(q)' <=> SenderOwns(q)
  BY <1>2, SameTx, DrespArePackets DEF SenderOwns
<1>8. ASSUME NEW x \in Pointer PROVE x \in heap' <=> Owned(x)'
  BY <1>1, <1>2, <1>6, <1>7, OwnedNext, SameRxOwners DEF Owned, HeapOK
<1>9. ThreadSpace'
  BY <1>1, <1>6 DEF SpaceOK, ThreadSpace, DestRank, Dest, RankOf, Pointer, Rank
<1> QED
  BY <1>1, <1>2, <1>8, <1>9, SameSpace DEF HeapOK, SpaceOK, Pointer, Rank

\* The array that is received is new, and the thread's.
LEMMA ReceiveArrayOwning ==
  ASSUME Owning, NEW th \in Thread, ReceiveArray(th)
  PROVE  (HeapOK /\ SpaceOK /\ IsFiniteSet(heap))'
<1>1. Once /\ HeapOK /\ SpaceOK /\ IsFiniteSet(heap)
  BY DEF Owning
<1>2. /\ th[1] \in Rank /\ recv[th] \in ThreadState /\ ThreadOK(recv[th], th[1])
      /\ recv \in [Thread -> ThreadState]
  BY <1>1 DEF Once, Thread, Inv, TypeOK, RecvOK
<1>3. /\ UNCHANGED tx /\ UNCHANGED rx /\ UNCHANGED send /\ recv[th].pc = "awaitArray"
  BY DEF ReceiveArray
<1>4. PICK s \in Rank : \E i \in DOMAIN net[s][th[1]] :
        LET arr == [space |-> th[1], data |-> net[s][th[1]][i].pkt] IN
          /\ net[s][th[1]][i].tag = DataTag(recv[th].pkt)
          /\ Take(s, th[1], i)
          /\ heap' = heap \cup {arr}
          /\ recv' = [recv EXCEPT ![th].pc = "store", ![th].ptr = arr]
  BY DEF ReceiveArray, NewWord, Matches
<1>5. PICK i \in DOMAIN net[s][th[1]] :
        LET arr == [space |-> th[1], data |-> net[s][th[1]][i].pkt] IN
          /\ net[s][th[1]][i].tag = DataTag(recv[th].pkt)
          /\ Take(s, th[1], i)
          /\ heap' = heap \cup {arr}
          /\ recv' = [recv EXCEPT ![th].pc = "store", ![th].ptr = arr]
  BY <1>4
<1> DEFINE m == net[s][th[1]][i]
           arr == [space |-> th[1], data |-> m.pkt]
           st == [recv[th] EXCEPT !.pc = "store", !.ptr = arr]
<1>6. m \in Message /\ m.pkt \in Packet /\ DestRank(m.pkt) = th[1]
  BY <1>1, <1>2, <1>5, ReceiveMessage
<1>7. MessageOK(m, th[1])
  BY <1>1, <1>2, <1>5, TakeKeepsNet DEF Once, Inv
<1>8. recv[th].pkt \in Packet /\ recv[th].pkt \in Dresp
  BY <1>2, <1>3 DEF ThreadOK
<1>9. m.pkt \in Dresp
  BY <1>5, <1>6, <1>7, <1>8, TagsDiffer DEF MessageOK
<1>10. recv' = [recv EXCEPT ![th] = st] /\ heap' = heap \cup {arr}
  BY <1>2, <1>5 DEF ThreadState
<1>11. st.pc = "store" /\ st.pkt \in Dresp /\ st.ptr = arr
  BY <1>2, <1>8 DEF ThreadState
<1>12. arr \in Pointer /\ arr.data \in Dresp /\ arr.space = th[1] /\ th[1] = DestRank(arr.data)
  BY <1>2, <1>6, <1>9 DEF Pointer
<1> HIDE DEF m, arr, st
<1>13. \A h \in Thread, x \in Pointer :
         ThreadOwns(h, x)' <=> ThreadOwns(h, x) \/ (h = th /\ x = arr)
  <2>1. \A x \in Pointer : ~ThreadOwns(th, x)
    BY <1>3 DEF ThreadOwns
  <2> QED
    BY <1>10, <1>11, <2>1, ThreadLeaves
<1>14. \A q \in Dresp : SenderOwns(q)' <=> SenderOwns(q)
  BY <1>3, SameTx, DrespArePackets DEF SenderOwns
<1>15. ASSUME NEW x \in Pointer PROVE x \in heap' <=> Owned(x)'
  <2>1. Owned(x)' <=> Owned(x) \/ x = arr
    BY <1>3, <1>13, <1>14, OwnedNext, SameRxOwners DEF Owned
  <2> QED
    BY <1>1, <1>10, <2>1 DEF HeapOK
<1>16. ThreadSpace'
  BY <1>1, <1>12, <1>13 DEF SpaceOK, ThreadSpace, DestRank, Dest, RankOf, Pointer, Rank
<1>17. IsFiniteSet(heap')
  BY <1>1, <1>10, FS_AddElement
<1> QED
  BY <1>1, <1>3, <1>15, <1>16, <1>17, SameSpace DEF HeapOK, SpaceOK, Pointer, Rank

\* The array changes hands from thread to RX FIFO.
LEMMA StoreOwning ==
  ASSUME Owning, NEW th \in Thread, Store(th)
  PROVE  (HeapOK /\ SpaceOK /\ IsFiniteSet(heap))'
<1> DEFINE p == recv[th].pkt
           e == [pkt |-> p, ptr |-> recv[th].ptr]
<1>1. Once /\ HeapOK /\ SpaceOK /\ IsFiniteSet(heap)
  BY DEF Owning
<1>2. /\ UNCHANGED tx /\ UNCHANGED send /\ UNCHANGED heap
      /\ recv[th].pc = "store" /\ recv' = [recv EXCEPT ![th] = Listening]
      /\ rx' = [rx EXCEPT ![Dest(p)] = Append(@, e)]
  BY DEF Store, StoreDest
<1>3. p \in Packet /\ e \in Stored /\ Dest(p) \in Tile /\ DestRank(p) = th[1]
  BY <1>1, <1>2, StoreIsNew, DestIsTile DEF Once, Inv, RecvOK, ThreadOK
<1>4. e.pkt = p /\ e.ptr = recv[th].ptr /\ e.ptr \in Pointer
  BY <1>3 DEF Stored
<1>5. \A x \in Pointer : ThreadOwns(th, x) <=> e.pkt \in Dresp /\ e.ptr = x
  BY <1>2, <1>4 DEF ThreadOwns
<1> HIDE DEF p, e
<1>6. /\ \A u \in Tile : ToSet(rx'[u]) = IF u = Dest(p) THEN ToSet(rx[Dest(p)]) \cup {e}
                                                       ELSE ToSet(rx[u])
      /\ \A x \in Pointer : RxOwns(x)' <=> RxOwns(x) \/ (e.pkt \in Dresp /\ e.ptr = x)
  BY <1>1, <1>2, <1>3, RxGains
<1>7. \A h \in Thread, x \in Pointer : ThreadOwns(h, x)' <=> ThreadOwns(h, x) /\ h # th
  <2>1. Listening.pc # "store"
    BY DEF Listening
  <2> QED
    BY <1>2, <2>1, ThreadLeaves
<1>8. \A q \in Dresp : SenderOwns(q)' <=> SenderOwns(q)
  BY <1>2, SameTx, DrespArePackets DEF SenderOwns
<1>9. ASSUME NEW x \in Pointer PROVE x \in heap' <=> Owned(x)'
  <2>1. Owned(x)' <=> Owned(x)
    BY <1>5, <1>6, <1>7, <1>8, OwnedNext DEF Owned
  <2> QED
    BY <1>1, <1>2, <2>1 DEF HeapOK
<1>10. ThreadSpace'
  BY <1>1, <1>7 DEF SpaceOK, ThreadSpace, DestRank, Dest, RankOf, Pointer, Rank
<1>11. RxSpace'
  <2> SUFFICES ASSUME NEW u \in Tile, NEW f \in ToSet(rx'[u]), f.pkt \in Dresp
               PROVE  /\ f.ptr.data \in Dresp /\ f.ptr.space = RankOf(u)
                      /\ RankOf(u) = DestRank(f.ptr.data)
    BY DEF RxSpace, DestRank, Dest, RankOf
  <2>1. CASE f \in ToSet(rx[u])
    BY <1>1, <2>1 DEF SpaceOK, RxSpace
  <2>2. CASE f = e /\ u = Dest(p)
    <3>1. ThreadOwns(th, f.ptr)
      BY <1>4, <1>5, <2>2
    <3>2. RankOf(u) = th[1]
      BY <1>3, <2>2 DEF DestRank
    <3> QED
      BY <1>1, <1>4, <2>2, <3>1, <3>2 DEF SpaceOK, ThreadSpace
  <2> QED
    BY <1>6, <2>1, <2>2
<1> QED
  BY <1>1, <1>2, <1>9, <1>10, <1>11, SameSpace DEF HeapOK, SpaceOK, Pointer, Rank

\* A step that changes none of this.
LEMMA IdleOwning ==
  ASSUME Owning, UNCHANGED <<tx, send, recv, heap, rx>>
  PROVE  (HeapOK /\ SpaceOK /\ IsFiniteSet(heap))'
<1>1. Once /\ HeapOK /\ SpaceOK /\ IsFiniteSet(heap)
  BY DEF Owning
<1>2. /\ UNCHANGED tx /\ UNCHANGED send /\ UNCHANGED recv /\ UNCHANGED heap /\ UNCHANGED rx
  OBVIOUS
<1>3. \A q \in Dresp : SenderOwns(q)' <=> SenderOwns(q)
  BY <1>2, SameTx, DrespArePackets DEF SenderOwns
<1>4. ASSUME NEW x \in Pointer PROVE x \in heap' <=> Owned(x)'
  BY <1>1, <1>2, <1>3, OwnedNext, SameThreadOwners, SameRxOwners DEF Owned, HeapOK
<1> QED
  BY <1>1, <1>2, <1>4, SameSpace DEF HeapOK, SpaceOK, Pointer, Rank

(* Owning holds in every state that the transport reaches: each array on   *)
(* the heap has an owner, and each owner's array is on the heap.           *)
THEOREM OwningHolds == Spec => []Owning
<1>1. Owning /\ Once' /\ [Next]_vars => Owning'
  <2> SUFFICES ASSUME Owning, Once', [Next]_vars
               PROVE  (HeapOK /\ SpaceOK /\ IsFiniteSet(heap))'
    BY DEF Owning
  <2>1. CASE UNCHANGED vars
    BY <2>1, IdleOwning DEF vars
  <2>2. ASSUME NEW p \in Packet, Create(p) \/ SendStep(p)
        PROVE  (HeapOK /\ SpaceOK /\ IsFiniteSet(heap))'
    BY <2>2, CreateOwning, SendOwning
  <2>3. ASSUME NEW t \in Tile, TileStep(t)
        PROVE  (HeapOK /\ SpaceOK /\ IsFiniteSet(heap))'
    <3>1. CASE BeginTransmit(t) \/ EndTransmit(t)
      BY <3>1, IdleOwning DEF BeginTransmit, EndTransmit
    <3> QED
      BY <2>3, <3>1, TransmitLocalOwning, TransmitRemoteOwning DEF TileStep
  <2>4. ASSUME NEW th \in Thread, ThreadStep(th)
        PROVE  (HeapOK /\ SpaceOK /\ IsFiniteSet(heap))'
    BY <2>4, ReceiveHeaderOwning, ReceiveArrayOwning, StoreOwning DEF ThreadStep
  <2> QED
    BY <2>1, <2>2, <2>3, <2>4 DEF Next
<1> QED
  BY OnceHolds, InitOwning, <1>1, PTL DEF Spec

-----------------------------------------------------------------------------
(* ArrayOwnership *)

SenderPair(p) == <<<<"sender", p, 0>>, OwnPointer(p)>>
ThreadPair(th) == <<<<"thread", th[1], th[2]>>, recv[th].ptr>>
RxPair(t, i) == <<<<"rx", t, i>>, rx[t][i].ptr>>

\* The owners, of each kind.
LEMMA KindsOfOwner ==
  ASSUME Owning, NEW y
  PROVE  y \in Owners <=>
           \/ \E p \in Dresp : SenderOwns(p) /\ y = SenderPair(p)
           \/ \E th \in Thread : ThreadOwns(th, recv[th].ptr) /\ y = ThreadPair(th)
           \/ \E t \in Tile : \E i \in DOMAIN rx[t] :
                rx[t][i].pkt \in Dresp /\ y = RxPair(t, i)
<1>1. \A p \in Dresp : SenderOwns(p) => p \in created
  BY DrespArePackets DEF Owning, Once, PacketOnce, PacketAt, SenderOwns, Sending
<1>2. \A p \in Dresp : InTx(p) <=> \E i \in DOMAIN tx[Source[p]] : tx[Source[p]][i] = p
  BY DEF InTx, ToSet
<1>3. y \in Owners <=>
        \/ \E p \in created \cap Dresp :
             /\ send[p] \in Sending \/ \E i \in DOMAIN tx[Source[p]] : tx[Source[p]][i] = p
             /\ y = SenderPair(p)
        \/ \E th \in Thread : recv[th].pc = "store" /\ recv[th].pkt \in Dresp /\ y = ThreadPair(th)
        \/ \E t \in Tile : \E i \in DOMAIN rx[t] : rx[t][i].pkt \in Dresp /\ y = RxPair(t, i)
  BY DEF Owners, SenderPair, ThreadPair, RxPair
<1>4. (\E p \in created \cap Dresp :
         /\ send[p] \in Sending \/ \E i \in DOMAIN tx[Source[p]] : tx[Source[p]][i] = p
         /\ y = SenderPair(p))
      <=> \E p \in Dresp : SenderOwns(p) /\ y = SenderPair(p)
  BY <1>1, <1>2 DEF SenderOwns
<1> QED
  BY <1>3, <1>4 DEF ThreadOwns

\* What a thread and the packets of an RX FIFO own.
LEMMA OwnedArrays ==
  ASSUME Owning
  PROVE  /\ \A th \in Thread : recv[th].ptr \in Pointer
         /\ \A th \in Thread : ThreadOwns(th, recv[th].ptr) =>
              recv[th].ptr.data \in Dresp /\ ArrayHeldBy(th, recv[th].ptr.data)
         /\ \A t \in Tile : \A i \in DOMAIN rx[t] :
              /\ rx[t][i] \in ToSet(rx[t]) /\ rx[t][i].ptr \in Pointer
              /\ rx[t][i].pkt \in Dresp =>
                   rx[t][i].ptr.data \in Dresp /\ ArrayInRx(t, rx[t][i].ptr.data)
<1>1. TypeOK /\ RecvOK /\ RxOK /\ SpaceOK
  BY DEF Owning, Once, Inv
<1>2. \A th \in Thread : recv[th].ptr \in Pointer
  BY <1>1 DEF TypeOK, ThreadState
<1>3. \A th \in Thread : ThreadOwns(th, recv[th].ptr) =>
        recv[th].ptr.data \in Dresp /\ ArrayHeldBy(th, recv[th].ptr.data)
  BY <1>1, <1>2 DEF SpaceOK, ThreadSpace, ThreadOwns, ArrayHeldBy
<1>4. ASSUME NEW t \in Tile, NEW i \in DOMAIN rx[t]
      PROVE  /\ rx[t][i] \in ToSet(rx[t]) /\ rx[t][i].ptr \in Pointer
             /\ rx[t][i].pkt \in Dresp =>
                  rx[t][i].ptr.data \in Dresp /\ ArrayInRx(t, rx[t][i].ptr.data)
  <2>1. rx[t] \in Seq(Stored)
    BY <1>1 DEF TypeOK
  <2>2. rx[t][i] \in Stored /\ rx[t][i] \in ToSet(rx[t])
    BY <2>1, LenProperties, ElementOfSeq DEF ToSet
  <2>3. rx[t][i].pkt \in Dresp => rx[t][i].ptr.data \in Dresp
    BY <1>1, <2>2 DEF SpaceOK, RxSpace
  <2> QED
    BY <2>2, <2>3 DEF Stored, ArrayInRx
<1> QED
  BY <1>2, <1>3, <1>4

\* No array has two owners.
LEMMA OneOwner ==
  ASSUME Owning, NEW y \in Owners, NEW z \in Owners, y[2] = z[2]
  PROVE  y = z
<1> DEFINE S(x) == \E p \in Dresp : SenderOwns(p) /\ x = SenderPair(p)
           H(x) == \E th \in Thread : ThreadOwns(th, recv[th].ptr) /\ x = ThreadPair(th)
           R(x) == \E t \in Tile : \E i \in DOMAIN rx[t] :
                     rx[t][i].pkt \in Dresp /\ x = RxPair(t, i)
<1>1. ASSUME NEW a, NEW b, S(a), S(b), a[2] = b[2] PROVE a = b
  <2>1. PICK p \in Dresp : a = SenderPair(p)
    BY <1>1
  <2>2. PICK q \in Dresp : b = SenderPair(q)
    BY <1>1
  <2>3. OwnPointer(p) = OwnPointer(q)
    BY <1>1, <2>1, <2>2 DEF SenderPair
  <2>4. p = q
    BY <2>3, OwnPointerOf
  <2> QED
    BY <2>1, <2>2, <2>4
<1>2. ASSUME NEW a, NEW b, S(a), H(b), a[2] = b[2] PROVE FALSE
  <2>1. PICK p \in Dresp : SenderOwns(p) /\ a = SenderPair(p)
    BY <1>2
  <2>2. PICK th \in Thread : ThreadOwns(th, recv[th].ptr) /\ b = ThreadPair(th)
    BY <1>2
  <2>3. ThreadOwns(th, OwnPointer(p))
    BY <1>2, <2>1, <2>2 DEF SenderPair, ThreadPair
  <2> QED
    BY <2>1, <2>3, OwnersApart
<1>3. ASSUME NEW a, NEW b, S(a), R(b), a[2] = b[2] PROVE FALSE
  <2>1. PICK p \in Dresp : SenderOwns(p) /\ a = SenderPair(p)
    BY <1>3
  <2>2. PICK t \in Tile : \E i \in DOMAIN rx[t] : rx[t][i].pkt \in Dresp /\ b = RxPair(t, i)
    BY <1>3
  <2>3. PICK i \in DOMAIN rx[t] : rx[t][i].pkt \in Dresp /\ b = RxPair(t, i)
    BY <2>2
  <2>4. rx[t][i].ptr = OwnPointer(p) /\ rx[t][i] \in ToSet(rx[t])
    BY <1>3, <2>1, <2>3, OwnedArrays DEF SenderPair, RxPair
  <2>5. RxOwns(OwnPointer(p))
    BY <2>3, <2>4 DEF RxOwns
  <2> QED
    BY <2>1, <2>5, OwnersApart
<1>4. \A q \in Dresp : ArrayAt(q)
  BY DEF Owning, Once, ArrayOnce
<1>5. ASSUME NEW a, NEW b, H(a), H(b), a[2] = b[2] PROVE a = b
  <2>1. PICK th \in Thread : ThreadOwns(th, recv[th].ptr) /\ a = ThreadPair(th)
    BY <1>5
  <2>2. PICK h \in Thread : ThreadOwns(h, recv[h].ptr) /\ b = ThreadPair(h)
    BY <1>5
  <2>3. recv[th].ptr = recv[h].ptr
    BY <1>5, <2>1, <2>2 DEF ThreadPair
  <2>4. /\ recv[th].ptr.data \in Dresp
        /\ ArrayHeldBy(th, recv[th].ptr.data) /\ ArrayHeldBy(h, recv[th].ptr.data)
    BY <2>1, <2>2, <2>3, OwnedArrays
  <2>5. h = th
    BY <1>4, <2>4 DEF ArrayAt
  <2> QED
    BY <2>1, <2>2, <2>5
<1>6. ASSUME NEW a, NEW b, H(a), R(b), a[2] = b[2] PROVE FALSE
  <2>1. PICK th \in Thread : ThreadOwns(th, recv[th].ptr) /\ a = ThreadPair(th)
    BY <1>6
  <2>2. PICK t \in Tile : \E i \in DOMAIN rx[t] : rx[t][i].pkt \in Dresp /\ b = RxPair(t, i)
    BY <1>6
  <2>3. PICK i \in DOMAIN rx[t] : rx[t][i].pkt \in Dresp /\ b = RxPair(t, i)
    BY <2>2
  <2>4. recv[th].ptr = rx[t][i].ptr
    BY <1>6, <2>1, <2>3 DEF ThreadPair, RxPair
  <2>5. /\ recv[th].ptr.data \in Dresp
        /\ ArrayHeldBy(th, recv[th].ptr.data) /\ ArrayInRx(t, recv[th].ptr.data)
    BY <2>1, <2>3, <2>4, OwnedArrays
  <2> QED
    BY <1>4, <2>5 DEF ArrayAt
<1>7. ASSUME NEW a, NEW b, R(a), R(b), a[2] = b[2] PROVE a = b
  <2>1. PICK t \in Tile : \E i \in DOMAIN rx[t] : rx[t][i].pkt \in Dresp /\ a = RxPair(t, i)
    BY <1>7
  <2>2. PICK i \in DOMAIN rx[t] : rx[t][i].pkt \in Dresp /\ a = RxPair(t, i)
    BY <2>1
  <2>3. PICK u \in Tile : \E j \in DOMAIN rx[u] : rx[u][j].pkt \in Dresp /\ b = RxPair(u, j)
    BY <1>7
  <2>4. PICK j \in DOMAIN rx[u] : rx[u][j].pkt \in Dresp /\ b = RxPair(u, j)
    BY <2>3
  <2>5. rx[t][i].ptr = rx[u][j].ptr /\ rx[t][i].ptr.data \in Dresp
    BY <1>7, <2>2, <2>4, OwnedArrays DEF RxPair
  <2>6. u = t /\ j = i
    BY <2>5, RxArrayPosition DEF Owning
  <2> QED
    BY <2>2, <2>4, <2>6
<1>8. (S(y) \/ H(y) \/ R(y)) /\ (S(z) \/ H(z) \/ R(z))
  BY KindsOfOwner
<1> HIDE DEF S, H, R
<1> QED
  BY <1>1, <1>2, <1>3, <1>5, <1>6, <1>7, <1>8

\* The arrays of the owners are those on the heap.
LEMMA HeapOfOwners ==
  ASSUME Owning
  PROVE  heap = {o[2] : o \in Owners}
<1>1. HeapOK /\ heap \subseteq Pointer
  BY DEF Owning, Once, Inv, TypeOK
<1>2. ASSUME NEW x \in heap PROVE \E o \in Owners : o[2] = x
  <2>1. x \in Pointer /\ Owned(x)
    BY <1>1 DEF HeapOK
  <2>2. CASE x.data \in Dresp /\ x = OwnPointer(x.data) /\ SenderOwns(x.data)
    <3>1. SenderPair(x.data) \in Owners
      BY <2>2, KindsOfOwner
    <3> QED
      BY <2>2, <3>1 DEF SenderPair
  <2>3. ASSUME NEW th \in Thread, ThreadOwns(th, x) PROVE \E o \in Owners : o[2] = x
    <3>1. recv[th].ptr = x
      BY <2>3 DEF ThreadOwns
    <3>2. ThreadPair(th) \in Owners
      BY <2>3, <3>1, KindsOfOwner
    <3> QED
      BY <3>1, <3>2 DEF ThreadPair
  <2>4. CASE RxOwns(x)
    <3>1. PICK t \in Tile : \E e \in ToSet(rx[t]) : e.pkt \in Dresp /\ e.ptr = x
      BY <2>4 DEF RxOwns
    <3>2. PICK i \in DOMAIN rx[t] : rx[t][i].pkt \in Dresp /\ rx[t][i].ptr = x
      BY <3>1 DEF ToSet
    <3>3. RxPair(t, i) \in Owners
      BY <3>2, KindsOfOwner
    <3> QED
      BY <3>2, <3>3 DEF RxPair
  <2> QED
    BY <2>1, <2>2, <2>3, <2>4 DEF Owned
<1>3. ASSUME NEW o \in Owners PROVE o[2] \in heap
  <2>1. ASSUME NEW p \in Dresp, SenderOwns(p), o = SenderPair(p) PROVE o[2] \in heap
    <3>1. o[2] = OwnPointer(p)
      BY <2>1 DEF SenderPair
    <3> QED
      BY <1>1, <2>1, <3>1, OwnPointerOf DEF HeapOK, Owned
  <2>2. ASSUME NEW th \in Thread, ThreadOwns(th, recv[th].ptr), o = ThreadPair(th)
        PROVE  o[2] \in heap
    <3>1. o[2] = recv[th].ptr /\ recv[th].ptr \in Pointer
      BY <2>2, OwnedArrays DEF ThreadPair
    <3> QED
      BY <1>1, <2>2, <3>1 DEF HeapOK, Owned
  <2>3. ASSUME NEW t \in Tile, NEW i \in DOMAIN rx[t], rx[t][i].pkt \in Dresp, o = RxPair(t, i)
        PROVE  o[2] \in heap
    <3>1. /\ o[2] = rx[t][i].ptr /\ rx[t][i].ptr \in Pointer /\ rx[t][i] \in ToSet(rx[t])
      BY <2>3, OwnedArrays DEF RxPair
    <3>2. RxOwns(o[2])
      BY <2>3, <3>1 DEF RxOwns
    <3> QED
      BY <1>1, <3>1, <3>2 DEF HeapOK, Owned
  <2> QED
    BY <2>1, <2>2, <2>3, KindsOfOwner
<1> QED
  BY <1>2, <1>3

(* Arrays are neither leaked nor deleted early nor shared: the sender      *)
(* deletes its own array once it is sent, and the receiver's lasts.        *)
THEOREM ArrayOwnershipCorrect == Spec => []ArrayOwnership
<1>1. ASSUME Owning PROVE ArrayOwnership
  <2> DEFINE f == [x \in heap |-> CHOOSE o \in Owners : o[2] = x]
  <2>1. heap = {o[2] : o \in Owners} /\ IsFiniteSet(heap)
    BY <1>1, HeapOfOwners DEF Owning
  <2>2. \A x \in heap : f[x] \in Owners /\ f[x][2] = x
    BY <2>1
  <2>3. \A o \in Owners : o[2] \in heap /\ f[o[2]] = o
    <3>1. \A o \in Owners : o[2] \in heap
      BY <2>1
    <3> HIDE DEF f
    <3> QED
      BY <1>1, <2>2, <3>1, OneOwner
  <2>4. f \in [heap -> Owners]
    BY <2>2
  <2> HIDE DEF f
  <2>5. ExistsBijection(heap, Owners)
    BY <2>2, <2>3, <2>4
    DEF ExistsBijection, Bijection, Injection, Surjection, IsInjective
  <2>6. Cardinality(Owners) = Cardinality(heap)
    BY <2>1, <2>5, FS_Bijection
  <2>7. \A t \in Tile : \A i \in DOMAIN rx[t] :
          rx[t][i].pkt \in Dresp => rx[t][i].ptr.space = RankOf(t)
    BY <1>1, OwnedArrays DEF Owning, SpaceOK, RxSpace
  <2> QED
    BY <2>1, <2>6, <2>7 DEF ArrayOwnership
<1> QED
  BY OwningHolds, <1>1, PTL

-----------------------------------------------------------------------------
(* What the steps do to the places *)

\* A packet is handed over to MPI.
LEMMA PostHeaderEffect ==
  ASSUME Once, NEW p \in Packet, PostHeader(p)
  PROVE  /\ send[p] = "header" /\ p \in created
         /\ Header(p) \in Message
         /\ UNCHANGED created /\ UNCHANGED tx /\ UNCHANGED recv /\ UNCHANGED rx
         /\ \A q \in Packet : send'[q] = IF q = p THEN "headerTest" ELSE send[q]
         /\ \A a, b \in Rank :
              net'[a][b] = IF a = SourceRank(p) /\ b = DestRank(p)
                           THEN Append(net[a][b], Header(p)) ELSE net[a][b]
         /\ \A q \in Packet : /\ InNet(q)' <=> InNet(q) \/ q = p
                              /\ ArrayInNet(q)' <=> ArrayInNet(q)
<1>1. /\ send[p] = "header" /\ send' = [send EXCEPT ![p] = "headerTest"]
      /\ net' = [net EXCEPT ![SourceRank(p)][DestRank(p)] = Append(@, Header(p))]
      /\ PacketAt(p)
  BY DEF PostHeader, Header, Once, PacketOnce
<1>2. Header(p) \in Message /\ Header(p).pkt = p /\ SourceRank(p) \in Rank /\ DestRank(p) \in Rank
  BY RanksOfPacket DEF Header, Message
<1>3. Header(p) \notin MessagesOf(p) /\ p \in created
  BY <1>1 DEF PacketAt, InNet
<1>4. \A q \in Packet : /\ InNet(q)' <=> InNet(q) \/ Header(q) = Header(p)
                        /\ ArrayInNet(q)' <=> ArrayInNet(q) \/ ArrayMessage(q) = Header(p)
  BY <1>1, <1>2, <1>3, SendMessage
<1>5. \A q \in Packet : (Header(q) = Header(p) <=> q = p) /\ ArrayMessage(q) # Header(p)
  BY TagsDiffer DEF Header, ArrayMessage
<1>6. \A q \in Packet : send'[q] = IF q = p THEN "headerTest" ELSE send[q]
  BY <1>1 DEF Once, Inv, TypeOK
<1>7. \A a, b \in Rank :
        net'[a][b] = IF a = SourceRank(p) /\ b = DestRank(p)
                     THEN Append(net[a][b], Header(p)) ELSE net[a][b]
  BY <1>1, <1>2 DEF Once, Inv, TypeOK
<1>8. UNCHANGED created /\ UNCHANGED tx /\ UNCHANGED recv /\ UNCHANGED rx
  BY DEF PostHeader
<1> QED
  BY <1>1, <1>2, <1>3, <1>4, <1>5, <1>6, <1>7, <1>8

\* An array is handed over to MPI.
LEMMA PostArrayEffect ==
  ASSUME Once, NEW p \in Packet, PostArray(p)
  PROVE  /\ send[p] = "array" /\ p \in created /\ p \in Dresp
         /\ ArrayMessage(p) \in Message
         /\ UNCHANGED created /\ UNCHANGED tx /\ UNCHANGED recv /\ UNCHANGED rx
         /\ \A q \in Packet : send'[q] = IF q = p THEN "arrayTest" ELSE send[q]
         /\ \A a, b \in Rank :
              net'[a][b] = IF a = SourceRank(p) /\ b = DestRank(p)
                           THEN Append(net[a][b], ArrayMessage(p)) ELSE net[a][b]
         /\ \A q \in Packet : /\ InNet(q)' <=> InNet(q)
                              /\ ArrayInNet(q)' <=> ArrayInNet(q) \/ q = p
<1>1. /\ send[p] = "array" /\ send' = [send EXCEPT ![p] = "arrayTest"]
      /\ net' = [net EXCEPT ![SourceRank(p)][DestRank(p)] = Append(@, ArrayMessage(p))]
      /\ PacketAt(p) /\ p \in Dresp /\ ArrayAt(p)
  BY DEF PostArray, SentTag, ArrayMessage, Once, Inv, SendOK, PacketOnce, ArrayOnce
<1>2. /\ ArrayMessage(p) \in Message /\ ArrayMessage(p).pkt = p
      /\ SourceRank(p) \in Rank /\ DestRank(p) \in Rank
  BY RanksOfPacket DEF ArrayMessage, Message
<1>3. ArrayMessage(p) \notin MessagesOf(p) /\ p \in created
  BY <1>1 DEF PacketAt, ArrayAt, ArrayInNet
<1>4. \A q \in Packet :
        /\ InNet(q)' <=> InNet(q) \/ Header(q) = ArrayMessage(p)
        /\ ArrayInNet(q)' <=> ArrayInNet(q) \/ ArrayMessage(q) = ArrayMessage(p)
  BY <1>1, <1>2, <1>3, SendMessage
<1>5. \A q \in Packet : (ArrayMessage(q) = ArrayMessage(p) <=> q = p) /\ Header(q) # ArrayMessage(p)
  BY TagsDiffer DEF Header, ArrayMessage
<1>6. \A q \in Packet : send'[q] = IF q = p THEN "arrayTest" ELSE send[q]
  BY <1>1 DEF Once, Inv, TypeOK
<1>7. \A a, b \in Rank :
        net'[a][b] = IF a = SourceRank(p) /\ b = DestRank(p)
                     THEN Append(net[a][b], ArrayMessage(p)) ELSE net[a][b]
  BY <1>1, <1>2 DEF Once, Inv, TypeOK
<1>8. UNCHANGED created /\ UNCHANGED tx /\ UNCHANGED recv /\ UNCHANGED rx
  BY DEF PostArray
<1> QED
  BY <1>1, <1>2, <1>3, <1>4, <1>5, <1>6, <1>7, <1>8

\* A thread takes packet p from message i.
HeaderTaken(th, s, i, p) ==
  /\ net[s][th[1]][i] = Header(p) /\ Matches(s, th[1], tag_default, i)
  /\ p \in Packet /\ SourceRank(p) = s /\ DestRank(p) = th[1] /\ InNet(p)
  /\ \A a, b \in Rank :
       net'[a][b] = IF a = s /\ b = th[1] THEN RemoveAt(net[a][b], i) ELSE net[a][b]
  /\ \A q \in Packet : /\ InNet(q)' <=> InNet(q) /\ q # p
                       /\ ArrayInNet(q)' <=> ArrayInNet(q)
  /\ \A q \in Packet, h \in Thread :
       /\ HeldBy(h, q)' <=> IF h = th THEN q = p ELSE HeldBy(h, q)
       /\ WaitsFor(h, q)' <=> IF h = th THEN q = p /\ p \in Dresp ELSE WaitsFor(h, q)
  /\ \A q \in Dresp : Expected(q)' <=> Expected(q)

\* What a thread that listens does is to take a packet.
LEMMA ReceiveHeaderEffect ==
  ASSUME Once, NEW th \in Thread, ReceiveHeader(th)
  PROVE  /\ recv[th].pc = "listen" /\ th[1] \in Rank
         /\ UNCHANGED created /\ UNCHANGED tx /\ UNCHANGED send /\ UNCHANGED rx
         /\ \E s \in Rank : \E i \in DOMAIN net[s][th[1]] : \E p \in Packet :
              HeaderTaken(th, s, i, p)
<1>1. /\ recv[th].pc = "listen" /\ th[1] \in Rank /\ NetShape
      /\ UNCHANGED created /\ UNCHANGED tx /\ UNCHANGED send /\ UNCHANGED rx
  BY DEF ReceiveHeader, Thread, Once, Shape
<1>2. PICK s \in Rank : \E i \in DOMAIN net[s][th[1]] :
        /\ Matches(s, th[1], tag_default, i)
        /\ Take(s, th[1], i)
        /\ LET p == net[s][th[1]][i].pkt IN
             recv' = [recv EXCEPT
                        ![th] = [pc |-> IF p \in Dresp THEN "awaitArray" ELSE "store",
                                 pkt |-> p, ptr |-> OwnPointer(p)]]
  BY DEF ReceiveHeader
<1>3. PICK i \in DOMAIN net[s][th[1]] :
        /\ Matches(s, th[1], tag_default, i)
        /\ Take(s, th[1], i)
        /\ LET p == net[s][th[1]][i].pkt IN
             recv' = [recv EXCEPT
                        ![th] = [pc |-> IF p \in Dresp THEN "awaitArray" ELSE "store",
                                 pkt |-> p, ptr |-> OwnPointer(p)]]
  BY <1>2
<1> DEFINE m == net[s][th[1]][i]
           p == m.pkt
           st == [pc |-> IF p \in Dresp THEN "awaitArray" ELSE "store",
                  pkt |-> p, ptr |-> OwnPointer(p)]
<1>4. /\ m \in Message /\ p \in Packet /\ m \in MessagesOf(p) /\ DestRank(p) = th[1]
      /\ \A q \in Packet : /\ InNet(q)' <=> InNet(q) /\ Header(q) # m
                           /\ ArrayInNet(q)' <=> ArrayInNet(q) /\ ArrayMessage(q) # m
  BY <1>1, <1>3, ReceiveMessage
<1>5. m.tag = tag_default /\ recv' = [recv EXCEPT ![th] = st]
  BY <1>3 DEF Matches
<1>6. m \in ToSet(net[s][th[1]])
  BY DEF ToSet
<1>7. SourceRank(p) = s
  BY <1>1, <1>6 DEF NetShape
<1>8. \A a, b \in Rank :
        net'[a][b] = IF a = s /\ b = th[1] THEN RemoveAt(net[a][b], i) ELSE net[a][b]
  BY <1>1, <1>3 DEF Take, Once, Inv, TypeOK
<1>9. st.pc # "listen" /\ st.pkt = p /\ (st.pc = "awaitArray" <=> p \in Dresp)
  OBVIOUS
<1> HIDE DEF m, st
<1>10. m = Header(p)
  BY <1>4, <1>5 DEF Message, Header
<1>11. \A q \in Packet : (Header(q) = m <=> q = p) /\ ArrayMessage(q) # m
  BY <1>4, <1>10, TagsDiffer DEF Header, ArrayMessage
<1>12. InNet(p)
  BY <1>4, <1>10 DEF InNet
<1> HIDE DEF p
<1>13. \A q \in Packet, h \in Thread :
         /\ HeldBy(h, q)' <=> IF h = th THEN q = p ELSE HeldBy(h, q)
         /\ WaitsFor(h, q)' <=> IF h = th THEN q = p /\ p \in Dresp ELSE WaitsFor(h, q)
  BY <1>5, <1>9, ThreadMoves, WaitMoves
<1>14. \A q \in Packet : ~WaitsFor(th, q)
  BY <1>1 DEF WaitsFor
<1>15. ASSUME NEW q \in Dresp PROVE Expected(q)' <=> Expected(q)
  <2>1. /\ Expected(q)' <=> InNet(q)' \/ \E h \in Thread : WaitsFor(h, q)'
        /\ q \in Packet
    BY DrespArePackets DEF Expected
  <2>2. CASE q = p
    <3>1. WaitsFor(th, q)'
      BY <1>13, <2>1, <2>2
    <3> QED
      BY <1>12, <2>1, <2>2, <3>1 DEF Expected
  <2>3. CASE q # p
    <3>1. InNet(q)' <=> InNet(q)
      BY <1>4, <1>11, <2>1, <2>3
    <3>2. \A h \in Thread : WaitsFor(h, q)' <=> WaitsFor(h, q)
      BY <1>13, <1>14, <2>1, <2>3
    <3> QED
      BY <2>1, <3>1, <3>2 DEF Expected
  <2> QED
    BY <2>2, <2>3
<1>16. HeaderTaken(th, s, i, p)
  BY <1>3, <1>4, <1>7, <1>8, <1>10, <1>11, <1>12, <1>13, <1>15 DEF HeaderTaken, m
<1> QED
  BY <1>1, <1>4, <1>16

\* The state of a thread that has received an array.
LEMMA ArrayState ==
  ASSUME NEW st \in ThreadState, NEW arr
  PROVE  [st EXCEPT !.pc = "store", !.ptr = arr] = [pc |-> "store", pkt |-> st.pkt, ptr |-> arr]
<1> DEFINE u == [st EXCEPT !.pc = "store", !.ptr = arr]
           v == [pc |-> "store", pkt |-> st.pkt, ptr |-> arr]
<1>1. DOMAIN u = {"pc", "pkt", "ptr"} /\ DOMAIN v = {"pc", "pkt", "ptr"}
  BY DEF ThreadState
<1>2. u.pc = v.pc /\ u.pkt = v.pkt /\ u.ptr = v.ptr
  BY DEF ThreadState
<1>3. u = [f \in {"pc", "pkt", "ptr"} |-> u[f]] /\ v = [f \in {"pc", "pkt", "ptr"} |-> v[f]]
  BY DEF ThreadState
<1> HIDE DEF u, v
<1>4. u = v
  BY <1>2, <1>3
<1> QED
  BY <1>4 DEF u, v

\* A thread that waits for the array of packet b takes that of packet a.
ArrayTaken(th, s, i, a, b) ==
  /\ net[s][th[1]][i] = ArrayMessage(a) /\ Matches(s, th[1], DataTag(b), i)
  /\ a \in Dresp /\ SourceRank(a) = s /\ DestRank(a) = th[1] /\ ArrayInNet(a)
  /\ b \in Dresp /\ DestRank(b) = th[1] /\ HeldBy(th, b) /\ WaitsFor(th, b) /\ SameTag(a, b)
  /\ \A x, y \in Rank :
       net'[x][y] = IF x = s /\ y = th[1] THEN RemoveAt(net[x][y], i) ELSE net[x][y]
  /\ \A q \in Packet : /\ InNet(q)' <=> InNet(q)
                       /\ ArrayInNet(q)' <=> ArrayInNet(q) /\ q # a
  /\ \A q \in Packet, h \in Thread : HeldBy(h, q)' <=> HeldBy(h, q)
  /\ \A q \in Dresp : /\ Expected(q)' <=> Expected(q) /\ q # b
                      /\ Coming(q)' <=> Coming(q) /\ q # a
  /\ \A h \in Thread :
       recv'[h] = IF h = th THEN [pc |-> "store", pkt |-> b,
                                  ptr |-> [space |-> th[1], data |-> a]] ELSE recv[h]

\* What a thread that waits does is to take an array with the tag.
LEMMA ReceiveArrayEffect ==
  ASSUME Once, NEW th \in Thread, ReceiveArray(th)
  PROVE  /\ recv[th].pc = "awaitArray" /\ th[1] \in Rank
         /\ UNCHANGED created /\ UNCHANGED tx /\ UNCHANGED send /\ UNCHANGED rx
         /\ \E s \in Rank : \E i \in DOMAIN net[s][th[1]] : \E a, b \in Dresp :
              ArrayTaken(th, s, i, a, b)
<1>1. /\ recv[th].pc = "awaitArray" /\ th[1] \in Rank /\ NetShape /\ PacketOnce /\ ArrayOnce
      /\ UNCHANGED created /\ UNCHANGED tx /\ UNCHANGED send /\ UNCHANGED rx
      /\ recv[th] \in ThreadState /\ ThreadOK(recv[th], th[1])
  BY DEF ReceiveArray, Thread, Once, Shape, Inv, TypeOK, RecvOK
<1>2. PICK s \in Rank : \E i \in DOMAIN net[s][th[1]] :
        /\ Matches(s, th[1], DataTag(recv[th].pkt), i)
        /\ Take(s, th[1], i)
        /\ recv' = [recv EXCEPT ![th].pc = "store",
                                ![th].ptr = [space |-> th[1], data |-> net[s][th[1]][i].pkt]]
  BY DEF ReceiveArray, NewWord
<1>3. PICK i \in DOMAIN net[s][th[1]] :
        /\ Matches(s, th[1], DataTag(recv[th].pkt), i)
        /\ Take(s, th[1], i)
        /\ recv' = [recv EXCEPT ![th].pc = "store",
                                ![th].ptr = [space |-> th[1], data |-> net[s][th[1]][i].pkt]]
  BY <1>2
<1> DEFINE m == net[s][th[1]][i]
           a == m.pkt
           b == recv[th].pkt
           st == [pc |-> "store", pkt |-> b, ptr |-> [space |-> th[1], data |-> a]]
<1>4. /\ m \in Message /\ a \in Packet /\ m \in MessagesOf(a) /\ DestRank(a) = th[1]
      /\ \A q \in Packet : /\ InNet(q)' <=> InNet(q) /\ Header(q) # m
                           /\ ArrayInNet(q)' <=> ArrayInNet(q) /\ ArrayMessage(q) # m
  BY <1>1, <1>3, ReceiveMessage
<1>5. MessageOK(m, th[1])
  BY <1>1, <1>3, TakeKeepsNet DEF Once, Inv
<1>6. /\ b \in Dresp /\ b \in Packet /\ DestRank(b) = th[1] /\ m.tag = DataTag(b)
      /\ m.tag # tag_default
  BY <1>1, <1>3, TagsDiffer DEF ThreadOK, Matches
<1>7. a \in Dresp /\ m = ArrayMessage(a)
  BY <1>4, <1>5, <1>6 DEF Message, MessageOK, ArrayMessage
<1>8. SameTag(a, b)
  BY <1>4, <1>6, <1>7 DEF SameTag, ArrayMessage
<1>9. m \in ToSet(net[s][th[1]])
  BY DEF ToSet
<1>10. SourceRank(a) = s
  BY <1>1, <1>9 DEF NetShape
<1>11. \A x, y \in Rank :
         net'[x][y] = IF x = s /\ y = th[1] THEN RemoveAt(net[x][y], i) ELSE net[x][y]
  BY <1>1, <1>3 DEF Take, Once, Inv, TypeOK
<1>12. recv' = [recv EXCEPT ![th] = st]
  <2> DEFINE to == [recv[th] EXCEPT !.pc = "store", !.ptr = [space |-> th[1], data |-> a]]
  <2>1. recv' = [recv EXCEPT ![th] = to]
    BY <1>1, <1>3 DEF ThreadState, Once, Inv, TypeOK
  <2>2. to = st
    BY <1>1, ArrayState
  <2> QED
    BY <2>1, <2>2
<1>13. WaitsFor(th, b) /\ HeldBy(th, b)
  BY <1>1 DEF WaitsFor, HeldBy
<1>14. st.pc = "store" /\ st.pkt = b
  OBVIOUS
<1>15. \A h \in Thread : recv'[h] = IF h = th THEN st ELSE recv[h]
  BY <1>12 DEF Once, Inv, TypeOK
<1>16. \A q \in Packet : (HeldBy(th, q) <=> q = b) /\ (WaitsFor(th, q) <=> q = b)
  BY <1>1 DEF HeldBy, WaitsFor
<1> HIDE DEF m, st, b
<1>17. \A q \in Packet : (ArrayMessage(q) = m <=> q = a) /\ Header(q) # m
  BY <1>4, <1>7, TagsDiffer DEF Header, ArrayMessage
<1>18. ArrayInNet(a)
  BY <1>4, <1>7 DEF ArrayInNet
<1>19. \A q \in Packet, h \in Thread :
         /\ HeldBy(h, q)' <=> HeldBy(h, q)
         /\ WaitsFor(h, q)' <=> WaitsFor(h, q) /\ h # th
  <2>1. \A q \in Packet, h \in Thread :
          HeldBy(h, q)' <=> IF h = th THEN st.pc # "listen" /\ st.pkt = q ELSE HeldBy(h, q)
    BY <1>12, ThreadMoves
  <2>2. \A q \in Packet, h \in Thread :
          WaitsFor(h, q)' <=> IF h = th THEN st.pc = "awaitArray" /\ st.pkt = q
                                        ELSE WaitsFor(h, q)
    BY <1>12, WaitMoves
  <2> QED
    BY <1>14, <1>16, <2>1, <2>2
<1>20. ASSUME NEW q \in Dresp PROVE Expected(q)' <=> Expected(q) /\ q # b
  <2>1. Expected(q)' <=> InNet(q) \/ \E h \in Thread : WaitsFor(h, q) /\ h # th
    BY <1>4, <1>17, <1>19, DrespArePackets DEF Expected
  <2>2. CASE q = b
    <3>1. PacketAt(b)
      BY <1>1, <1>6 DEF PacketOnce
    <3>2. ~InNet(b) /\ \A h \in Thread : HeldBy(h, b) => h = th
      BY <1>13, <3>1 DEF PacketAt
    <3>3. \A h \in Thread : WaitsFor(h, b) => h = th
      BY <3>2 DEF WaitsFor, HeldBy
    <3> QED
      BY <2>1, <2>2, <3>2, <3>3
  <2>3. CASE q # b
    BY <1>16, <2>1, <2>3, DrespArePackets DEF Expected
  <2> QED
    BY <2>2, <2>3
<1>21. ASSUME NEW q \in Dresp PROVE Coming(q)' <=> Coming(q) /\ q # a
  <2>1. send[a] \notin {"headerTest", "array"}
    BY <1>1, <1>7, <1>18 DEF ArrayOnce, ArrayAt
  <2> QED
    BY <1>1, <1>4, <1>17, <2>1, DrespArePackets DEF Coming
<1> HIDE DEF a
<1>22. ArrayTaken(th, s, i, a, b)
  BY <1>3, <1>4, <1>6, <1>7, <1>8, <1>10, <1>11, <1>13, <1>15, <1>17, <1>18, <1>19, <1>20, <1>21
  DEF ArrayTaken, m, st, b
<1> QED
  BY <1>1, <1>6, <1>7, <1>22

-----------------------------------------------------------------------------
(* The order of packets *)

\* Packet p was built before packet q by the same tile.
Before(p, q) == p < q /\ Source[p] = Source[q]

\* And they travel between the same two processes.
Together(p, q) == Before(p, q) /\ DestRank(p) = DestRank(q)

\* Two messages, the first of which may have been sent first.
SentInOrder ==
  {x \in Message \X Message :
     Source[x[1].pkt] = Source[x[2].pkt] => x[1].pkt <= x[2].pkt}

CreateOrder == \A p, q \in Packet : Before(p, q) /\ q \in created => p \in created

TxOrder == \A t \in Tile : Arranged(tx[t], {x \in Packet \X Packet : x[1] < x[2]})

\* Packets leave a TX FIFO in order, one bridge call after the other.
PopOrder ==
  \A p, q \in Packet : Before(p, q) /\ q \in created /\ ~InTx(q) => ~InTx(p)

SendOrder ==
  \A p, q \in Packet : Before(p, q) /\ send[q] # "none" => send[p] \notin Sending

NetOrder == \A s, r \in Rank : Arranged(net[s][r], SentInOrder)

\* No packet stays behind in a message or in a thread.
TakeOrder ==
  \A p, q \in Packet : Together(p, q) =>
    \A th \in Thread : HeldBy(th, q) => ~InNet(p)

StoreOrder ==
  \A p, q \in Packet : Together(p, q) /\ InRx(q) =>
    ~InNet(p) /\ \A th \in Thread : ~HeldBy(th, p)

\* A packet for another process is not stored unless it has been sent.
RxSent == \A q \in Packet : InRx(q) => SourceRank(q) = DestRank(q) \/ send[q] # "none"

RxOrder ==
  \A t \in Tile :
    Arranged(rx[t], {x \in Stored \X Stored : Source[x[1].pkt] = Source[x[2].pkt]
                                                => x[1].pkt < x[2].pkt})

Orderly ==
  /\ CreateOrder /\ TxOrder /\ PopOrder /\ SendOrder /\ NetOrder
  /\ TakeOrder /\ StoreOrder /\ RxSent /\ RxOrder

OneBridge == NBridges = 1 /\ ~ThreadedSend

\* Packets are numbers, so that of two of one tile one was built before.
LEMMA BeforeIsTotal ==
  ASSUME NEW p \in Packet, NEW q \in Packet, Source[p] = Source[q]
  PROVE  p = q \/ Before(p, q) \/ Before(q, p)
BY PacketAssumption DEF Before

\* A step changes where packets are, never which was built before.
LEMMA BeforeNext ==
  ASSUME NEW p \in Packet, NEW q \in Packet
  PROVE  /\ Before(p, q)' = Before(p, q)
         /\ Together(p, q)' = Together(p, q)
         /\ SourceRank(p)' = SourceRank(p) /\ DestRank(p)' = DestRank(p)
BY DEF Before, Together, SourceRank, DestRank, Dest, RankOf

\* Steps that leave a variable alone leave its order alone.
LEMMA SameOrder ==
  /\ UNCHANGED created => CreateOrder' = CreateOrder
  /\ UNCHANGED tx => TxOrder' = TxOrder
  /\ UNCHANGED send => SendOrder' = SendOrder
  /\ UNCHANGED net => NetOrder' = NetOrder
  /\ UNCHANGED rx => RxOrder' = RxOrder
BY DEF CreateOrder, Before, TxOrder, SendOrder, NetOrder, SentInOrder, Message,
       tag_default, create_tag, DataTag, Dest, RxOrder, Stored, Pointer, Rank

\* Steps that leave the places of packets alone.
LEMMA SamePlaces ==
  /\ UNCHANGED created /\ (\A q \in Packet : InTx(q)' <=> InTx(q)) /\ PopOrder => PopOrder'
  /\ /\ \A q \in Packet : InNet(q)' => InNet(q)
     /\ \A q \in Packet, th \in Thread : HeldBy(th, q)' => HeldBy(th, q)
     /\ TakeOrder
     => TakeOrder'
  /\ /\ \A q \in Packet : InNet(q)' => InNet(q)
     /\ \A q \in Packet, th \in Thread : HeldBy(th, q)' => HeldBy(th, q)
     /\ \A q \in Packet : InRx(q)' => InRx(q)
     /\ StoreOrder
     => StoreOrder'
  /\ /\ \A q \in Packet : InRx(q)' => InRx(q)
     /\ \A q \in Packet : send[q] # "none" => send'[q] # "none"
     /\ RxSent
     => RxSent'
BY BeforeNext DEF PopOrder, TakeOrder, StoreOrder, RxSent

-----------------------------------------------------------------------------
(* Orderly is inductive *)

\* No packet is anywhere at first.
LEMMA InitOrderly == Init => Orderly
<1> SUFFICES ASSUME Init PROVE Orderly
  OBVIOUS
<1>1. Once
  BY InitOnce
<1>2. /\ created = {} /\ \A p \in Packet : send[p] = "none"
      /\ \A t \in Tile : tx[t] = <<>> /\ rx[t] = <<>>
      /\ \A s, r \in Rank : net[s][r] = <<>>
      /\ \A th \in Thread : recv[th].pc = "listen"
  BY DEF Init, Listening
<1>3. \A R : Arranged(<<>>, R)
  BY DEF Arranged
<1>4. \A p \in Packet : ~InRx(p) /\ ~InNet(p) /\ ~InTx(p)
  BY <1>1, <1>2 DEF Once, PacketOnce, PacketAt
<1>5. \A p \in Packet, th \in Thread : ~HeldBy(th, p)
  BY <1>2 DEF HeldBy
<1> QED
  BY <1>2, <1>3, <1>4, <1>5
  DEF Orderly, CreateOrder, TxOrder, PopOrder, SendOrder, NetOrder, TakeOrder, StoreOrder,
      RxSent, RxOrder, Sending

\* Packets are built in order.
LEMMA CreateOrderly ==
  ASSUME Once, Orderly, NEW p \in Packet, Create(p)
  PROVE  Orderly'
<1>1. /\ p \notin created /\ created' = created \cup {p}
      /\ \A q \in Packet : q < p /\ Source[q] = Source[p] => q \in created
      /\ tx' = [tx EXCEPT ![Source[p]] = Append(@, p)]
      /\ UNCHANGED send /\ UNCHANGED net /\ UNCHANGED recv /\ UNCHANGED rx
  BY DEF Create, TxPush
<1>2. PacketOnce /\ TxShape /\ tx \in [Tile -> Seq(Packet)] /\ Source[p] \in Tile
  BY RanksOfPacket DEF Once, Shape, Inv, TypeOK
<1>3. ~InTx(p)
  BY <1>1, <1>2 DEF PacketOnce, PacketAt
<1>4. \A q \in Packet : InTx(q)' <=> InTx(q) \/ q = p
  BY <1>1, <1>3, PushTx
<1>5. \A q \in Packet : Before(p, q) => q \notin created
  BY <1>1 DEF Orderly, CreateOrder
<1>6. CreateOrder'
  BY <1>1, BeforeNext DEF Orderly, CreateOrder, Before
<1>7. PopOrder'
  BY <1>1, <1>4, <1>5, BeforeNext DEF Orderly, PopOrder
<1>8. TxOrder'
  <2> DEFINE R == {x \in Packet \X Packet : x[1] < x[2]}
  <2>1. ASSUME NEW q \in ToSet(tx[Source[p]]) PROVE <<q, p>> \in R
    <3>1. q \in Packet /\ Source[q] = Source[p]
      <4>1. tx[Source[p]] \in Seq(Packet)
        BY <1>2
      <4> QED
        BY <1>2, <4>1, LenProperties, ElementOfSeq DEF TxShape, ToSet
    <3>2. InTx(q)
      BY <3>1 DEF InTx
    <3>3. q \in created /\ q # p
      BY <1>2, <1>3, <3>1, <3>2 DEF PacketOnce, PacketAt
    <3>4. q < p
      BY <1>5, <3>1, <3>3, BeforeIsTotal DEF Before
    <3> QED
      BY <3>1, <3>4
  <2> HIDE DEF R
  <2>2. Arranged(tx[Source[p]], R) /\ tx[Source[p]] \in Seq(Packet)
    BY <1>2 DEF Orderly, TxOrder, R
  <2>3. Arranged(Append(tx[Source[p]], p), R)
    BY <2>1, <2>2, ArrangedAppend
  <2>4. \A t \in Tile : tx'[t] = IF t = Source[p] THEN Append(tx[Source[p]], p) ELSE tx[t]
    BY <1>1, <1>2
  <2>5. ASSUME NEW t \in Tile PROVE Arranged(tx'[t], R)
    BY <2>3, <2>4 DEF Orderly, TxOrder, R
  <2> QED
    BY <2>5 DEF TxOrder, R
<1> QED
  BY <1>1, <1>6, <1>7, <1>8, SameOrder, SamePlaces, SameNet, SameRecv, SameRx DEF Orderly

\* The first packet of a TX FIFO leaves it.
LEMMA PopOrderly ==
  ASSUME Once, Orderly, NEW t \in Tile, tx[t] # <<>>,
         tx' = [tx EXCEPT ![t] = Tail(@)], UNCHANGED created
  PROVE  /\ TxOrder' /\ PopOrder'
         /\ \A p \in Packet : Before(p, Head(tx[t])) => ~InTx(p)
<1> DEFINE R == {x \in Packet \X Packet : x[1] < x[2]}
           h == Head(tx[t])
<1>1. /\ tx \in [Tile -> Seq(Packet)] /\ tx[t] \in Seq(Packet) /\ Arranged(tx[t], R)
      /\ TxShape /\ PacketOnce /\ NoRepeat(tx[t])
  BY DEF Once, Shape, Inv, TypeOK, Orderly, TxOrder, TxShape
<1>2. /\ h \in Packet /\ Source[h] = t /\ InTx(h)
      /\ \A q \in Packet : InTx(q)' <=> InTx(q) /\ q # h
  BY PopTx
<1> HIDE DEF R, h
<1>3. Arranged(Tail(tx[t]), R) /\ \A x \in ToSet(Tail(tx[t])) : <<h, x>> \in R
  BY <1>1, ArrangedTail DEF h
<1>4. ToSet(Tail(tx[t])) = ToSet(tx[t]) \ {h}
  BY <1>1, TailOnce DEF h
<1>5. \A u \in Tile : tx'[u] = IF u = t THEN Tail(tx[t]) ELSE tx[u]
  BY <1>1
<1>6. ASSUME NEW u \in Tile PROVE Arranged(tx'[u], R)
  BY <1>3, <1>5 DEF Orderly, TxOrder, R
<1>7. TxOrder'
  BY <1>6 DEF TxOrder, R
<1>8. ASSUME NEW p \in Packet, Before(p, h) PROVE ~InTx(p)
  <2> SUFFICES ASSUME InTx(p) PROVE FALSE
    OBVIOUS
  <2>1. p \in ToSet(tx[t]) /\ p < h /\ p # h /\ h \in Nat /\ p \in Nat
    BY <1>2, <1>8, PacketAssumption DEF Before, InTx
  <2>2. <<h, p>> \in R
    BY <1>3, <1>4, <2>1
  <2>3. h < p
    BY <2>2 DEF R
  <2> QED
    BY <2>1, <2>3
<1>9. PopOrder'
  BY <1>2, <1>8, BeforeNext DEF Orderly, PopOrder
<1> QED
  BY <1>7, <1>8, <1>9 DEF h

\* A packet is stored when none built after it is.
LEMMA StoreInOrder ==
  ASSUME Once, Orderly, NEW e \in Stored, ~InRx(e.pkt),
         \A q \in Packet : Before(e.pkt, q) /\ Dest(q) = Dest(e.pkt) => ~InRx(q),
         rx' = [rx EXCEPT ![Dest(e.pkt)] = Append(@, e)]
  PROVE  RxOrder'
<1> DEFINE R == {x \in Stored \X Stored : Source[x[1].pkt] = Source[x[2].pkt]
                                            => x[1].pkt < x[2].pkt}
           t == Dest(e.pkt)
<1>1. e.pkt \in Packet /\ t \in Tile
  BY DestIsTile DEF Stored
<1>2. rx \in [Tile -> Seq(Stored)] /\ rx[t] \in Seq(Stored) /\ RxOK
  BY <1>1 DEF Once, Inv, TypeOK
<1>3. ASSUME NEW x \in ToSet(rx[t]) PROVE <<x, e>> \in R
  <2>1. x \in Stored /\ Dest(x.pkt) = t
    BY <1>1, <1>2, <1>3, LenProperties, ElementOfSeq DEF ToSet, RxOK, StoredOK
  <2>2. x.pkt \in Packet /\ InRx(x.pkt)
    BY <2>1 DEF Stored, InRx
  <2>3. x.pkt # e.pkt /\ ~Before(e.pkt, x.pkt)
    BY <2>1, <2>2
  <2>4. Source[x.pkt] = Source[e.pkt] => x.pkt < e.pkt
    BY <1>1, <2>2, <2>3, BeforeIsTotal DEF Before
  <2> QED
    BY <2>1, <2>4
<1> HIDE DEF R, t
<1>4. Arranged(rx[t], R)
  BY <1>1 DEF Orderly, RxOrder, R
<1>5. Arranged(Append(rx[t], e), R)
  BY <1>2, <1>3, <1>4, ArrangedAppend
<1>6. \A u \in Tile : rx'[u] = IF u = t THEN Append(rx[t], e) ELSE rx[u]
  BY <1>1, <1>2 DEF t
<1>7. ASSUME NEW u \in Tile PROVE Arranged(rx'[u], R)
  BY <1>5, <1>6 DEF Orderly, RxOrder, R
<1>8. R' = R
  BY DEF R, Stored, Pointer, Rank
<1> QED
  BY <1>7 DEF RxOrder, R, Stored, Pointer, Rank

\* A packet for a tile of the process overtakes no other.
LEMMA TransmitLocalOrderly ==
  ASSUME Once, SendSpace, Orderly, NEW t \in Tile, TransmitLocal(t)
  PROVE  Orderly'
<1> DEFINE p == Head(tx[t])
           e == [pkt |-> p, ptr |-> OwnPointer(p)]
<1>1. /\ tx[t] # <<>> /\ tx' = [tx EXCEPT ![t] = Tail(@)] /\ DestRank(p) = RankOf(t)
      /\ rx' = [rx EXCEPT ![Dest(p)] = Append(@, e)]
      /\ UNCHANGED created /\ UNCHANGED send /\ UNCHANGED net /\ UNCHANGED recv
  BY DEF TransmitLocal
<1>2. /\ p \in Packet /\ Source[p] = t /\ InTx(p)
      /\ TxOrder' /\ PopOrder' /\ \A q \in Packet : Before(q, p) => ~InTx(q)
  BY <1>1, PopTx, PopOrderly
<1>3. PacketOnce /\ ArrayOnce
  BY DEF Once
<1>4. e \in Stored /\ e.pkt = p /\ StoredOK(e, Dest(p)) /\ Dest(p) \in Tile
  BY <1>2, RanksOfPacket DEF Stored, StoredOK, ArrayOK, OwnPointer
<1>5. p \in Dresp => e.ptr.data = p
  BY DEF OwnPointer
<1>6. SourceRank(p) = DestRank(p)
  BY <1>1, <1>2 DEF SourceRank
<1> HIDE DEF p, e
<1>7. ~InRx(p) /\ (p \in Dresp => \A u \in Tile : ~ArrayInRx(u, p))
  BY <1>2, <1>3 DEF PacketOnce, PacketAt, ArrayOnce, ArrayAt, Unsent
<1>8. \A q \in Packet : InRx(q)' <=> InRx(q) \/ q = p
  BY <1>1, <1>4, <1>5, <1>7, StorePacket
<1>9. ASSUME NEW q \in Packet, Before(p, q) PROVE ~InRx(q)
  BY <1>2, <1>3, <1>9 DEF Orderly, PopOrder, PacketOnce, PacketAt
<1>10. RxOrder'
  BY <1>1, <1>4, <1>7, <1>9, StoreInOrder
<1>11. RxSent'
  BY <1>1, <1>6, <1>8, BeforeNext DEF Orderly, RxSent
<1>12. StoreOrder'
  <2> SUFFICES ASSUME NEW x \in Packet, NEW y \in Packet, Together(x, y), InRx(y)'
               PROVE  ~InNet(x)' /\ \A th \in Thread : ~HeldBy(th, x)'
    BY BeforeNext DEF StoreOrder
  <2>1. CASE InRx(y)
    BY <1>1, <2>1, SameNet, SameRecv DEF Orderly, StoreOrder
  <2>2. CASE y = p
    <3>1. SourceRank(x) = DestRank(x)
      BY <1>6, <2>2 DEF Together, Before, SourceRank
    <3>2. send[x] = "none"
      BY <3>1 DEF SendSpace
    <3>3. ~InNet(x) /\ \A th \in Thread : ~HeldBy(th, x)
      BY <1>3, <3>2 DEF PacketOnce, PacketAt
    <3> QED
      BY <1>1, <3>3, SameNet, SameRecv
  <2> QED
    BY <1>8, <2>1, <2>2
<1> QED
  BY <1>1, <1>2, <1>10, <1>11, <1>12, SameOrder, SamePlaces, SameNet, SameRecv DEF Orderly

\* A tile's thread gives a packet to a bridge when the one before is sent.
LEMMA TransmitRemoteOrderly ==
  ASSUME OneBridge, Once, Orderly, NEW t \in Tile, TransmitRemote(t)
  PROVE  Orderly'
<1> DEFINE p == Head(tx[t])
<1>1. /\ tx[t] # <<>> /\ tx' = [tx EXCEPT ![t] = Tail(@)]
      /\ send' = [send EXCEPT ![p] = "header"] /\ ~InSend(t)
      /\ UNCHANGED created /\ UNCHANGED rx /\ UNCHANGED net /\ UNCHANGED recv
  BY DEF TransmitRemote, TxPop
<1>2. /\ p \in Packet /\ Source[p] = t /\ InTx(p)
      /\ TxOrder' /\ PopOrder'
  BY <1>1, PopTx, PopOrderly
<1> HIDE DEF p
<1>3. \A q \in Packet : send'[q] = IF q = p THEN "header" ELSE send[q]
  BY <1>1 DEF Once, Inv, TypeOK
<1>4. \A q \in Packet : Source[q] = t => send[q] \notin Sending
  BY <1>1 DEF OneBridge, InSend
<1>5. PacketOnce
  BY DEF Once
<1>6. SendOrder'
  <2> SUFFICES ASSUME NEW x \in Packet, NEW y \in Packet, Before(x, y), send'[y] # "none"
               PROVE  send'[x] \notin Sending
    BY BeforeNext DEF SendOrder, Sending
  <2>1. CASE x = p
    <3>1. y # p
      BY <2>1, PacketAssumption DEF Before
    <3>2. y \in created /\ ~InTx(y)
      BY <1>3, <1>5, <3>1 DEF PacketOnce, PacketAt
    <3> QED
      BY <1>2, <2>1, <3>2 DEF Orderly, PopOrder
  <2>2. CASE x # p /\ y = p
    BY <1>2, <1>3, <1>4, <2>2 DEF Before
  <2>3. CASE x # p /\ y # p
    BY <1>3, <2>3 DEF Orderly, SendOrder
  <2> QED
    BY <2>1, <2>2, <2>3
<1>7. RxSent'
  BY <1>1, <1>3, SameRx, SamePlaces DEF Orderly
<1> QED
  BY <1>1, <1>2, <1>6, <1>7, SameOrder, SamePlaces, SameNet, SameRecv, SameRx DEF Orderly

\* What is in a message: a packet or an array, on its way.
LEMMA MessageKinds ==
  ASSUME Once, NEW s \in Rank, NEW r \in Rank, NEW m \in ToSet(net[s][r])
  PROVE  /\ m \in Message /\ m.pkt \in Packet
         /\ SourceRank(m.pkt) = s /\ DestRank(m.pkt) = r
         /\ \/ m = Header(m.pkt) /\ InNet(m.pkt)
            \/ m.pkt \in Dresp /\ m = ArrayMessage(m.pkt) /\ ArrayInNet(m.pkt)
         /\ send[m.pkt] # "none" /\ m.pkt \in created
<1>1. net[s][r] \in Seq(Message) /\ NetOK /\ NetShape /\ PacketOnce /\ ArrayOnce
  BY DEF Once, Inv, TypeOK, Shape
<1>2. m \in Message /\ MessageOK(m, r)
  BY <1>1, LenProperties, ElementOfSeq DEF ToSet, NetOK
<1>3. m.pkt \in Packet /\ SourceRank(m.pkt) = s /\ DestRank(m.pkt) = r
  BY <1>1, <1>2 DEF Message, MessageOK, NetShape
<1>4. m \in MessagesOf(m.pkt)
  BY <1>3 DEF MessagesOf
<1>5. m = Header(m.pkt) \/ (m.pkt \in Dresp /\ m = ArrayMessage(m.pkt))
  BY <1>2 DEF Message, MessageOK, Header, ArrayMessage
<1>6. \/ m = Header(m.pkt) /\ InNet(m.pkt)
      \/ m.pkt \in Dresp /\ m = ArrayMessage(m.pkt) /\ ArrayInNet(m.pkt)
  BY <1>4, <1>5 DEF InNet, ArrayInNet
<1>7. send[m.pkt] # "none"
  BY <1>1, <1>3, <1>6 DEF PacketOnce, PacketAt, ArrayOnce, ArrayAt
<1>8. m.pkt \in created
  BY <1>1, <1>3, <1>7 DEF PacketOnce, PacketAt
<1> QED
  BY <1>2, <1>3, <1>6, <1>7, <1>8

\* A message is sent when none of a packet built after it has been.
LEMMA PostInOrder ==
  ASSUME Once, Orderly, NEW p \in Packet, send[p] \in Sending,
         NEW m \in Message, m.pkt = p,
         \A a, b \in Rank : net'[a][b] = IF a = SourceRank(p) /\ b = DestRank(p)
                                         THEN Append(net[a][b], m) ELSE net[a][b]
  PROVE  NetOrder'
<1> DEFINE s == SourceRank(p)
           r == DestRank(p)
<1>1. s \in Rank /\ r \in Rank /\ net[s][r] \in Seq(Message) /\ Arranged(net[s][r], SentInOrder)
  BY RanksOfPacket DEF Once, Inv, TypeOK, Orderly, NetOrder
<1>2. ASSUME NEW n \in ToSet(net[s][r]) PROVE <<n, m>> \in SentInOrder
  <2>1. n \in Message /\ n.pkt \in Packet /\ send[n.pkt] # "none"
    BY <1>1, MessageKinds
  <2>2. ~Before(p, n.pkt)
    BY <2>1 DEF Orderly, SendOrder
  <2>3. Source[n.pkt] = Source[p] => n.pkt = p \/ n.pkt < p
    BY <2>1, <2>2, BeforeIsTotal DEF Before
  <2>4. n.pkt \in Nat /\ p \in Nat
    BY <2>1, PacketAssumption
  <2> QED
    BY <2>1, <2>3, <2>4 DEF SentInOrder
<1> HIDE DEF s, r
<1>3. Arranged(Append(net[s][r], m), SentInOrder)
  BY <1>1, <1>2, ArrangedAppend
<1>4. ASSUME NEW a \in Rank, NEW b \in Rank PROVE Arranged(net'[a][b], SentInOrder)
  BY <1>3 DEF Orderly, NetOrder, s, r
<1>5. SentInOrder' = SentInOrder
  BY DEF SentInOrder, Message, tag_default, create_tag, DataTag, Dest
<1> QED
  BY <1>4, <1>5 DEF NetOrder

\* What the sender of a packet changes.
LEMMA SendOrderly ==
  ASSUME Once, Orderly, SendSpace, NEW p \in Packet, SendStep(p)
  PROVE  Orderly'
<1>1. PacketOnce /\ PacketAt(p)
  BY DEF Once, PacketOnce
<1>2. ASSUME NEW st \in Sending \cup {"sent"}, send[p] \in Sending,
             \A q \in Packet : send'[q] = IF q = p THEN st ELSE send[q]
      PROVE  SendOrder' /\ \A q \in Packet : send[q] # "none" => send'[q] # "none"
  <2>1. \A q \in Packet : send[q] # "none" => send'[q] # "none"
    BY <1>2 DEF Sending
  <2>2. \A q \in Packet : /\ send'[q] # "none" => send[q] # "none"
                          /\ send'[q] \in Sending => send[q] \in Sending
    BY <1>2 DEF Sending
  <2> QED
    BY <2>1, <2>2, BeforeNext DEF Orderly, SendOrder, Sending
<1>3. CASE PostHeader(p)
  <2>1. /\ send[p] = "header"
        /\ Header(p) \in Message
        /\ UNCHANGED created /\ UNCHANGED tx /\ UNCHANGED recv /\ UNCHANGED rx
        /\ \A q \in Packet : send'[q] = IF q = p THEN "headerTest" ELSE send[q]
        /\ \A a, b \in Rank :
             net'[a][b] = IF a = SourceRank(p) /\ b = DestRank(p)
                          THEN Append(net[a][b], Header(p)) ELSE net[a][b]
        /\ \A q \in Packet : InNet(q)' <=> InNet(q) \/ q = p
    BY <1>3, PostHeaderEffect
  <2>2. SendOrder' /\ \A q \in Packet : send[q] # "none" => send'[q] # "none"
    BY <1>2, <2>1 DEF Sending
  <2>3. NetOrder'
    <3>1. Header(p).pkt = p /\ send[p] \in Sending
      BY <2>1 DEF Header, Sending
    <3> QED
      BY <2>1, <3>1, PostInOrder
  <2>4. ASSUME NEW q \in Packet, Before(p, q) PROVE send[q] = "none"
    BY <2>1, <2>4 DEF Orderly, SendOrder, Sending
  <2>5. TakeOrder'
    <3> SUFFICES ASSUME NEW x \in Packet, NEW y \in Packet, Together(x, y),
                        NEW th \in Thread, HeldBy(th, y)', InNet(x)'
                 PROVE  FALSE
      BY BeforeNext DEF TakeOrder
    <3>1. HeldBy(th, y) /\ Before(x, y)
      BY <2>1, SameRecv DEF Together
    <3>2. x = p
      BY <2>1, <3>1 DEF Orderly, TakeOrder
    <3> QED
      BY <1>1, <2>4, <3>1, <3>2 DEF PacketOnce, PacketAt
  <2>6. StoreOrder'
    <3> SUFFICES ASSUME NEW x \in Packet, NEW y \in Packet, Together(x, y), InRx(y)'
                 PROVE  ~InNet(x)' /\ \A th \in Thread : ~HeldBy(th, x)'
      BY BeforeNext DEF StoreOrder
    <3>1. InRx(y) /\ Before(x, y)
      BY <2>1, SameRx DEF Together
    <3>2. ~InNet(x) /\ \A th \in Thread : ~HeldBy(th, x)'
      BY <2>1, <3>1, SameRecv DEF Orderly, StoreOrder
    <3>3. x # p
      <4> SUFFICES ASSUME x = p PROVE FALSE
        OBVIOUS
      <4>1. send[y] = "none"
        BY <2>4, <3>1
      <4>2. SourceRank(y) = DestRank(y)
        BY <3>1, <4>1 DEF Orderly, RxSent
      <4>3. SourceRank(p) = DestRank(p)
        BY <4>2 DEF Together, Before, SourceRank
      <4> QED
        BY <2>1, <4>3 DEF SendSpace
    <3> QED
      BY <2>1, <3>2, <3>3
  <2>7. RxSent'
    BY <2>1, <2>2, SameRx, SamePlaces DEF Orderly
  <2> QED
    BY <2>1, <2>2, <2>3, <2>5, <2>6, <2>7, SameOrder, SamePlaces, SameTx DEF Orderly
<1>4. CASE PostArray(p)
  <2>1. /\ send[p] = "array"
        /\ ArrayMessage(p) \in Message
        /\ UNCHANGED created /\ UNCHANGED tx /\ UNCHANGED recv /\ UNCHANGED rx
        /\ \A q \in Packet : send'[q] = IF q = p THEN "arrayTest" ELSE send[q]
        /\ \A a, b \in Rank :
             net'[a][b] = IF a = SourceRank(p) /\ b = DestRank(p)
                          THEN Append(net[a][b], ArrayMessage(p)) ELSE net[a][b]
        /\ \A q \in Packet : InNet(q)' <=> InNet(q)
    BY <1>4, PostArrayEffect
  <2>2. SendOrder' /\ \A q \in Packet : send[q] # "none" => send'[q] # "none"
    BY <1>2, <2>1 DEF Sending
  <2>3. NetOrder'
    <3>1. ArrayMessage(p).pkt = p /\ send[p] \in Sending
      BY <2>1 DEF ArrayMessage, Sending
    <3> QED
      BY <2>1, <3>1, PostInOrder
  <2> QED
    BY <2>1, <2>2, <2>3, SameOrder, SamePlaces, SameTx, SameRecv, SameRx DEF Orderly
<1>5. CASE HeaderSent(p) \/ ArraySent(p)
  <2>1. /\ UNCHANGED created /\ UNCHANGED tx /\ UNCHANGED recv /\ UNCHANGED rx /\ UNCHANGED net
        /\ send[p] \in Sending
        /\ \E st \in Sending \cup {"sent"} : send' = [send EXCEPT ![p] = st]
    BY <1>5 DEF HeaderSent, ArraySent, Sending
  <2>2. PICK st \in Sending \cup {"sent"} : send' = [send EXCEPT ![p] = st]
    BY <2>1
  <2>3. \A q \in Packet : send'[q] = IF q = p THEN st ELSE send[q]
    BY <2>2 DEF Once, Inv, TypeOK
  <2>4. SendOrder' /\ \A q \in Packet : send[q] # "none" => send'[q] # "none"
    BY <1>2, <2>1, <2>3
  <2> QED
    BY <2>1, <2>4, SameOrder, SamePlaces, SameTx, SameNet, SameRecv, SameRx DEF Orderly
<1> QED
  BY <1>3, <1>4, <1>5 DEF SendStep

\* A message is taken from between the others.
LEMMA TakeInOrder ==
  ASSUME Once, Orderly, NEW s \in Rank, NEW r \in Rank, NEW i \in DOMAIN net[s][r],
         \A a, b \in Rank : net'[a][b] = IF a = s /\ b = r THEN RemoveAt(net[a][b], i)
                                                           ELSE net[a][b]
  PROVE  NetOrder'
<1>1. net[s][r] \in Seq(Message) /\ Arranged(net[s][r], SentInOrder)
  BY DEF Once, Inv, TypeOK, Orderly, NetOrder
<1>2. Arranged(RemoveAt(net[s][r], i), SentInOrder)
  BY <1>1, ArrangedRemoveAt
<1>3. ASSUME NEW a \in Rank, NEW b \in Rank PROVE Arranged(net'[a][b], SentInOrder)
  BY <1>2 DEF Orderly, NetOrder
<1>4. SentInOrder' = SentInOrder
  BY DEF SentInOrder, Message, tag_default, create_tag, DataTag, Dest
<1> QED
  BY <1>3, <1>4 DEF NetOrder

\* The packet that a thread takes was sent before those it leaves.
LEMMA ReceiveHeaderOrderly ==
  ASSUME Once, Orderly, NEW th \in Thread, ReceiveHeader(th)
  PROVE  Orderly'
<1>1. /\ th[1] \in Rank
      /\ UNCHANGED created /\ UNCHANGED tx /\ UNCHANGED send /\ UNCHANGED rx
  BY ReceiveHeaderEffect
<1>2. PICK s \in Rank : \E i \in DOMAIN net[s][th[1]] : \E p \in Packet :
        HeaderTaken(th, s, i, p)
  BY ReceiveHeaderEffect
<1>3. PICK i \in DOMAIN net[s][th[1]] : \E p \in Packet : HeaderTaken(th, s, i, p)
  BY <1>2
<1>4. PICK p \in Packet : HeaderTaken(th, s, i, p)
  BY <1>3
<1>5. /\ net[s][th[1]][i] = Header(p) /\ Matches(s, th[1], tag_default, i)
      /\ SourceRank(p) = s /\ DestRank(p) = th[1] /\ InNet(p)
      /\ \A a, b \in Rank :
           net'[a][b] = IF a = s /\ b = th[1] THEN RemoveAt(net[a][b], i) ELSE net[a][b]
      /\ \A q \in Packet : InNet(q)' <=> InNet(q) /\ q # p
      /\ \A q \in Packet, h \in Thread :
           HeldBy(h, q)' <=> IF h = th THEN q = p ELSE HeldBy(h, q)
  BY <1>4 DEF HeaderTaken
<1>6. NetOrder'
  BY <1>1, <1>5, TakeInOrder
<1>7. ASSUME NEW x \in Packet, Together(x, p) PROVE ~InNet(x)
  <2> SUFFICES ASSUME InNet(x) PROVE FALSE
    OBVIOUS
  <2>1. SourceRank(x) = s /\ DestRank(x) = th[1] /\ Source[x] = Source[p] /\ x < p
    BY <1>5, <1>7 DEF Together, Before, SourceRank
  <2>2. Header(x) \in ToSet(net[s][th[1]])
    BY <2>1 DEF InNet, MessagesOf
  <2>3. \A j \in 1 .. i - 1 : net[s][th[1]][j] # Header(x)
    BY <1>5 DEF Matches, Header
  <2>4. net[s][th[1]] \in Seq(Message) /\ Arranged(net[s][th[1]], SentInOrder)
    BY <1>1 DEF Once, Inv, TypeOK, Orderly, NetOrder
  <2>5. Header(x) = Header(p) \/ <<Header(p), Header(x)>> \in SentInOrder
    BY <1>5, <2>2, <2>3, <2>4, ArrangedFirst
  <2>6. p <= x
    BY <2>1, <2>5, PacketAssumption DEF SentInOrder, Header
  <2> QED
    BY <2>1, <2>6, PacketAssumption
<1>8. TakeOrder'
  <2> SUFFICES ASSUME NEW x \in Packet, NEW y \in Packet, Together(x, y),
                      NEW h \in Thread, HeldBy(h, y)'
               PROVE  ~InNet(x)'
    BY BeforeNext DEF TakeOrder
  <2>1. CASE h = th
    BY <1>5, <1>7, <2>1
  <2>2. CASE h # th
    BY <1>5, <2>2 DEF Orderly, TakeOrder
  <2> QED
    BY <2>1, <2>2
<1>9. StoreOrder'
  <2> SUFFICES ASSUME NEW x \in Packet, NEW y \in Packet, Together(x, y), InRx(y)'
               PROVE  ~InNet(x)' /\ \A h \in Thread : ~HeldBy(h, x)'
    BY BeforeNext DEF StoreOrder
  <2>1. ~InNet(x) /\ \A h \in Thread : ~HeldBy(h, x)
    BY <1>1, SameRx DEF Orderly, StoreOrder
  <2> QED
    BY <1>5, <2>1
<1> QED
  BY <1>1, <1>5, <1>6, <1>8, <1>9, SameOrder, SamePlaces, SameTx, SameRx DEF Orderly

\* Arrays may be taken in any order.
LEMMA ReceiveArrayOrderly ==
  ASSUME Once, Orderly, NEW th \in Thread, ReceiveArray(th)
  PROVE  Orderly'
<1>1. /\ th[1] \in Rank
      /\ UNCHANGED created /\ UNCHANGED tx /\ UNCHANGED send /\ UNCHANGED rx
  BY ReceiveArrayEffect
<1>2. PICK s \in Rank : \E i \in DOMAIN net[s][th[1]] : \E a, b \in Dresp :
        ArrayTaken(th, s, i, a, b)
  BY ReceiveArrayEffect
<1>3. PICK i \in DOMAIN net[s][th[1]] : \E a, b \in Dresp : ArrayTaken(th, s, i, a, b)
  BY <1>2
<1>4. /\ \A x, y \in Rank :
           net'[x][y] = IF x = s /\ y = th[1] THEN RemoveAt(net[x][y], i) ELSE net[x][y]
      /\ \A q \in Packet : InNet(q)' <=> InNet(q)
      /\ \A q \in Packet, h \in Thread : HeldBy(h, q)' <=> HeldBy(h, q)
  BY <1>3 DEF ArrayTaken
<1>5. NetOrder'
  BY <1>1, <1>4, TakeInOrder
<1> QED
  BY <1>1, <1>4, <1>5, SameOrder, SamePlaces, SameTx, SameRx DEF Orderly

\* What a thread stores, and that it listens again.
LEMMA StoreEffect ==
  ASSUME Once, NEW th \in Thread, Store(th)
  PROVE  LET p == recv[th].pkt IN
         /\ recv[th].pc = "store" /\ p \in Packet /\ HeldBy(th, p) /\ DestRank(p) = th[1]
         /\ UNCHANGED created /\ UNCHANGED tx /\ UNCHANGED net /\ UNCHANGED send
         /\ [pkt |-> p, ptr |-> recv[th].ptr] \in Stored /\ ~InRx(p)
         /\ rx' = [rx EXCEPT ![Dest(p)] = Append(@, [pkt |-> p, ptr |-> recv[th].ptr])]
         /\ \A q \in Packet : InRx(q)' <=> InRx(q) \/ q = p
         /\ \A q \in Packet, h \in Thread : /\ HeldBy(h, q)' <=> HeldBy(h, q) /\ h # th
                                            /\ WaitsFor(h, q)' <=> WaitsFor(h, q)
<1> DEFINE p == recv[th].pkt
           e == [pkt |-> p, ptr |-> recv[th].ptr]
<1>1. /\ recv[th].pc = "store" /\ recv' = [recv EXCEPT ![th] = Listening]
      /\ rx' = [rx EXCEPT ![Dest(p)] = Append(@, e)]
      /\ UNCHANGED created /\ UNCHANGED tx /\ UNCHANGED net /\ UNCHANGED send
  BY DEF Store, StoreDest
<1>2. /\ p \in Packet /\ HeldBy(th, p) /\ e \in Stored /\ StoredOK(e, Dest(p)) /\ ~InRx(p)
      /\ p \in Dresp => \A u \in Tile : ~ArrayInRx(u, recv[th].ptr.data)
  BY <1>1, StoreIsNew
<1>3. Dest(p) \in Tile /\ e.pkt = p /\ e.ptr = recv[th].ptr
  BY <1>2, DestIsTile
<1>4. DestRank(p) = th[1]
  BY <1>1 DEF Once, Inv, RecvOK, ThreadOK
<1>5. \A q \in Packet : (HeldBy(th, q) <=> q = p) /\ ~WaitsFor(th, q)
  BY <1>1 DEF HeldBy, WaitsFor
<1> HIDE DEF p, e
<1>6. \A q \in Packet : InRx(q)' <=> InRx(q) \/ q = p
  BY <1>1, <1>2, <1>3, StorePacket
<1>7. Listening.pc = "listen"
  BY DEF Listening
<1>8. \A q \in Packet, h \in Thread : /\ HeldBy(h, q)' <=> HeldBy(h, q) /\ h # th
                                      /\ WaitsFor(h, q)' <=> WaitsFor(h, q)
  BY <1>1, <1>5, <1>7, ThreadMoves, WaitMoves
<1> QED
  BY <1>1, <1>2, <1>3, <1>4, <1>6, <1>8 DEF p, e

\* The only thread of a process stores packets in the order it took them.
LEMMA StoreOrderly ==
  ASSUME OneBridge, Once, Orderly, NEW th \in Thread, Store(th)
  PROVE  Orderly'
<1> DEFINE p == recv[th].pkt
           e == [pkt |-> p, ptr |-> recv[th].ptr]
<1>1. /\ p \in Packet /\ HeldBy(th, p) /\ DestRank(p) = th[1] /\ e \in Stored /\ ~InRx(p)
      /\ UNCHANGED created /\ UNCHANGED tx /\ UNCHANGED net /\ UNCHANGED send
      /\ rx' = [rx EXCEPT ![Dest(p)] = Append(@, e)]
      /\ \A q \in Packet : InRx(q)' <=> InRx(q) \/ q = p
      /\ \A q \in Packet, h \in Thread : HeldBy(h, q)' <=> HeldBy(h, q) /\ h # th
  BY StoreEffect
<1>2. e.pkt = p
  OBVIOUS
<1> HIDE DEF p, e
<1>3. PacketOnce /\ RecvOK
  BY DEF Once, Inv
<1>4. \A q \in Packet : Before(p, q) /\ Dest(q) = Dest(p) => ~InRx(q)
  BY <1>1 DEF Orderly, StoreOrder, Together, DestRank
<1>5. RxOrder'
  BY <1>1, <1>2, <1>4, StoreInOrder
<1>6. RxSent'
  BY <1>1, <1>3, BeforeNext DEF Orderly, RxSent, PacketOnce, PacketAt
<1>7. StoreOrder'
  <2> SUFFICES ASSUME NEW x \in Packet, NEW y \in Packet, Together(x, y), InRx(y)'
               PROVE  ~InNet(x)' /\ \A h \in Thread : ~HeldBy(h, x)'
    BY BeforeNext DEF StoreOrder
  <2>1. CASE InRx(y)
    BY <1>1, <2>1, SameNet DEF Orderly, StoreOrder
  <2>2. CASE y = p
    <3>1. ~InNet(x)'
      BY <1>1, <2>2, SameNet DEF Orderly, TakeOrder
    <3>2. ASSUME NEW h \in Thread, HeldBy(h, x), h # th PROVE FALSE
      <4>1. h[1] = DestRank(x)
        BY <1>3, <3>2 DEF RecvOK, ThreadOK, HeldBy
      <4>2. DestRank(x) = th[1]
        BY <1>1, <2>2 DEF Together
      <4>3. h = <<h[1], 1>> /\ th = <<th[1], 1>>
        BY DEF Thread, OneBridge
      <4> QED
        BY <3>2, <4>1, <4>2, <4>3
    <3> QED
      BY <1>1, <3>1, <3>2
  <2> QED
    BY <1>1, <2>1, <2>2
<1> QED
  BY <1>1, <1>5, <1>6, <1>7, SameOrder, SamePlaces, SameTx, SameNet DEF Orderly

\* Steps that leave all that Orderly speaks of alone.
LEMMA IdleOrderly ==
  ASSUME Orderly, UNCHANGED <<created, tx, send, net, recv, rx>>
  PROVE  Orderly'
<1>1. /\ UNCHANGED created /\ UNCHANGED tx /\ UNCHANGED send /\ UNCHANGED net
      /\ UNCHANGED recv /\ UNCHANGED rx
  OBVIOUS
<1> QED
  BY <1>1, SameOrder, SamePlaces, SameTx, SameNet, SameRecv, SameRx DEF Orderly

(* Orderly holds in every state that the transport reaches with one bridge *)
(* for each process and without threaded sends.                            *)
THEOREM OrderlyHolds == ASSUME OneBridge PROVE Spec => []Orderly
<1>1. Once /\ SendSpace /\ Orderly /\ [Next]_vars => Orderly'
  <2> SUFFICES ASSUME Once, SendSpace, Orderly, [Next]_vars PROVE Orderly'
    OBVIOUS
  <2>1. CASE UNCHANGED vars
    BY <2>1, IdleOrderly DEF vars
  <2>2. ASSUME NEW p \in Packet, Create(p) \/ SendStep(p) PROVE Orderly'
    BY <2>2, CreateOrderly, SendOrderly
  <2>3. ASSUME NEW t \in Tile, TileStep(t) PROVE Orderly'
    <3>1. CASE BeginTransmit(t) \/ EndTransmit(t)
      BY <3>1, IdleOrderly DEF BeginTransmit, EndTransmit
    <3> QED
      BY <2>3, <3>1, TransmitLocalOrderly, TransmitRemoteOrderly DEF TileStep
  <2>4. ASSUME NEW th \in Thread, ThreadStep(th) PROVE Orderly'
    BY <2>4, ReceiveHeaderOrderly, ReceiveArrayOrderly, StoreOrderly DEF ThreadStep
  <2> QED
    BY <2>1, <2>2, <2>3, <2>4 DEF Next
<1>2. Owning => Once /\ SendSpace
  BY DEF Owning, SpaceOK
<1> QED
  BY InitOrderly, OwningHolds, <1>1, <1>2, PTL DEF Spec

(* With one bridge for each process and without threaded sends, packets of *)
(* one tile for one tile are stored in the order in which they were built, *)
(* whatever other tiles and processes do, and whether or not arrays come   *)
(* with them.                                                              *)
THEOREM InOrderCorrect == ASSUME OneBridge PROVE Spec => []InOrder
<1>1. Once /\ Orderly => InOrder
  <2> SUFFICES ASSUME Once, Orderly, NEW t \in Tile,
                      NEW i \in DOMAIN rx[t], NEW j \in DOMAIN rx[t],
                      i < j, Source[rx[t][i].pkt] = Source[rx[t][j].pkt]
               PROVE  rx[t][i].pkt < rx[t][j].pkt
    BY DEF InOrder
  <2>1. <<rx[t][i], rx[t][j]>> \in {x \in Stored \X Stored :
            Source[x[1].pkt] = Source[x[2].pkt] => x[1].pkt < x[2].pkt}
    BY DEF Orderly, RxOrder, Arranged
  <2> QED
    BY <2>1
<1> QED
  BY OnceHolds, OrderlyHolds, <1>1, PTL

-----------------------------------------------------------------------------
(* Packets and their own arrays *)

\* Only one tile sends P_DRESP packets that a tag cannot tell apart.
FlowOfOneTile == \A p, q \in Dresp : Flow(p) = Flow(q) => Source[p] = Source[q]

\* An array comes exactly when its own packet is expected to get it.
Paired == \A q \in Dresp : Coming(q) <=> Expected(q)

\* A thread stores a packet with its own array.
OwnHeld ==
  \A th \in Thread : recv[th].pc = "store" /\ recv[th].pkt \in Dresp =>
    recv[th].ptr.data = recv[th].pkt

OwnStored == \A t \in Tile : \A e \in ToSet(rx[t]) : e.pkt \in Dresp => e.ptr.data = e.pkt

Own == Paired /\ OwnHeld /\ OwnStored

(* A tile that gives itself as the Return_to of its packets, as those of   *)
(* main.cc do, has its flows for itself when tags are wide enough.         *)
LEMMA ReturnToSource ==
  ASSUME \A p \in Dresp : ReturnTo[p] = Source[p], Size * NServices < IdSpan
  PROVE  FlowOfOneTile
<1> SUFFICES ASSUME NEW p \in Dresp, NEW q \in Dresp, Flow(p) = Flow(q)
             PROVE  Source[p] = Source[q]
  BY DEF FlowOfOneTile
<1>1. Size * NServices \in Nat \ {0} /\ IdSpan \in Nat \ {0}
  BY SizeAssumption, IdSpanAssumption, ProductIsPositive
<1>2. Source[p] \in 1 .. Size * NServices /\ Source[q] \in 1 .. Size * NServices
  BY DrespArePackets, PacketAssumption DEF Tile
<1> DEFINE n == Size * NServices
<1> HIDE DEF n
<1>3. n \in Nat /\ n < IdSpan /\ Source[p] \in 1 .. n /\ Source[q] \in 1 .. n
  BY <1>1, <1>2 DEF n
<1>4. Source[p] \in 0 .. IdSpan - 1 /\ Source[q] \in 0 .. IdSpan - 1
  BY <1>1, <1>3
<1>5. Source[p] % IdSpan = Source[p] /\ Source[q] % IdSpan = Source[q]
  BY <1>1, <1>4, Small
<1> QED
  BY <1>5 DEF Flow

\* Posting a packet makes it expected, and its array to come.
LEMMA SendExpects ==
  ASSUME Once, NEW p \in Packet, SendStep(p), NEW q \in Dresp
  PROVE  /\ PostHeader(p) => /\ Expected(q)' <=> Expected(q) \/ q = p
                             /\ Coming(q)' <=> Coming(q) \/ q = p
         /\ ~PostHeader(p) => (Expected(q)' <=> Expected(q)) /\ (Coming(q)' <=> Coming(q))
<1>1. q \in Packet /\ UNCHANGED recv /\ PacketAt(p) /\ (p \in Dresp => ArrayAt(p))
  BY DrespArePackets
  DEF SendStep, PostHeader, HeaderSent, PostArray, ArraySent, Once, PacketOnce, ArrayOnce
<1>2. (\E th \in Thread : WaitsFor(th, q))' <=> \E th \in Thread : WaitsFor(th, q)
  BY <1>1 DEF WaitsFor
<1>3. CASE PostHeader(p)
  <2>1. /\ send'[q] = IF q = p THEN "headerTest" ELSE send[q]
        /\ (InNet(q)' <=> InNet(q) \/ q = p) /\ (ArrayInNet(q)' <=> ArrayInNet(q))
    BY <1>1, <1>3, PostHeaderEffect
  <2> QED
    BY <1>2, <1>3, <2>1 DEF Expected, Coming
<1>4. CASE PostArray(p)
  <2>1. /\ send'[q] = IF q = p THEN "arrayTest" ELSE send[q]
        /\ (InNet(q)' <=> InNet(q)) /\ (ArrayInNet(q)' <=> ArrayInNet(q) \/ q = p)
        /\ send[p] = "array"
    BY <1>1, <1>4, PostArrayEffect
  <2>2. ~PostHeader(p)
    BY <2>1 DEF PostHeader
  <2> QED
    BY <1>2, <2>1, <2>2 DEF Expected, Coming
<1>5. CASE HeaderSent(p) \/ ArraySent(p)
  <2>1. /\ UNCHANGED net /\ send[p] # "header"
        /\ q # p => send'[q] = send[q]
        /\ q = p => send'[q] = IF send[q] = "headerTest" THEN "array" ELSE "sent"
        /\ send[p] \in {"headerTest", "arrayTest"}
    BY <1>1, <1>5 DEF HeaderSent, ArraySent, Once, Inv, TypeOK
  <2>2. ~PostHeader(p)
    BY <2>1 DEF PostHeader
  <2>3. (InNet(q)' <=> InNet(q)) /\ (ArrayInNet(q)' <=> ArrayInNet(q))
    BY <1>1, <2>1, SameNet
  <2> QED
    BY <1>2, <2>1, <2>2, <2>3 DEF Expected, Coming
<1> QED
  BY <1>3, <1>4, <1>5 DEF SendStep

\* The first array with the tag of the packet is its own.
LEMMA TakesOwn ==
  ASSUME OneBridge, FlowOfOneTile, Once, Orderly, Paired, NEW th \in Thread,
         NEW s \in Rank, NEW i \in DOMAIN net[s][th[1]], NEW a \in Dresp, NEW b \in Dresp,
         ArrayTaken(th, s, i, a, b)
  PROVE  a = b
<1>1. /\ net[s][th[1]][i] = ArrayMessage(a) /\ Matches(s, th[1], DataTag(b), i)
      /\ SourceRank(a) = s /\ DestRank(a) = th[1] /\ ArrayInNet(a) /\ a \in Packet
      /\ DestRank(b) = th[1] /\ HeldBy(th, b) /\ WaitsFor(th, b) /\ SameTag(a, b)
      /\ b \in Packet /\ th[1] \in Rank
  BY DrespArePackets DEF ArrayTaken, Thread
<1>2. Source[a] = Source[b]
  BY <1>1, TagsDiffer DEF SameTag, FlowOfOneTile
<1>3. PacketOnce /\ ArrayOnce /\ RecvOK
  BY DEF Once, Inv
<1>4. Expected(a) /\ Coming(b)
  BY <1>1 DEF Paired, Coming, Expected
<1>5. ASSUME NEW h \in Thread, WaitsFor(h, a) PROVE a = b
  <2>1. h[1] = DestRank(a)
    BY <1>3, <1>5 DEF RecvOK, ThreadOK, WaitsFor
  <2>2. h = <<h[1], 1>> /\ th = <<th[1], 1>>
    BY DEF Thread, OneBridge
  <2> QED
    BY <1>1, <1>5, <2>1, <2>2 DEF WaitsFor
<1>6. ASSUME InNet(a), Before(a, b) PROVE FALSE
  BY <1>1, <1>6 DEF Orderly, TakeOrder, Together
<1>7. ASSUME InNet(a), Before(b, a) PROVE FALSE
  <2>1. send[a] # "none"
    BY <1>1, <1>3, <1>7 DEF PacketOnce, PacketAt
  <2>2. send[b] \notin Sending
    BY <1>1, <1>7, <2>1 DEF Orderly, SendOrder
  <2>3. ArrayInNet(b)
    BY <1>4, <2>2 DEF Coming, Sending
  <2>4. SourceRank(b) = s
    BY <1>1, <1>2 DEF SourceRank
  <2>5. ArrayMessage(b) \in ToSet(net[s][th[1]])
    BY <1>1, <2>3, <2>4 DEF ArrayInNet, MessagesOf
  <2>6. \A j \in 1 .. i - 1 : net[s][th[1]][j] # ArrayMessage(b)
    BY <1>1 DEF Matches, ArrayMessage
  <2>7. net[s][th[1]] \in Seq(Message) /\ Arranged(net[s][th[1]], SentInOrder)
    BY <1>1 DEF Once, Inv, TypeOK, Orderly, NetOrder
  <2>8. ArrayMessage(b) = ArrayMessage(a) \/ <<ArrayMessage(a), ArrayMessage(b)>> \in SentInOrder
    BY <1>1, <2>5, <2>6, <2>7, ArrangedFirst
  <2>9. a <= b
    BY <1>1, <1>2, <2>8, PacketAssumption DEF SentInOrder, ArrayMessage
  <2>10. b < a /\ a \in Nat /\ b \in Nat
    BY <1>1, <1>7, PacketAssumption DEF Before
  <2> QED
    BY <2>9, <2>10
<1> QED
  BY <1>1, <1>2, <1>4, <1>5, <1>6, <1>7, BeforeIsTotal DEF Expected

\* Paired stays when packets are expected and arrays come together.
LEMMA PairedNext ==
  ASSUME Paired, \A q \in Dresp : (Coming(q)' <=> Expected(q)')
  PROVE  Paired'
BY DEF Paired

\* A packet is stored with its own array.
LEMMA StoreOwn ==
  ASSUME Once, OwnStored, NEW e \in Stored, e.pkt \in Dresp => e.ptr.data = e.pkt,
         rx' = [rx EXCEPT ![Dest(e.pkt)] = Append(@, e)]
  PROVE  OwnStored'
<1> DEFINE t == Dest(e.pkt)
<1>1. rx \in [Tile -> Seq(Stored)] /\ t \in Tile /\ rx[t] \in Seq(Stored)
  BY DestIsTile DEF Stored, Once, Inv, TypeOK
<1> HIDE DEF t
<1>2. \A u \in Tile : rx'[u] = IF u = t THEN Append(rx[t], e) ELSE rx[u]
  BY <1>1 DEF t
<1>3. ToSet(Append(rx[t], e)) = ToSet(rx[t]) \cup {e}
  BY <1>1, AppendNew
<1>4. \A u \in Tile : \A x \in ToSet(rx'[u]) : x \in ToSet(rx[u]) \/ x = e
  BY <1>2, <1>3
<1> QED
  BY <1>4 DEF OwnStored

\* No array is received, no packet posted, and no thread moves.
LEMMA QuietOwn ==
  ASSUME Own, UNCHANGED net, UNCHANGED recv,
         \A q \in Dresp : send'[q] \in {"headerTest", "array"}
                            <=> send[q] \in {"headerTest", "array"}
  PROVE  Paired' /\ OwnHeld'
<1>1. \A q \in Dresp : (Expected(q)' <=> Expected(q)) /\ (Coming(q)' <=> Coming(q))
  BY SameNet, DrespArePackets DEF Expected, WaitsFor, Coming
<1> QED
  BY <1>1 DEF Own, Paired, OwnHeld

\* A tile posts nothing, and stores its packets with their own arrays.
LEMMA TileOwn ==
  ASSUME Once, Own, NEW t \in Tile, TileStep(t)
  PROVE  Own'
<1>1. UNCHANGED net /\ UNCHANGED recv
  BY DEF TileStep, BeginTransmit, TransmitLocal, TransmitRemote, EndTransmit
<1>2. CASE TransmitLocal(t)
  <2> DEFINE p == Head(tx[t])
             e == [pkt |-> p, ptr |-> OwnPointer(p)]
  <2>1. /\ tx[t] # <<>> /\ tx' = [tx EXCEPT ![t] = Tail(@)] /\ UNCHANGED send
        /\ rx' = [rx EXCEPT ![Dest(p)] = Append(@, e)]
    BY <1>2 DEF TransmitLocal
  <2>2. p \in Packet
    BY <2>1, PopTx
  <2>3. e.pkt = p /\ (p \in Dresp => e.ptr.data = p) /\ e \in Stored
    BY <2>2, RanksOfPacket, SizeAssumption
    DEF OwnPointer, NoArray, Stored, Pointer, SourceRank, Rank
  <2> HIDE DEF e
  <2>4. OwnStored'
    BY <2>1, <2>3, StoreOwn DEF Own
  <2> QED
    BY <1>1, <2>1, <2>4, QuietOwn DEF Own
<1>3. CASE TransmitRemote(t)
  <2> DEFINE p == Head(tx[t])
  <2>1. /\ tx[t] # <<>> /\ tx' = [tx EXCEPT ![t] = Tail(@)] /\ UNCHANGED rx
        /\ send' = [send EXCEPT ![p] = "header"]
    BY <1>3 DEF TransmitRemote, TxPop
  <2>2. p \in Packet /\ InTx(p)
    BY <2>1, PopTx
  <2> HIDE DEF p
  <2>3. send[p] = "none"
    BY <2>2 DEF Once, PacketOnce, PacketAt
  <2>4. \A q \in Packet : send'[q] = IF q = p THEN "header" ELSE send[q]
    BY <2>1 DEF Once, Inv, TypeOK
  <2>5. Paired' /\ OwnHeld'
    BY <1>1, <2>3, <2>4, QuietOwn, DrespArePackets
  <2> QED
    BY <2>1, <2>5 DEF Own, OwnStored
<1>4. CASE UNCHANGED <<send, rx>>
  <2>1. Paired' /\ OwnHeld'
    BY <1>1, <1>4, QuietOwn
  <2> QED
    BY <1>4, <2>1 DEF Own, OwnStored
<1> QED
  BY <1>2, <1>3, <1>4 DEF TileStep, BeginTransmit, EndTransmit

\* A sender posts a packet, then its array.
LEMMA SendOwn ==
  ASSUME Once, Own, NEW p \in Packet, SendStep(p)
  PROVE  Own'
<1>1. UNCHANGED recv /\ UNCHANGED rx
  BY DEF SendStep, PostHeader, HeaderSent, PostArray, ArraySent
<1>2. \A q \in Dresp : Coming(q)' <=> Expected(q)'
  BY SendExpects DEF Own, Paired
<1> QED
  BY <1>1, <1>2, PairedNext DEF Own, OwnHeld, OwnStored

\* A thread receives a packet: it may be one that has no array.
LEMMA ReceiveHeaderOwn ==
  ASSUME Once, Own, NEW th \in Thread, ReceiveHeader(th)
  PROVE  Own'
<1>1. UNCHANGED send /\ UNCHANGED rx
  BY ReceiveHeaderEffect
<1>2. PICK s \in Rank : \E i \in DOMAIN net[s][th[1]] : \E p \in Packet :
        HeaderTaken(th, s, i, p)
  BY ReceiveHeaderEffect
<1>3. \A q \in Dresp : (Expected(q)' <=> Expected(q)) /\ (ArrayInNet(q)' <=> ArrayInNet(q))
  BY <1>2, DrespArePackets DEF HeaderTaken
<1>4. \A q \in Dresp : Coming(q)' <=> Expected(q)'
  BY <1>1, <1>3 DEF Own, Paired, Coming
<1>5. OwnHeld'
  <2>1. \E p \in Packet : recv' =
          [recv EXCEPT ![th] = [pc |-> IF p \in Dresp THEN "awaitArray" ELSE "store",
                                pkt |-> p, ptr |-> OwnPointer(p)]]
    <3>1. \A a \in Rank : \A k \in DOMAIN net[a][th[1]] : net[a][th[1]][k].pkt \in Packet
      <4> SUFFICES ASSUME NEW a \in Rank, NEW k \in DOMAIN net[a][th[1]]
                   PROVE  net[a][th[1]][k].pkt \in Packet
        OBVIOUS
      <4>1. th[1] \in Rank /\ net[a][th[1]][k] \in ToSet(net[a][th[1]])
        BY DEF Thread, ToSet
      <4> QED
        BY <4>1, MessageKinds
    <3> QED
      BY <3>1 DEF ReceiveHeader
  <2>2. PICK p \in Packet : recv' =
          [recv EXCEPT ![th] = [pc |-> IF p \in Dresp THEN "awaitArray" ELSE "store",
                                pkt |-> p, ptr |-> OwnPointer(p)]]
    BY <2>1
  <2>3. \A h \in Thread :
          recv'[h] = IF h = th THEN [pc |-> IF p \in Dresp THEN "awaitArray" ELSE "store",
                                     pkt |-> p, ptr |-> OwnPointer(p)] ELSE recv[h]
    BY <2>2 DEF Once, Inv, TypeOK
  <2> QED
    BY <2>3 DEF Own, OwnHeld
<1> QED
  BY <1>1, <1>4, <1>5, PairedNext DEF Own, OwnStored

\* A thread receives the array of the packet it holds.
LEMMA ReceiveArrayOwn ==
  ASSUME OneBridge, FlowOfOneTile, Once, Orderly, Own, NEW th \in Thread, ReceiveArray(th)
  PROVE  Own'
<1>1. UNCHANGED rx
  BY ReceiveArrayEffect
<1>2. PICK s \in Rank : \E i \in DOMAIN net[s][th[1]] : \E a, b \in Dresp :
        ArrayTaken(th, s, i, a, b)
  BY ReceiveArrayEffect
<1>3. PICK i \in DOMAIN net[s][th[1]] : \E a, b \in Dresp : ArrayTaken(th, s, i, a, b)
  BY <1>2
<1>4. PICK a \in Dresp, b \in Dresp : ArrayTaken(th, s, i, a, b)
  BY <1>3
<1>5. a = b
  BY <1>4, TakesOwn DEF Own
<1>6. /\ \A q \in Dresp : /\ Expected(q)' <=> Expected(q) /\ q # b
                          /\ Coming(q)' <=> Coming(q) /\ q # a
      /\ \A h \in Thread :
           recv'[h] = IF h = th THEN [pc |-> "store", pkt |-> b,
                                      ptr |-> [space |-> th[1], data |-> a]] ELSE recv[h]
  BY <1>4 DEF ArrayTaken
<1>7. \A q \in Dresp : Coming(q)' <=> Expected(q)'
  BY <1>5, <1>6 DEF Own, Paired
<1>8. OwnHeld'
  BY <1>5, <1>6 DEF Own, OwnHeld
<1> QED
  BY <1>1, <1>7, <1>8, PairedNext DEF Own, OwnStored

\* A thread stores what it holds.
LEMMA StoreOwnHeld ==
  ASSUME Once, Own, NEW th \in Thread, Store(th)
  PROVE  Own'
<1> DEFINE p == recv[th].pkt
           e == [pkt |-> p, ptr |-> recv[th].ptr]
<1>1. /\ recv[th].pc = "store" /\ UNCHANGED net /\ UNCHANGED send /\ e \in Stored
      /\ rx' = [rx EXCEPT ![Dest(p)] = Append(@, e)]
      /\ \A q \in Packet, h \in Thread : WaitsFor(h, q)' <=> WaitsFor(h, q)
  BY StoreEffect
<1>2. e.pkt = p /\ (p \in Dresp => e.ptr.data = p)
  BY <1>1 DEF Own, OwnHeld
<1>3. OwnStored'
  <2> HIDE DEF e, p
  <2> QED
    BY <1>1, <1>2, StoreOwn DEF Own
<1>4. \A q \in Dresp : (Expected(q)' <=> Expected(q)) /\ (Coming(q)' <=> Coming(q))
  BY <1>1, SameNet, DrespArePackets DEF Expected, Coming
<1>5. \A q \in Dresp : Coming(q)' <=> Expected(q)'
  BY <1>4 DEF Own, Paired
<1>6. \A h \in Thread : recv'[h] = IF h = th THEN Listening ELSE recv[h]
  BY DEF Store, Once, Inv, TypeOK
<1>7. OwnHeld'
  BY <1>6 DEF Own, OwnHeld, Listening
<1> QED
  BY <1>3, <1>5, <1>7, PairedNext DEF Own

(* Every array on its way is expected by the packet it was sent with: so   *)
(* it is in every state that the transport reaches with one bridge for     *)
(* each process, without threaded sends, and with a flow for each tile.    *)
THEOREM OwnHolds == ASSUME OneBridge, FlowOfOneTile PROVE Spec => []Own
<1>1. Init => Own
  <2> SUFFICES ASSUME Init PROVE Own
    OBVIOUS
  <2>1. Once /\ created = {} /\ \A q \in Packet : send[q] = "none"
    BY InitOnce DEF Init
  <2>2. \A q \in Dresp : ~Expected(q) /\ ~Coming(q)
    BY <2>1, DrespArePackets
    DEF Once, PacketOnce, PacketAt, ArrayOnce, ArrayAt, Expected, WaitsFor, HeldBy, Coming
  <2>3. (\A th \in Thread : recv[th].pc = "listen") /\ \A t \in Tile : ToSet(rx[t]) = {}
    BY EmptySeq DEF Init, Listening, ToSet
  <2> QED
    BY <2>2, <2>3 DEF Own, Paired, OwnHeld, OwnStored
<1>2. Once /\ Orderly /\ Own /\ [Next]_vars => Own'
  <2> SUFFICES ASSUME Once, Orderly, Own, [Next]_vars PROVE Own'
    OBVIOUS
  <2>1. CASE UNCHANGED <<net, recv, send, rx>>
    BY <2>1, QuietOwn DEF Own, OwnStored
  <2>2. ASSUME NEW p \in Packet, Create(p) \/ SendStep(p) PROVE Own'
    BY <2>1, <2>2, SendOwn DEF Create
  <2>3. ASSUME NEW t \in Tile, TileStep(t) PROVE Own'
    BY <2>3, TileOwn
  <2>4. ASSUME NEW th \in Thread, ThreadStep(th) PROVE Own'
    BY <2>4, ReceiveHeaderOwn, ReceiveArrayOwn, StoreOwnHeld DEF ThreadStep
  <2> QED
    BY <2>1, <2>2, <2>3, <2>4 DEF Next, vars
<1> QED
  BY OnceHolds, OrderlyHolds, <1>1, <1>2, PTL DEF Spec

(* With one bridge for each process and without threaded sends, a packet   *)
(* is stored with the array it was sent with, as long as no two tiles give *)
(* the same Return_to to packets for the same tile.                        *)
THEOREM OwnArrayCorrect == ASSUME OneBridge, FlowOfOneTile PROVE Spec => []OwnArray
<1>1. Own => OwnArray
  BY DEF Own, OwnStored, OwnArray, ToSet
<1> QED
  BY OwnHolds, <1>1, PTL

-----------------------------------------------------------------------------
(* Packets before arrays *)

(* Only one process sends P_DRESP packets that a tag cannot tell apart.    *)
FlowOfOneProcess == \A p, q \in Dresp : Flow(p) = Flow(q) => SourceRank(p) = SourceRank(q)

\* Two messages, not the array of a packet and then the packet matched to it.
NotArrayFirst(f) ==
  {x \in Message \X Message : \A q \in Dresp : x[1] = ArrayMessage(q) => x[2] # Header(f[q])}

(* To every array that comes f matches a packet that is expected to get    *)
(* such an array, no packet to two arrays; and a packet that is in a       *)
(* message is before its array.                                            *)
Matching(f) ==
  /\ \A q \in Dresp : Coming(q) => SameTag(f[q], q) /\ Expected(f[q])
  /\ \A p, q \in Dresp : Coming(p) /\ Coming(q) /\ f[p] = f[q] => p = q
  /\ \A s, r \in Rank : Arranged(net[s][r], NotArrayFirst(f))

SomeMatching == \E f \in [Dresp -> Dresp] : Matching(f)

\* What must not come first does not depend on the state.
LEMMA NotArrayFirstNext ==
  \A f : NotArrayFirst(f)' = NotArrayFirst(f) /\ \A p, q : SameTag(p, q)' = SameTag(p, q)
BY SameTagNext
DEF NotArrayFirst, Message, tag_default, create_tag, DataTag, Dest, ArrayMessage, Header

\* Nothing comes and nothing is expected anew, and no message is sent.
LEMMA MatchingSame ==
  ASSUME NEW f, Matching(f),
         \A q \in Dresp : (Expected(q)' <=> Expected(q)) /\ (Coming(q)' <=> Coming(q)),
         f \in [Dresp -> Dresp],
         \A s, r \in Rank : Arranged(net'[s][r], NotArrayFirst(f))
  PROVE  Matching(f)'
BY NotArrayFirstNext DEF Matching, Arranged

\* A tile's thread, or one that stores, posts and receives nothing.
LEMMA QuietMatching ==
  ASSUME NEW f \in [Dresp -> Dresp], Matching(f), UNCHANGED net,
         \A q \in Dresp : (\E th \in Thread : WaitsFor(th, q))' <=> \E th \in Thread : WaitsFor(th, q),
         \A q \in Dresp : send'[q] \in {"headerTest", "array"}
                            <=> send[q] \in {"headerTest", "array"}
  PROVE  Matching(f)'
<1>1. \A q \in Dresp : (Expected(q)' <=> Expected(q)) /\ (Coming(q)' <=> Coming(q))
  BY SameNet, DrespArePackets DEF Expected, Coming
<1> QED
  BY <1>1, MatchingSame DEF Matching

\* A packet that is posted is matched to its own array.
LEMMA PostMatching ==
  ASSUME Once, NEW f \in [Dresp -> Dresp], Matching(f), NEW p \in Packet, PostHeader(p)
  PROVE  SomeMatching'
<1>1. /\ send[p] = "header" /\ Header(p) \in Message
      /\ \A a, b \in Rank :
           net'[a][b] = IF a = SourceRank(p) /\ b = DestRank(p)
                        THEN Append(net[a][b], Header(p)) ELSE net[a][b]
      /\ \A q \in Dresp : /\ Expected(q)' <=> Expected(q) \/ q = p
                          /\ Coming(q)' <=> Coming(q) \/ q = p
  BY PostHeaderEffect, SendExpects DEF SendStep
<1>2. PacketAt(p) /\ (p \in Dresp => ArrayAt(p))
  BY DEF Once, PacketOnce, ArrayOnce
<1>3. ~Expected(p) /\ (p \in Dresp => ~Coming(p))
  BY <1>1, <1>2 DEF PacketAt, ArrayAt, Expected, Coming, WaitsFor, HeldBy
<1> DEFINE g == [q \in Dresp |-> IF q = p THEN q ELSE f[q]]
<1>4. g \in [Dresp -> Dresp] /\ \A q \in Dresp : g[q] = IF q = p THEN q ELSE f[q]
  OBVIOUS
<1> HIDE DEF g
<1>5. ASSUME NEW q \in Dresp, Coming(q)' PROVE SameTag(g[q], q)' /\ Expected(g[q])'
  <2>1. CASE q = p
    BY <1>1, <1>4, <2>1, NotArrayFirstNext DEF SameTag
  <2>2. CASE q # p
    <3>1. SameTag(f[q], q) /\ Expected(f[q]) /\ f[q] \in Dresp
      BY <1>1, <1>5, <2>2 DEF Matching
    <3> QED
      BY <1>1, <1>4, <2>2, <3>1, NotArrayFirstNext
  <2> QED
    BY <2>1, <2>2
<1>6. ASSUME NEW x \in Dresp, NEW y \in Dresp, Coming(x)', Coming(y)', g[x] = g[y]
      PROVE  x = y
  <2>1. \A q \in Dresp : q # p /\ Coming(q)' => Coming(q) /\ f[q] # p
    BY <1>1, <1>3 DEF Matching
  <2> QED
    BY <1>4, <1>6, <2>1 DEF Matching
<1>7. ASSUME NEW a \in Rank, NEW b \in Rank
      PROVE  Arranged(net'[a][b], NotArrayFirst(g)')
  <2>1. net[a][b] \in Seq(Message) /\ Arranged(net[a][b], NotArrayFirst(f))
    BY DEF Once, Inv, TypeOK, Matching
  <2>2. ASSUME NEW q \in Dresp, ArrayMessage(q) \in ToSet(net[a][b])
        PROVE  q # p /\ f[q] # p
    <3>1. ArrayInNet(q)
      <4>1. /\ ArrayMessage(q).pkt = q
            /\ SourceRank(ArrayMessage(q).pkt) = a /\ DestRank(ArrayMessage(q).pkt) = b
        BY <2>2, MessageKinds DEF ArrayMessage
      <4>2. SourceRank(q) = a /\ DestRank(q) = b
        BY <4>1
      <4> QED
        BY <2>2, <4>2 DEF ArrayInNet, MessagesOf
    <3>2. Coming(q)
      BY <3>1 DEF Coming
    <3> QED
      BY <1>3, <3>2 DEF Matching
  <2>3. Arranged(net[a][b], NotArrayFirst(g))
    <3> SUFFICES ASSUME NEW i \in DOMAIN net[a][b], NEW j \in DOMAIN net[a][b], i < j
                 PROVE  <<net[a][b][i], net[a][b][j]>> \in NotArrayFirst(g)
      BY DEF Arranged
    <3>1. /\ <<net[a][b][i], net[a][b][j]>> \in NotArrayFirst(f)
          /\ net[a][b][i] \in ToSet(net[a][b])
      BY <2>1 DEF Arranged, ToSet
    <3> QED
      BY <1>4, <2>2, <3>1 DEF NotArrayFirst
  <2>4. \A x \in ToSet(net[a][b]) : <<x, Header(p)>> \in NotArrayFirst(g)
    <3> SUFFICES ASSUME NEW x \in ToSet(net[a][b]), NEW q \in Dresp, x = ArrayMessage(q)
                 PROVE  x \in Message /\ Header(p) # Header(g[q])
      BY <1>1, MessageKinds DEF NotArrayFirst
    <3>1. q # p /\ f[q] # p
      BY <2>2
    <3> QED
      BY <1>4, <3>1, MessageKinds DEF Header
  <2>5. Arranged(net'[a][b], NotArrayFirst(g))
    BY <1>1, <2>1, <2>3, <2>4, ArrangedAppend
  <2> QED
    BY <2>5, NotArrayFirstNext
<1>8. Matching(g)'
  BY <1>5, <1>6, <1>7 DEF Matching
<1> QED
  BY <1>4, <1>8 DEF SomeMatching

\* A packet is sent, or its array posted after it.
LEMMA SendMatching ==
  ASSUME Once, NEW f \in [Dresp -> Dresp], Matching(f), NEW p \in Packet, SendStep(p)
  PROVE  SomeMatching'
<1>1. CASE PostHeader(p)
  BY <1>1, PostMatching
<1>2. CASE ~PostHeader(p)
  <2>1. \A q \in Dresp : (Expected(q)' <=> Expected(q)) /\ (Coming(q)' <=> Coming(q))
    BY <1>2, SendExpects
  <2>2. ASSUME NEW a \in Rank, NEW b \in Rank PROVE Arranged(net'[a][b], NotArrayFirst(f))
    <3>1. net[a][b] \in Seq(Message) /\ Arranged(net[a][b], NotArrayFirst(f))
      BY DEF Once, Inv, TypeOK, Matching
    <3>2. CASE PostArray(p)
      <4>1. /\ ArrayMessage(p) \in Message
            /\ net'[a][b] = IF a = SourceRank(p) /\ b = DestRank(p)
                            THEN Append(net[a][b], ArrayMessage(p)) ELSE net[a][b]
        BY <3>2, PostArrayEffect
      <4>2. \A q \in Dresp : ArrayMessage(p) # Header(f[q])
        BY TagsDiffer DEF ArrayMessage, Header
      <4>3. \A x \in ToSet(net[a][b]) : <<x, ArrayMessage(p)>> \in NotArrayFirst(f)
        BY <4>1, <4>2, MessageKinds DEF NotArrayFirst
      <4>4. Arranged(Append(net[a][b], ArrayMessage(p)), NotArrayFirst(f))
        BY <3>1, <4>1, <4>3, ArrangedAppend
      <4> QED
        BY <3>1, <4>1, <4>4
    <3>3. CASE HeaderSent(p) \/ ArraySent(p)
      BY <3>1, <3>3 DEF HeaderSent, ArraySent
    <3> QED
      BY <1>2, <3>2, <3>3 DEF SendStep
  <2>3. Matching(f)'
    BY <2>1, <2>2, MatchingSame
  <2> QED
    BY <2>3 DEF SomeMatching
<1> QED
  BY <1>1, <1>2

\* A message is taken, and the others stay in order.
LEMMA TakeMatching ==
  ASSUME Once, NEW R, NEW s \in Rank, NEW r \in Rank, NEW i \in DOMAIN net[s][r],
         \A a, b \in Rank : Arranged(net[a][b], R),
         \A a, b \in Rank : net'[a][b] = IF a = s /\ b = r THEN RemoveAt(net[a][b], i)
                                                           ELSE net[a][b]
  PROVE  \A a, b \in Rank : Arranged(net'[a][b], R)
<1>1. net[s][r] \in Seq(Message) /\ Arranged(net[s][r], R)
  BY DEF Once, Inv, TypeOK
<1>2. Arranged(RemoveAt(net[s][r], i), R)
  BY <1>1, ArrangedRemoveAt
<1> QED
  BY <1>2

\* A packet is received: the thread that takes it waits for its array.
LEMMA ReceiveHeaderMatching ==
  ASSUME Once, NEW f \in [Dresp -> Dresp], Matching(f), NEW th \in Thread, ReceiveHeader(th)
  PROVE  Matching(f)'
<1>1. UNCHANGED send /\ th[1] \in Rank
  BY ReceiveHeaderEffect
<1>2. PICK s \in Rank : \E i \in DOMAIN net[s][th[1]] : \E p \in Packet :
        HeaderTaken(th, s, i, p)
  BY ReceiveHeaderEffect
<1>3. PICK i \in DOMAIN net[s][th[1]] : \E p \in Packet : HeaderTaken(th, s, i, p)
  BY <1>2
<1>4. /\ \A a, b \in Rank :
           net'[a][b] = IF a = s /\ b = th[1] THEN RemoveAt(net[a][b], i) ELSE net[a][b]
      /\ \A q \in Dresp : (Expected(q)' <=> Expected(q)) /\ (ArrayInNet(q)' <=> ArrayInNet(q))
  BY <1>3, DrespArePackets DEF HeaderTaken
<1>5. \A q \in Dresp : Coming(q)' <=> Coming(q)
  BY <1>1, <1>4 DEF Coming
<1>6. \A a, b \in Rank : Arranged(net'[a][b], NotArrayFirst(f))
  BY <1>1, <1>4, TakeMatching DEF Matching
<1> QED
  BY <1>4, <1>5, <1>6, MatchingSame

(* An array is received.  If the packet that gets it was matched to        *)
(* another array, that one is now matched to the packet whose array is     *)
(* gone.                                                                   *)
LEMMA ReceiveArrayMatching ==
  ASSUME FlowOfOneProcess, Once, NEW f \in [Dresp -> Dresp], Matching(f),
         NEW th \in Thread, ReceiveArray(th)
  PROVE  SomeMatching'
<1>1. UNCHANGED send /\ th[1] \in Rank
  BY ReceiveArrayEffect
<1>2. PICK s \in Rank : \E i \in DOMAIN net[s][th[1]] : \E a, b \in Dresp :
        ArrayTaken(th, s, i, a, b)
  BY ReceiveArrayEffect
<1>3. PICK i \in DOMAIN net[s][th[1]] : \E a, b \in Dresp : ArrayTaken(th, s, i, a, b)
  BY <1>2
<1>4. PICK a \in Dresp, b \in Dresp : ArrayTaken(th, s, i, a, b)
  BY <1>3
<1>5. /\ net[s][th[1]][i] = ArrayMessage(a) /\ Matches(s, th[1], DataTag(b), i)
      /\ SourceRank(a) = s /\ DestRank(a) = th[1] /\ ArrayInNet(a) /\ SameTag(a, b)
      /\ \A x, y \in Rank :
           net'[x][y] = IF x = s /\ y = th[1] THEN RemoveAt(net[x][y], i) ELSE net[x][y]
      /\ \A q \in Dresp : /\ Expected(q)' <=> Expected(q) /\ q # b
                          /\ Coming(q)' <=> Coming(q) /\ q # a
  BY <1>4 DEF ArrayTaken
<1> DEFINE c == f[a]
<1>6. PICK g \in [Dresp -> Dresp] :
        c \in Dresp /\ \A q \in Dresp : g[q] = IF f[q] = b THEN c ELSE f[q]
  <2> DEFINE u == [q \in Dresp |-> IF f[q] = b THEN c ELSE f[q]]
  <2>1. u \in [Dresp -> Dresp] /\ c \in Dresp
    OBVIOUS
  <2>2. \A q \in Dresp : u[q] = IF f[q] = b THEN c ELSE f[q]
    OBVIOUS
  <2> HIDE DEF u, c
  <2> QED
    BY <2>1, <2>2
<1>7. Coming(a) /\ SameTag(c, a) /\ Expected(c)
  BY <1>5 DEF Coming, Matching
<1>8. ASSUME NEW q \in Dresp, Coming(q), q # a
      PROVE  SameTag(g[q], q) /\ Expected(g[q]) /\ g[q] # b
  <2>1. SameTag(f[q], q) /\ Expected(f[q]) /\ f[q] # c
    BY <1>7, <1>8 DEF Matching
  <2>2. CASE f[q] = b
    BY <1>5, <1>6, <1>7, <2>1, <2>2 DEF SameTag
  <2>3. CASE f[q] # b
    BY <1>6, <2>1, <2>3
  <2> QED
    BY <2>2, <2>3
<1>9. ASSUME NEW q \in Dresp, Coming(q)' PROVE SameTag(g[q], q)' /\ Expected(g[q])'
  BY <1>5, <1>6, <1>8, <1>9, NotArrayFirstNext
<1>10. ASSUME NEW x \in Dresp, NEW y \in Dresp, Coming(x)', Coming(y)', g[x] = g[y]
       PROVE  x = y
  <2>1. Coming(x) /\ x # a /\ f[x] # c /\ Coming(y) /\ y # a /\ f[y] # c
    BY <1>5, <1>7, <1>10 DEF Matching
  <2>2. f[x] = f[y]
    BY <1>6, <1>10, <2>1
  <2> QED
    BY <2>1, <2>2 DEF Matching
<1>11. ASSUME NEW x \in Rank, NEW y \in Rank, NEW k \in DOMAIN net[x][y],
              NEW j \in DOMAIN net[x][y], k < j, NEW q \in Dresp,
              net[x][y][k] = ArrayMessage(q), net[x][y][j] = Header(g[q])
       PROVE  FALSE
  <2>1. net[x][y] \in Seq(Message) /\ DOMAIN net[x][y] = 1 .. Len(net[x][y]) /\ Len(net[x][y]) \in Nat
    BY LenProperties DEF Once, Inv, TypeOK
  <2>2. <<net[x][y][k], net[x][y][j]>> \in NotArrayFirst(f)
    BY <1>11 DEF Matching, Arranged
  <2>3. f[q] = b /\ g[q] = c /\ c # b
    BY <1>6, <1>11, <2>2 DEF NotArrayFirst, Header
  <2>4. ArrayInNet(q) /\ SourceRank(q) = x /\ DestRank(q) = y
    <3>1. ArrayMessage(q) \in ToSet(net[x][y]) /\ ArrayMessage(q).pkt = q
      BY <1>11 DEF ToSet, ArrayMessage
    <3>2. SourceRank(q) = x /\ DestRank(q) = y
      BY <3>1, MessageKinds
    <3> QED
      BY <3>1, <3>2 DEF ArrayInNet, MessagesOf
  <2>5. SameTag(b, q) /\ q # a
    BY <2>3, <2>4 DEF Matching, Coming
  <2>6. DataTag(q) = DataTag(b) /\ DataTag(a) = DataTag(b) /\ y = th[1]
    BY <1>5, <2>4, <2>5 DEF SameTag
  <2>7. x = s
    BY <1>5, <2>4, <2>6, TagsDiffer, DrespArePackets DEF FlowOfOneProcess
  <2>8. i < k
    <3>1. ArrayMessage(q) # ArrayMessage(a) /\ ArrayMessage(q).tag = DataTag(b)
      BY <2>5, <2>6 DEF ArrayMessage
    <3>2. k # i /\ ~(k \in 1 .. i - 1)
      BY <1>5, <1>11, <2>6, <2>7, <3>1 DEF Matches
    <3> QED
      BY <2>1, <2>6, <2>7, <3>2
  <2>9. i < j
    BY <2>1, <2>6, <2>7, <2>8, <1>11
  <2>10. <<net[s][th[1]][i], net[s][th[1]][j]>> \in NotArrayFirst(f)
    BY <1>1, <2>6, <2>7, <2>9 DEF Matching, Arranged
  <2> QED
    BY <1>5, <1>11, <2>3, <2>6, <2>7, <2>10 DEF NotArrayFirst
<1>12. \A x, y \in Rank : Arranged(net[x][y], NotArrayFirst(g))
  <2> SUFFICES ASSUME NEW x \in Rank, NEW y \in Rank, NEW k \in DOMAIN net[x][y],
                      NEW j \in DOMAIN net[x][y], k < j
               PROVE  <<net[x][y][k], net[x][y][j]>> \in NotArrayFirst(g)
    BY DEF Arranged
  <2>1. net[x][y][k] \in Message /\ net[x][y][j] \in Message
    BY MessageKinds DEF ToSet
  <2> QED
    BY <1>11, <2>1 DEF NotArrayFirst
<1>13. \A x, y \in Rank : Arranged(net'[x][y], NotArrayFirst(g))
  <2>1. net[s][th[1]] \in Seq(Message) /\ Arranged(net[s][th[1]], NotArrayFirst(g))
    BY <1>1, <1>12 DEF Once, Inv, TypeOK
  <2>2. Arranged(RemoveAt(net[s][th[1]], i), NotArrayFirst(g))
    BY <2>1, ArrangedRemoveAt
  <2>3. \A x, y \in Rank :
          net'[x][y] = IF x = s /\ y = th[1] THEN RemoveAt(net[x][y], i) ELSE net[x][y]
    BY <1>5
  <2> QED
    BY <1>12, <2>2, <2>3
<1>14. Matching(g)'
  BY <1>9, <1>10, <1>13, NotArrayFirstNext DEF Matching
<1> QED
  BY <1>6, <1>14 DEF SomeMatching

\* No other step posts, receives or expects anything.
LEMMA OtherMatching ==
  ASSUME Once, NEW f \in [Dresp -> Dresp], Matching(f)
  PROVE  /\ UNCHANGED <<net, recv, send>> => Matching(f)'
         /\ \A th \in Thread : Store(th) => Matching(f)'
         /\ \A t \in Tile : TileStep(t) => Matching(f)'
<1>1. ASSUME UNCHANGED <<net, recv, send>> PROVE Matching(f)'
  BY <1>1, QuietMatching DEF WaitsFor
<1>2. ASSUME NEW th \in Thread, Store(th) PROVE Matching(f)'
  <2>1. /\ UNCHANGED net /\ UNCHANGED send
        /\ \A q \in Packet, h \in Thread : WaitsFor(h, q)' <=> WaitsFor(h, q)
    BY <1>2, StoreEffect
  <2> QED
    BY <2>1, QuietMatching, DrespArePackets
<1>3. ASSUME NEW t \in Tile, TransmitRemote(t) PROVE Matching(f)'
  <2> DEFINE p == Head(tx[t])
  <2>1. /\ tx[t] # <<>> /\ tx' = [tx EXCEPT ![t] = Tail(@)]
        /\ UNCHANGED net /\ UNCHANGED recv /\ send' = [send EXCEPT ![p] = "header"]
    BY <1>3 DEF TransmitRemote, TxPop
  <2>2. p \in Packet /\ InTx(p)
    BY <2>1, PopTx
  <2> HIDE DEF p
  <2>3. send[p] = "none"
    BY <2>2 DEF Once, PacketOnce, PacketAt
  <2>4. \A q \in Packet : send'[q] = IF q = p THEN "header" ELSE send[q]
    BY <2>1 DEF Once, Inv, TypeOK
  <2> QED
    BY <2>1, <2>3, <2>4, QuietMatching, DrespArePackets DEF WaitsFor
<1> QED
  BY <1>1, <1>2, <1>3
  DEF TileStep, BeginTransmit, TransmitLocal, EndTransmit

\* Nothing has been sent.
LEMMA InitMatching == Init => SomeMatching
<1> SUFFICES ASSUME Init PROVE SomeMatching
  OBVIOUS
<1>1. Once /\ created = {} /\ \A q \in Packet : send[q] = "none"
  BY InitOnce DEF Init
<1>2. \A q \in Dresp : ~Coming(q)
  BY <1>1, DrespArePackets DEF Once, ArrayOnce, ArrayAt, Coming
<1>3. \A f : \A s, r \in Rank : Arranged(net[s][r], NotArrayFirst(f))
  BY DEF Init, Arranged
<1> DEFINE f == [q \in Dresp |-> q]
<1>4. f \in [Dresp -> Dresp]
  OBVIOUS
<1> HIDE DEF f
<1> QED
  BY <1>2, <1>3, <1>4 DEF SomeMatching, Matching

\* SomeMatching is inductive.
LEMMA MatchingNext ==
  ASSUME FlowOfOneProcess
  PROVE  Once /\ SomeMatching /\ [Next]_vars => SomeMatching'
<1> SUFFICES ASSUME Once, NEW f \in [Dresp -> Dresp], Matching(f), [Next]_vars
             PROVE  SomeMatching'
  BY DEF SomeMatching
<1>1. CASE UNCHANGED <<net, recv, send>>
  BY <1>1, OtherMatching DEF SomeMatching
<1>2. ASSUME NEW p \in Packet, Create(p) \/ SendStep(p) PROVE SomeMatching'
  BY <1>1, <1>2, SendMatching DEF Create
<1>3. ASSUME NEW t \in Tile, TileStep(t) PROVE SomeMatching'
  BY <1>3, OtherMatching DEF SomeMatching
<1>4. ASSUME NEW th \in Thread, ThreadStep(th) PROVE SomeMatching'
  <2>1. CASE ReceiveHeader(th) \/ Store(th)
    BY <2>1, ReceiveHeaderMatching, OtherMatching DEF SomeMatching
  <2> QED
    BY <1>4, <2>1, ReceiveArrayMatching DEF ThreadStep
<1> QED
  BY <1>1, <1>2, <1>3, <1>4 DEF Next, vars

(* With any number of bridges and any way of sending, every array that     *)
(* comes can be matched to a packet that may get it, and is behind it.     *)
THEOREM MatchingHolds == ASSUME FlowOfOneProcess PROVE Spec => []SomeMatching
BY OnceHolds, InitMatching, MatchingNext, PTL DEF Spec

(* With one bridge, what a thread that listens would receive first from a  *)
(* process is a packet, not an array, even if it asks for any message.     *)
LEMMA PacketFirst ==
  ASSUME NBridges = 1, FlowOfOneProcess, Once, SomeMatching,
         NEW th \in Thread, recv[th].pc = "listen",
         NEW s \in Rank, net[s][th[1]] # <<>>
  PROVE  net[s][th[1]][1].tag = tag_default
<1> DEFINE r == th[1]
           m == net[s][r][1]
           q == m.pkt
<1>1. r \in Rank /\ net[s][r] \in Seq(Message)
  BY DEF Thread, Once, Inv, TypeOK
<1>2. DOMAIN net[s][r] = 1 .. Len(net[s][r]) /\ Len(net[s][r]) \in Nat /\ Len(net[s][r]) >= 1
  BY <1>1, LenProperties, EmptySeq
<1>3. m \in ToSet(net[s][r])
  BY <1>2 DEF ToSet
<1>4. /\ m \in Message /\ q \in Packet /\ SourceRank(q) = s /\ DestRank(q) = r
      /\ m = Header(q) \/ (q \in Dresp /\ m = ArrayMessage(q) /\ ArrayInNet(q))
  BY <1>1, <1>3, MessageKinds
<1> HIDE DEF m, q
<1>5. CASE q \in Dresp /\ m = ArrayMessage(q) /\ ArrayInNet(q)
  <2>1. PICK f \in [Dresp -> Dresp] : Matching(f)
    BY DEF SomeMatching
  <2> DEFINE p == f[q]
  <2>2. p \in Dresp /\ SameTag(p, q) /\ Expected(p)
    BY <1>5, <2>1 DEF Matching, Coming
  <2> HIDE DEF p
  <2>3. ASSUME NEW h \in Thread, WaitsFor(h, p) PROVE FALSE
    <3>1. h[1] = DestRank(p)
      BY <2>3 DEF Once, Inv, RecvOK, ThreadOK, WaitsFor
    <3>2. h = <<h[1], 1>> /\ th = <<th[1], 1>>
      BY DEF Thread
    <3>3. h = th
      BY <1>4, <2>2, <3>1, <3>2 DEF SameTag
    <3> QED
      BY <2>3, <3>3 DEF WaitsFor
  <2>4. InNet(p)
    BY <2>2, <2>3 DEF Expected
  <2>5. SourceRank(p) = s /\ DestRank(p) = r
    BY <1>4, <1>5, <2>2, TagsDiffer, DrespArePackets DEF FlowOfOneProcess, SameTag
  <2>6. Header(p) \in ToSet(net[s][r])
    BY <2>4, <2>5 DEF InNet, MessagesOf
  <2>7. PICK j \in DOMAIN net[s][r] : net[s][r][j] = Header(p)
    BY <2>6 DEF ToSet
  <2>8. Header(p) # ArrayMessage(q)
    BY <1>5, TagsDiffer, DrespArePackets DEF Header, ArrayMessage
  <2>9. 1 < j /\ 1 \in DOMAIN net[s][r]
    BY <1>2, <1>5, <2>7, <2>8 DEF m
  <2>10. <<net[s][r][1], net[s][r][j]>> \in NotArrayFirst(f)
    BY <1>1, <2>1, <2>9 DEF Matching, Arranged
  <2> QED
    BY <1>5, <2>7, <2>10 DEF NotArrayFirst, m, p
<1>6. CASE m = Header(q)
  BY <1>6 DEF Header, m
<1> QED
  BY <1>4, <1>5, <1>6

=============================================================================
