---------------------------- MODULE BridgeProofs ----------------------------
(***************************************************************************)
(* What the transport of packets promises for any number of processes,     *)
(* tiles, bridges and packets, and with or without threaded sends.         *)
(*                                                                         *)
(* Packets reach the right tile with an array of their flow: RightTile and *)
(* SameFlow speak of RX FIFOs and receiving threads, and what makes them   *)
(* inductive is what they say of messages (Inv).                           *)
(*                                                                         *)
(* No packet and no array is lost or duplicated: each is at any time in    *)
(* exactly one of the places that the code passes it through.  PacketOnce  *)
(* and ArrayOnce say so for each pair of places, and tie them to the       *)
(* progress of the thread that sends the packet: a message that has not    *)
(* been sent is nowhere else.  FIFOs and messages are read as sets, which  *)
(* are enough as long as nothing is twice in a sequence.                   *)
(*                                                                         *)
(* A receiving thread does not wait in vain for an array.  NoOrphanWait    *)
(* compares numbers, which a step may change on one side: a thread that    *)
(* starts to wait raises one and not the other.  Balance also counts the   *)
(* packets still on their way to a thread that will wait, and then both    *)
(* numbers are equal.                                                      *)
(***************************************************************************)
EXTENDS Bridge, SequenceTheorems, FiniteSetTheorems, TLAPS

-----------------------------------------------------------------------------
(* Tiles and processes *)

\* What a quotient and a remainder are.
LEMMA DivisionProperties ==
  ASSUME NEW a \in Nat, NEW n \in Nat \ {0}
  PROVE  /\ a \div n \in Nat
         /\ (a \div n) * n <= a
         /\ a < (a \div n) * n + n
         /\ a % n \in 0 .. n - 1
BY Z3

\* Multiplying keeps the order: a rank below Size stays below it.
LEMMA ProductIsMonotonic ==
  ASSUME NEW q \in Nat, NEW s \in Nat, NEW n \in Nat \ {0}, q >= s
  PROVE  q * n >= s * n
BY Z3

\* There is at least one tile and one position in the grid.
LEMMA ProductIsPositive ==
  ASSUME NEW s \in Nat \ {0}, NEW n \in Nat \ {0}
  PROVE  s * n \in Nat \ {0}
BY Z3

\* Remainders of numbers up to n.
LEMMA Small ==
  ASSUME NEW n \in Nat \ {0}
  PROVE  /\ n % n = 0 /\ 0 % n = 0
         /\ \A x \in 0 .. n - 1 : x % n = x
BY Z3

-----------------------------------------------------------------------------
(* FIFOs and messages: Append, Tail and RemoveAt *)

\* No element is twice in the sequence.
NoRepeat(s) == \A a, b \in DOMAIN s : s[a] = s[b] => a = b

(* What is in a sequence after an element is appended.                     *)
LEMMA AppendElements ==
  ASSUME NEW S, NEW s \in Seq(S), NEW e \in S
  PROVE  /\ Append(s, e) \in Seq(S)
         /\ \A k \in DOMAIN Append(s, e) :
              Append(s, e)[k] = e \/ (k \in DOMAIN s /\ Append(s, e)[k] = s[k])
BY AppendProperties, LenProperties

(* What is in a sequence after element i is removed, and where.            *)
LEMMA RemoveAtElements ==
  ASSUME NEW S, NEW s \in Seq(S), NEW i \in DOMAIN s
  PROVE  /\ RemoveAt(s, i) \in Seq(S)
         /\ DOMAIN RemoveAt(s, i) = 1 .. Len(s) - 1
         /\ \A k \in 1 .. Len(s) - 1 :
              RemoveAt(s, i)[k] = s[IF k < i THEN k ELSE k + 1]
         /\ \A k \in DOMAIN RemoveAt(s, i) :
              \E j \in DOMAIN s : RemoveAt(s, i)[k] = s[j]
<1> DEFINE a == SubSeq(s, 1, i - 1)
           b == SubSeq(s, i + 1, Len(s))
<1>1. Len(s) \in Nat /\ DOMAIN s = 1 .. Len(s) /\ i \in 1 .. Len(s)
  BY LenProperties
<1>2. \A j \in 1 .. Len(s) : s[j] \in S
  BY <1>1, ElementOfSeq
<1>3. /\ a \in Seq(S) /\ Len(a) = i - 1
      /\ \A j \in 1 .. i - 1 : a[j] = s[j]
  <2>1. \A j \in 1 .. i - 1 : s[j] \in S
    BY <1>1, <1>2
  <2>2. /\ a \in Seq(S)
        /\ Len(a) = IF 1 <= i - 1 THEN (i - 1) - 1 + 1 ELSE 0
        /\ \A j \in 1 .. (i - 1) - 1 + 1 : a[j] = s[1 + j - 1]
    BY <1>1, <2>1, SubSeqProperties
  <2> QED
    BY <1>1, <2>2
<1>4. /\ b \in Seq(S) /\ Len(b) = Len(s) - i
      /\ \A j \in 1 .. Len(s) - i : b[j] = s[i + j]
  <2>1. \A j \in i + 1 .. Len(s) : s[j] \in S
    BY <1>1, <1>2
  <2>2. /\ b \in Seq(S)
        /\ Len(b) = IF i + 1 <= Len(s) THEN Len(s) - (i + 1) + 1 ELSE 0
        /\ \A j \in 1 .. Len(s) - (i + 1) + 1 : b[j] = s[i + 1 + j - 1]
    BY <1>1, <2>1, SubSeqProperties
  <2> QED
    BY <1>1, <2>2
<1>5. RemoveAt(s, i) = a \o b
  BY DEF RemoveAt
<1> HIDE DEF a, b
<1>6. /\ a \o b \in Seq(S) /\ Len(a \o b) = Len(a) + Len(b)
      /\ \A k \in 1 .. Len(a) + Len(b) :
           (a \o b)[k] = IF k <= Len(a) THEN a[k] ELSE b[k - Len(a)]
  BY <1>3, <1>4, ConcatProperties
<1>7. Len(a) \in Nat /\ Len(a) = i - 1 /\ Len(a) + Len(b) = Len(s) - 1
  BY <1>1, <1>3, <1>4
<1>8. DOMAIN (a \o b) = 1 .. Len(s) - 1
  <2>1. DOMAIN (a \o b) = 1 .. Len(a \o b)
    BY <1>6, LenProperties
  <2> QED
    BY <2>1, <1>6, <1>7
<1>9. ASSUME NEW k \in 1 .. Len(s) - 1
      PROVE  (a \o b)[k] = s[IF k < i THEN k ELSE k + 1]
  <2>1. (a \o b)[k] = IF k <= i - 1 THEN a[k] ELSE b[k - (i - 1)]
    BY <1>6, <1>7
  <2>2. CASE k <= i - 1
    <3>1. a[k] = s[k] /\ k < i
      BY <1>1, <1>3, <2>2
    <3> QED
      BY <2>1, <2>2, <3>1
  <2>3. CASE ~(k <= i - 1)
    <3>1. k - (i - 1) \in 1 .. Len(s) - i /\ i + (k - (i - 1)) = k + 1 /\ ~(k < i)
      BY <1>1, <2>3
    <3>2. b[k - (i - 1)] = s[k + 1]
      BY <1>1, <1>4, <3>1
    <3> QED
      BY <2>1, <2>3, <3>1, <3>2
  <2> QED
    BY <2>2, <2>3
<1>10. \A k \in 1 .. Len(s) - 1 : (IF k < i THEN k ELSE k + 1) \in DOMAIN s
  BY <1>1
<1> QED
  BY <1>5, <1>6, <1>8, <1>9, <1>10

(* Appending what is not there keeps a sequence without repeats.           *)
LEMMA AppendNew ==
  ASSUME NEW S, NEW s \in Seq(S), NEW e \in S
  PROVE  /\ Append(s, e) \in Seq(S)
         /\ ToSet(Append(s, e)) = ToSet(s) \cup {e}
         /\ NoRepeat(s) /\ e \notin ToSet(s) => NoRepeat(Append(s, e))
<1>1. /\ Append(s, e) \in Seq(S) /\ Len(Append(s, e)) = Len(s) + 1
      /\ \A i \in 1 .. Len(s) : Append(s, e)[i] = s[i]
      /\ Append(s, e)[Len(s) + 1] = e
  BY AppendProperties
<1>2. Len(s) \in Nat /\ DOMAIN s = 1 .. Len(s)
  BY LenProperties
<1>3. DOMAIN Append(s, e) = 1 .. Len(s) + 1
  BY <1>1, LenProperties
<1>4. ToSet(Append(s, e)) = ToSet(s) \cup {e}
  <2>1. \A i \in 1 .. Len(s) + 1 : i \in 1 .. Len(s) \/ i = Len(s) + 1
    BY <1>2
  <2>2. \A i \in 1 .. Len(s) : i \in 1 .. Len(s) + 1
    BY <1>2
  <2>3. Len(s) + 1 \in 1 .. Len(s) + 1
    BY <1>2
  <2> QED
    BY <1>1, <1>2, <1>3, <2>1, <2>2, <2>3 DEF ToSet
<1>5. ASSUME NoRepeat(s), e \notin ToSet(s),
             NEW a \in DOMAIN Append(s, e), NEW b \in DOMAIN Append(s, e),
             Append(s, e)[a] = Append(s, e)[b]
      PROVE  a = b
  <2>1. \A i \in DOMAIN s : s[i] # e
    BY <1>5 DEF ToSet
  <2>2. a \in DOMAIN s \/ a = Len(s) + 1
    BY <1>2, <1>3
  <2>3. b \in DOMAIN s \/ b = Len(s) + 1
    BY <1>2, <1>3
  <2> QED
    BY <1>1, <1>2, <1>5, <2>1, <2>2, <2>3 DEF NoRepeat
<1> QED
  BY <1>1, <1>4, <1>5 DEF NoRepeat

(* Removing an element that is there once removes it from the set.         *)
LEMMA RemoveAtOnce ==
  ASSUME NEW S, NEW s \in Seq(S), NEW i \in DOMAIN s, NoRepeat(s)
  PROVE  /\ ToSet(RemoveAt(s, i)) = ToSet(s) \ {s[i]}
         /\ NoRepeat(RemoveAt(s, i))
<1>1. Len(s) \in Nat /\ DOMAIN s = 1 .. Len(s) /\ i \in 1 .. Len(s)
  BY LenProperties
<1> DEFINE n == Len(s)
           u == RemoveAt(s, i)
           at(k) == IF k < i THEN k ELSE k + 1
<1>2. DOMAIN u = 1 .. n - 1 /\ \A k \in 1 .. n - 1 : u[k] = s[at(k)]
  BY RemoveAtElements
<1>3. n \in Nat /\ DOMAIN s = 1 .. n /\ i \in 1 .. n
  BY <1>1
<1> HIDE DEF n, u
<1>4. \A k \in 1 .. n - 1 : at(k) \in 1 .. n /\ at(k) # i
  BY <1>3
<1>5. \A k, l \in 1 .. n - 1 : at(k) = at(l) => k = l
  BY <1>3
<1>6. \A j \in 1 .. n : j # i => \E k \in 1 .. n - 1 : at(k) = j
  <2> SUFFICES ASSUME NEW j \in 1 .. n, j # i PROVE \E k \in 1 .. n - 1 : at(k) = j
    OBVIOUS
  <2>1. CASE j < i
    <3>1. j \in 1 .. n - 1 /\ at(j) = j
      BY <1>3, <2>1
    <3> QED
      BY <3>1
  <2>2. CASE i < j
    <3>1. j - 1 \in 1 .. n - 1 /\ at(j - 1) = j
      BY <1>3, <2>2
    <3> QED
      BY <3>1
  <2> QED
    BY <1>3, <2>1, <2>2
<1> HIDE DEF at
<1>7. NoRepeat(u)
  BY <1>2, <1>3, <1>4, <1>5 DEF NoRepeat
<1>8. ToSet(u) = ToSet(s) \ {s[i]}
  <2>1. ASSUME NEW k \in 1 .. n - 1 PROVE u[k] \in ToSet(s) /\ u[k] # s[i]
    BY <1>2, <1>3, <1>4 DEF ToSet, NoRepeat
  <2>2. ASSUME NEW j \in 1 .. n, s[j] # s[i] PROVE \E k \in 1 .. n - 1 : u[k] = s[j]
    BY <1>2, <1>6, <2>2
  <2>3. ToSet(u) = {u[k] : k \in 1 .. n - 1} /\ ToSet(s) = {s[j] : j \in 1 .. n}
    BY <1>2, <1>3 DEF ToSet
  <2>4. ASSUME NEW x \in ToSet(u) PROVE x \in ToSet(s) \ {s[i]}
    BY <2>1, <2>3
  <2>5. ASSUME NEW x \in ToSet(s), x # s[i] PROVE x \in ToSet(u)
    <3>1. PICK j \in 1 .. n : x = s[j]
      BY <2>3
    <3>2. PICK k \in 1 .. n - 1 : u[k] = s[j]
      BY <2>2, <2>5, <3>1
    <3> QED
      BY <2>3, <3>1, <3>2
  <2> QED
    BY <2>4, <2>5
<1> QED
  BY <1>7, <1>8 DEF u

(* Taking the first element from a sequence without repeats.               *)
LEMMA TailOnce ==
  ASSUME NEW S, NEW s \in Seq(S), s # <<>>, NoRepeat(s)
  PROVE  /\ Head(s) \in ToSet(s) /\ Head(s) \in S /\ Tail(s) \in Seq(S)
         /\ ToSet(Tail(s)) = ToSet(s) \ {Head(s)}
         /\ NoRepeat(Tail(s))
<1>1. /\ Head(s) \in S /\ Tail(s) \in Seq(S) /\ Len(Tail(s)) = Len(s) - 1
      /\ \A k \in 1 .. Len(Tail(s)) : Tail(s)[k] = s[k + 1]
  BY HeadTailProperties
<1>2. Len(s) \in Nat \ {0} /\ DOMAIN s = 1 .. Len(s) /\ Head(s) = s[1]
  BY LenProperties, EmptySeq
<1>3. DOMAIN Tail(s) = 1 .. Len(s) - 1
  BY <1>1, LenProperties
<1> DEFINE n == Len(s)
           u == Tail(s)
<1>4. /\ DOMAIN u = 1 .. n - 1 /\ \A k \in 1 .. n - 1 : u[k] = s[k + 1]
      /\ n \in Nat \ {0} /\ DOMAIN s = 1 .. n
  BY <1>1, <1>2, <1>3
<1> HIDE DEF n, u
<1>5. 1 \in 1 .. n /\ \A k \in 1 .. n - 1 : k + 1 \in 1 .. n /\ k + 1 # 1
  BY <1>4
<1>6. \A j \in 1 .. n : j # 1 => j - 1 \in 1 .. n - 1 /\ (j - 1) + 1 = j
  BY <1>4
<1>7. \A k, l \in 1 .. n - 1 : k + 1 = l + 1 => k = l
  OBVIOUS
<1>8. NoRepeat(u)
  <2>1. SUFFICES ASSUME NEW a \in 1 .. n - 1, NEW b \in 1 .. n - 1, u[a] = u[b] PROVE a = b
    BY <1>4 DEF NoRepeat
  <2>2. s[a + 1] = s[b + 1] /\ a + 1 \in DOMAIN s /\ b + 1 \in DOMAIN s
    BY <1>4, <1>5, <2>1
  <2>3. a + 1 = b + 1
    BY <2>2 DEF NoRepeat
  <2> QED
    BY <1>7, <2>3
<1>9. ToSet(u) = ToSet(s) \ {s[1]}
  <2>1. ASSUME NEW k \in 1 .. n - 1 PROVE u[k] \in ToSet(s) /\ u[k] # s[1]
    <3>1. u[k] = s[k + 1] /\ k + 1 \in DOMAIN s /\ 1 \in DOMAIN s /\ k + 1 # 1
      BY <1>4, <1>5
    <3>2. s[k + 1] # s[1]
      BY <3>1, Zenon DEF NoRepeat
    <3> QED
      BY <3>1, <3>2 DEF ToSet
  <2>2. ASSUME NEW j \in 1 .. n, s[j] # s[1] PROVE \E k \in 1 .. n - 1 : u[k] = s[j]
    BY <1>4, <1>6, <2>2
  <2>3. ToSet(u) = {u[k] : k \in 1 .. n - 1} /\ ToSet(s) = {s[j] : j \in 1 .. n}
    BY <1>4 DEF ToSet
  <2>4. ASSUME NEW x \in ToSet(u) PROVE x \in ToSet(s) \ {s[1]}
    BY <2>1, <2>3
  <2>5. ASSUME NEW x \in ToSet(s), x # s[1] PROVE x \in ToSet(u)
    <3>1. PICK j \in 1 .. n : x = s[j]
      BY <2>3
    <3>2. PICK k \in 1 .. n - 1 : u[k] = s[j]
      BY <2>2, <2>5, <3>1
    <3> QED
      BY <2>3, <3>1, <3>2
  <2> QED
    BY <2>4, <2>5
<1>10. Head(s) \in ToSet(s)
  BY <1>2, <1>4, <1>5 DEF ToSet
<1> QED
  BY <1>1, <1>2, <1>8, <1>9, <1>10 DEF u

(* A function on 1 .. n is a sequence of length n.                         *)
LEMMA FunctionIsSequence ==
  ASSUME NEW D, NEW n \in Nat, NEW f \in [1 .. n -> D]
  PROVE  f \in Seq(D) /\ Len(f) = n
OBVIOUS

-----------------------------------------------------------------------------

\* ptr is an array that packet p may be stored with.
ArrayOK(p, ptr) ==
  IF p \in Dresp THEN ptr.data \in Dresp /\ Flow(ptr.data) = Flow(p)
                 ELSE ptr = NoArray

MessageOK(m, r) ==
  /\ DestRank(m.pkt) = r
  /\ m.tag = tag_default \/ (m.pkt \in Dresp /\ m.tag = DataTag(m.pkt))

StoredOK(e, t) == Dest(e.pkt) = t /\ ArrayOK(e.pkt, e.ptr)

ThreadOK(st, r) ==
  /\ st.pc # "listen" => st.pkt \in Packet /\ DestRank(st.pkt) = r
  /\ st.pc = "awaitArray" => st.pkt \in Dresp
  /\ st.pc = "store" => ArrayOK(st.pkt, st.ptr)

SendOK == \A p \in Packet : send[p] \in {"array", "arrayTest"} => p \in Dresp

NetOK == \A s, r \in Rank : \A i \in DOMAIN net[s][r] : MessageOK(net[s][r][i], r)

RecvOK == \A th \in Thread : ThreadOK(recv[th], th[1])

RxOK == \A t \in Tile : \A i \in DOMAIN rx[t] : StoredOK(rx[t][i], t)

Inv == TypeOK /\ SendOK /\ NetOK /\ RecvOK /\ RxOK

-----------------------------------------------------------------------------
(* Arithmetic and addresses *)

(* A tile is one of the nodes of its rank, which is the rank of a process. *)
LEMMA TileIsNode ==
  ASSUME NEW t \in Tile
  PROVE  RankOf(t) \in Rank /\ t \in Nodes(RankOf(t))
<1> DEFINE a == t - 1
           q == a \div NServices
<1>1. Size \in Nat \ {0} /\ NServices \in Nat \ {0} /\ Size * NServices \in Nat \ {0}
  BY SizeAssumption, ProductIsPositive
<1>2. a \in Nat /\ a < Size * NServices /\ t = a + 1
  BY <1>1 DEF Tile
<1>3. q \in Nat /\ q * NServices <= a /\ a < q * NServices + NServices
  BY <1>1, <1>2, DivisionProperties
<1>4. q < Size
  BY <1>1, <1>2, <1>3, ProductIsMonotonic
<1>5. q * NServices \in Nat /\ (q + 1) * NServices = q * NServices + NServices
  BY <1>1, <1>3, Z3
<1>6. RankOf(t) = q
  BY DEF RankOf
<1>7. q \in Rank
  BY <1>1, <1>3, <1>4 DEF Rank
<1> HIDE DEF q, a
<1>8. t \in q * NServices + 1 .. (q + 1) * NServices
  BY <1>1, <1>2, <1>3, <1>5
<1> QED
  BY <1>6, <1>7, <1>8 DEF Nodes

\* To is taken modulo the number of tiles, so that a tile results.
LEMMA DestIsTile == ASSUME NEW p \in Packet PROVE Dest(p) \in Tile
<1>1. Size * NServices \in Nat \ {0}
  BY SizeAssumption, ProductIsPositive
<1>2. To[p] - 1 \in Nat
  BY PacketAssumption
<1>3. (To[p] - 1) % (Size * NServices) \in 0 .. Size * NServices - 1
  BY <1>1, <1>2, DivisionProperties
<1> DEFINE n == Size * NServices
           d == (To[p] - 1) % n
<1> HIDE DEF n, d
<1>4. d + 1 \in 1 .. n
  BY <1>1, <1>3 DEF n, d
<1> QED
  BY <1>4 DEF Dest, Tile, n, d

\* The addresses of a packet, and its pointer, have their types.
LEMMA RanksOfPacket ==
  ASSUME NEW p \in Packet
  PROVE  /\ SourceRank(p) \in Rank /\ DestRank(p) \in Rank
         /\ Source[p] \in Tile /\ Dest(p) \in Tile
         /\ Dest(p) \in Nodes(DestRank(p))
         /\ OwnPointer(p) \in Pointer /\ NoArray \in Pointer
<1>1. Source[p] \in Tile
  BY PacketAssumption
<1>2. 0 \in Rank
  BY SizeAssumption DEF Rank
<1> QED
  BY <1>1, <1>2, DestIsTile, TileIsNode
  DEF SourceRank, DestRank, OwnPointer, NoArray, Pointer

\* Messages that hold a packet and messages that hold an array have other tags.
LEMMA TagsDiffer ==
  ASSUME NEW p \in Packet, NEW q \in Packet
  PROVE  /\ DataTag(p) # tag_default
         /\ DataTag(p) = DataTag(q) => Flow(p) = Flow(q)
BY DEF DataTag, tag_default, create_tag, Flow

-----------------------------------------------------------------------------
(* What the steps do to the network and to the RX FIFOs *)

\* A message to the process of its packet keeps what is said of messages.
LEMMA PostKeepsNet ==
  ASSUME TypeOK, NetOK, NEW p \in Packet, NEW m \in Message, MessageOK(m, DestRank(p)),
         net' = [net EXCEPT ![SourceRank(p)][DestRank(p)] = Append(@, m)]
  PROVE  net' \in [Rank -> [Rank -> Seq(Message)]] /\ NetOK'
<1> DEFINE s == SourceRank(p)
           r == DestRank(p)
<1>1. s \in Rank /\ r \in Rank
  BY RanksOfPacket
<1>2. net \in [Rank -> [Rank -> Seq(Message)]] /\ net[s][r] \in Seq(Message)
  BY <1>1 DEF TypeOK
<1> HIDE DEF s, r
<1>3. net' = [net EXCEPT ![s] = [net[s] EXCEPT ![r] = Append(net[s][r], m)]]
  BY <1>1, <1>2 DEF s, r
<1>4. /\ Append(net[s][r], m) \in Seq(Message)
      /\ \A k \in DOMAIN Append(net[s][r], m) :
           \/ Append(net[s][r], m)[k] = m
           \/ k \in DOMAIN net[s][r] /\ Append(net[s][r], m)[k] = net[s][r][k]
  BY <1>2, AppendElements
<1>5. net' \in [Rank -> [Rank -> Seq(Message)]]
  <2>1. [net[s] EXCEPT ![r] = Append(net[s][r], m)] \in [Rank -> Seq(Message)]
    BY <1>1, <1>2, <1>4
  <2> QED
    BY <1>1, <1>2, <1>3, <2>1
<1>6. ASSUME NEW a \in Rank, NEW b \in Rank, NEW k \in DOMAIN net'[a][b]
      PROVE  MessageOK(net'[a][b][k], b)
  <2>1. CASE a = s /\ b = r
    <3>1. net'[a][b] = Append(net[s][r], m)
      BY <1>1, <1>2, <1>3, <2>1
    <3>2. MessageOK(m, r)
      BY DEF r
    <3> QED
      BY <1>1, <1>4, <1>6, <2>1, <3>1, <3>2 DEF NetOK
  <2>2. CASE ~(a = s /\ b = r)
    <3>1. net'[a][b] = net[a][b]
      <4>1. CASE a # s
        BY <1>2, <1>3, <4>1
      <4>2. CASE a = s /\ b # r
        <5>1. net'[s] = [net[s] EXCEPT ![r] = Append(net[s][r], m)]
          BY <1>1, <1>2, <1>3
        <5> QED
          BY <1>1, <1>2, <4>2, <5>1
      <4> QED
        BY <2>2, <4>1, <4>2
    <3> QED
      BY <1>6, <3>1 DEF NetOK
  <2> QED
    BY <2>1, <2>2
<1> QED
  BY <1>5, <1>6 DEF NetOK

\* So does a message that is received, which is one of those spoken of.
LEMMA TakeKeepsNet ==
  ASSUME TypeOK, NetOK, NEW s \in Rank, NEW r \in Rank, NEW i \in DOMAIN net[s][r],
         Take(s, r, i)
  PROVE  /\ net' \in [Rank -> [Rank -> Seq(Message)]] /\ NetOK'
         /\ net[s][r][i] \in Message /\ MessageOK(net[s][r][i], r)
<1>1. net \in [Rank -> [Rank -> Seq(Message)]] /\ net[s][r] \in Seq(Message)
  BY DEF TypeOK
<1>2. net[s][r][i] \in Message /\ MessageOK(net[s][r][i], r)
  BY <1>1, LenProperties, ElementOfSeq DEF NetOK
<1>3. net' = [net EXCEPT ![s] = [net[s] EXCEPT ![r] = RemoveAt(net[s][r], i)]]
  BY <1>1 DEF Take
<1>4. /\ RemoveAt(net[s][r], i) \in Seq(Message)
      /\ \A k \in DOMAIN RemoveAt(net[s][r], i) :
           \E j \in DOMAIN net[s][r] : RemoveAt(net[s][r], i)[k] = net[s][r][j]
  BY <1>1, RemoveAtElements
<1>5. net' \in [Rank -> [Rank -> Seq(Message)]]
  BY <1>1, <1>3, <1>4
<1>6. ASSUME NEW a \in Rank, NEW b \in Rank, NEW k \in DOMAIN net'[a][b]
      PROVE  MessageOK(net'[a][b][k], b)
  <2>1. CASE a = s /\ b = r
    <3>1. net'[a][b] = RemoveAt(net[s][r], i)
      BY <1>1, <1>3, <2>1
    <3> QED
      BY <1>4, <1>6, <2>1, <3>1 DEF NetOK
  <2>2. CASE ~(a = s /\ b = r)
    <3>1. net'[a][b] = net[a][b]
      BY <1>1, <1>3, <2>2
    <3> QED
      BY <1>6, <3>1 DEF NetOK
  <2> QED
    BY <2>1, <2>2
<1> QED
  BY <1>2, <1>5, <1>6 DEF NetOK

\* A packet for the tile, with an array of its flow, may be stored.
LEMMA StoreKeepsRx ==
  ASSUME TypeOK, RxOK, NEW t \in Tile, NEW e \in Stored, StoredOK(e, t),
         rx' = [rx EXCEPT ![t] = Append(@, e)]
  PROVE  rx' \in [Tile -> Seq(Stored)] /\ RxOK'
<1>1. rx \in [Tile -> Seq(Stored)] /\ rx[t] \in Seq(Stored)
  BY DEF TypeOK
<1>2. /\ Append(rx[t], e) \in Seq(Stored)
      /\ \A k \in DOMAIN Append(rx[t], e) :
           \/ Append(rx[t], e)[k] = e
           \/ k \in DOMAIN rx[t] /\ Append(rx[t], e)[k] = rx[t][k]
  BY <1>1, AppendElements
<1>3. rx' \in [Tile -> Seq(Stored)]
  BY <1>1, <1>2
<1>4. ASSUME NEW u \in Tile, NEW k \in DOMAIN rx'[u]
      PROVE  StoredOK(rx'[u][k], u)
  <2>1. CASE u = t
    <3>1. rx'[u] = Append(rx[t], e)
      BY <1>1, <2>1
    <3> QED
      BY <1>2, <1>4, <2>1, <3>1 DEF RxOK
  <2>2. CASE u # t
    <3>1. rx'[u] = rx[u]
      BY <1>1, <2>2
    <3> QED
      BY <1>4, <3>1 DEF RxOK
  <2> QED
    BY <2>1, <2>2
<1> QED
  BY <1>3, <1>4 DEF RxOK

-----------------------------------------------------------------------------
(* Inv is inductive *)

\* Nothing is on its way at first.
LEMMA InitInv == Init => Inv
<1> SUFFICES ASSUME Init PROVE Inv
  OBVIOUS
<1>1. TypeOK
  <2>1. NBridges \in Nat \ {0}
    BY BridgeAssumption
  <2>2. -1 \in -1 .. NBridges - 1
    BY <2>1
  <2>3. NoArray \in Pointer
    BY SizeAssumption DEF NoArray, Pointer, Rank
  <2>4. Listening \in ThreadState
    BY <2>3 DEF Listening, ThreadState
  <2>5. \A S : <<>> \in Seq(S)
    BY EmptySeq
  <2> QED
    BY <2>2, <2>4, <2>5 DEF Init, TypeOK
<1>2. SendOK /\ NetOK /\ RecvOK /\ RxOK
  BY DEF Init, SendOK, NetOK, RecvOK, ThreadOK, RxOK, Listening
<1> QED
  BY <1>1, <1>2 DEF Inv

(* The steps of a tile's thread.                                           *)
LEMMA TileInv ==
  ASSUME Inv, NEW t \in Tile, TileStep(t)
  PROVE  Inv'
<1> USE DEF Inv
<1>1. CASE BeginTransmit(t) \/ EndTransmit(t)
  BY <1>1 DEF BeginTransmit, EndTransmit, TypeOK, SendOK, NetOK, RecvOK, RxOK
<1>2. ASSUME tx[t] # <<>>
      PROVE  Head(tx[t]) \in Packet /\ [tx EXCEPT ![t] = Tail(@)] \in [Tile -> Seq(Packet)]
  <2>1. tx[t] \in Seq(Packet)
    BY DEF TypeOK
  <2>2. Head(tx[t]) \in Packet /\ Tail(tx[t]) \in Seq(Packet)
    BY <1>2, <2>1, HeadTailProperties
  <2> QED
    BY <2>2 DEF TypeOK
<1>3. CASE TransmitLocal(t)
  <2> DEFINE p == Head(tx[t])
             e == [pkt |-> p, ptr |-> OwnPointer(p)]
  <2>1. p \in Packet /\ tx' \in [Tile -> Seq(Packet)]
    BY <1>2, <1>3 DEF TransmitLocal
  <2>2. e \in Stored /\ Dest(p) \in Tile
    BY <2>1, RanksOfPacket DEF Stored
  <2>3. StoredOK(e, Dest(p))
    BY <2>1 DEF StoredOK, ArrayOK, OwnPointer
  <2>4. rx' = [rx EXCEPT ![Dest(p)] = Append(@, e)]
    BY <1>3 DEF TransmitLocal
  <2> HIDE DEF e, p
  <2>5. rx' \in [Tile -> Seq(Stored)] /\ RxOK'
    BY <2>2, <2>3, <2>4, StoreKeepsRx
  <2> QED
    BY <1>3, <2>1, <2>5 DEF TransmitLocal, TypeOK, SendOK, NetOK, RecvOK
<1>4. CASE TransmitRemote(t)
  <2>1. Head(tx[t]) \in Packet /\ tx' \in [Tile -> Seq(Packet)]
    BY <1>2, <1>4 DEF TransmitRemote, NextBridge, TxPop
  <2>2. send' \in [Packet -> Sending \cup {"none", "sent"}] /\ SendOK'
    BY <1>4, <2>1 DEF TransmitRemote, NextBridge, TxPop, TypeOK, SendOK, Sending
  <2>3. bridge_pos' \in [Rank -> -1 .. NBridges - 1]
    <3>1. RankOf(t) \in Rank /\ NBridges \in Nat \ {0}
      BY TileIsNode, BridgeAssumption
    <3>2. bridge_pos[RankOf(t)] + 1 \in Nat
      BY <3>1 DEF TypeOK
    <3>3. (bridge_pos[RankOf(t)] + 1) % NBridges \in 0 .. NBridges - 1
      BY <3>1, <3>2, DivisionProperties
    <3>4. \A x \in 0 .. NBridges - 1 : x \in -1 .. NBridges - 1
      BY <3>1
    <3> QED
      BY <1>4, <3>1, <3>3, <3>4 DEF TransmitRemote, NextBridge, TxPop, TypeOK
  <2> QED
    BY <1>4, <2>1, <2>2, <2>3 DEF TransmitRemote, NextBridge, TxPop, TypeOK, NetOK, RecvOK, RxOK
<1> QED
  BY <1>1, <1>3, <1>4, TileStep(t) DEF TileStep

(* Creating and sending a packet.                                          *)
LEMMA PacketInv ==
  ASSUME Inv, NEW p \in Packet, Create(p) \/ SendStep(p)
  PROVE  Inv'
<1> USE DEF Inv
<1>1. CASE Create(p)
  <2>1. tx' \in [Tile -> Seq(Packet)]
    <3>1. Source[p] \in Tile /\ tx[Source[p]] \in Seq(Packet)
      BY RanksOfPacket DEF TypeOK
    <3>2. Append(tx[Source[p]], p) \in Seq(Packet)
      BY <3>1, AppendProperties
    <3> QED
      BY <1>1, <3>1, <3>2 DEF Create, TxPush, TypeOK
  <2>2. heap' \subseteq Pointer
    BY <1>1, RanksOfPacket DEF Create, TxPush, TypeOK
  <2> QED
    BY <1>1, <2>1, <2>2 DEF Create, TxPush, TypeOK, SendOK, NetOK, RecvOK, RxOK
<1>2. CASE PostHeader(p)
  <2> DEFINE m == [tag |-> tag_default, pkt |-> p]
  <2>1. m \in Message /\ MessageOK(m, DestRank(p))
    BY DEF Message, MessageOK
  <2>2. net' = [net EXCEPT ![SourceRank(p)][DestRank(p)] = Append(@, m)]
    BY <1>2 DEF PostHeader
  <2> HIDE DEF m
  <2>3. net' \in [Rank -> [Rank -> Seq(Message)]] /\ NetOK'
    BY <2>1, <2>2, PostKeepsNet
  <2> QED
    BY <1>2, <2>3 DEF PostHeader, TypeOK, SendOK, RecvOK, RxOK, Sending
<1>3. CASE HeaderSent(p)
  BY <1>3 DEF HeaderSent, TypeOK, SendOK, NetOK, RecvOK, RxOK, Sending
<1>4. CASE PostArray(p)
  <2> DEFINE m == [tag |-> DataTag(p), pkt |-> p]
  <2>1. p \in Dresp
    BY <1>4 DEF PostArray, SentTag, SendOK
  <2>2. m \in Message /\ MessageOK(m, DestRank(p))
    BY <2>1 DEF Message, MessageOK
  <2>3. net' = [net EXCEPT ![SourceRank(p)][DestRank(p)] = Append(@, m)]
    BY <1>4 DEF PostArray, SentTag
  <2> HIDE DEF m
  <2>4. net' \in [Rank -> [Rank -> Seq(Message)]] /\ NetOK'
    BY <2>2, <2>3, PostKeepsNet
  <2> QED
    BY <1>4, <2>1, <2>4 DEF PostArray, SentTag, TypeOK, SendOK, RecvOK, RxOK, Sending
<1>5. CASE ArraySent(p)
  BY <1>5 DEF ArraySent, Deleted, TypeOK, SendOK, NetOK, RecvOK, RxOK, Sending
<1> QED
  BY <1>1, <1>2, <1>3, <1>4, <1>5 DEF SendStep

(* The steps of a receiving thread.                                        *)
LEMMA ThreadInv ==
  ASSUME Inv, NEW th \in Thread, ThreadStep(th)
  PROVE  Inv'
<1> USE DEF Inv
<1> DEFINE r == th[1]
<1>1. r \in Rank /\ recv[th] \in ThreadState /\ ThreadOK(recv[th], r)
  BY DEF Thread, TypeOK, RecvOK
<1>2. ASSUME NEW st \in ThreadState, ThreadOK(st, r), recv' = [recv EXCEPT ![th] = st]
      PROVE  recv' \in [Thread -> ThreadState] /\ RecvOK'
  BY <1>2 DEF TypeOK, RecvOK
<1>3. CASE ReceiveHeader(th)
  <2>1. PICK s \in Rank : \E i \in DOMAIN net[s][r] :
          /\ Take(s, r, i)
          /\ LET p == net[s][r][i].pkt IN
               recv' = [recv EXCEPT
                          ![th] = [pc |-> IF p \in Dresp THEN "awaitArray" ELSE "store",
                                   pkt |-> p, ptr |-> OwnPointer(p)]]
    BY <1>3 DEF ReceiveHeader
  <2>2. PICK i \in DOMAIN net[s][r] :
          /\ Take(s, r, i)
          /\ LET p == net[s][r][i].pkt IN
               recv' = [recv EXCEPT
                          ![th] = [pc |-> IF p \in Dresp THEN "awaitArray" ELSE "store",
                                   pkt |-> p, ptr |-> OwnPointer(p)]]
    BY <2>1
  <2>3. /\ net' \in [Rank -> [Rank -> Seq(Message)]] /\ NetOK'
        /\ net[s][r][i] \in Message /\ MessageOK(net[s][r][i], r)
    BY <1>1, <2>2, TakeKeepsNet
  <2> DEFINE p == net[s][r][i].pkt
             st == [pc |-> IF p \in Dresp THEN "awaitArray" ELSE "store",
                    pkt |-> p, ptr |-> OwnPointer(p)]
  <2>4. p \in Packet /\ DestRank(p) = r
    BY <2>3 DEF Message, MessageOK
  <2>5. st \in ThreadState
    BY <2>4, RanksOfPacket DEF ThreadState
  <2>6. ThreadOK(st, r)
    BY <2>4 DEF ThreadOK, ArrayOK, OwnPointer
  <2>7. recv' = [recv EXCEPT ![th] = st]
    BY <2>2
  <2> HIDE DEF p, st
  <2>8. recv' \in [Thread -> ThreadState] /\ RecvOK'
    BY <1>2, <2>5, <2>6, <2>7
  <2> QED
    BY <1>3, <2>3, <2>8 DEF ReceiveHeader, TypeOK, SendOK, RxOK
<1>4. CASE ReceiveArray(th)
  <2> DEFINE p == recv[th].pkt
  <2>1. PICK s \in Rank : \E i \in DOMAIN net[s][r] :
          /\ net[s][r][i].tag = DataTag(p)
          /\ Take(s, r, i)
          /\ LET arr == [space |-> r, data |-> net[s][r][i].pkt] IN
               /\ heap' = heap \cup {arr}
               /\ recv' = [recv EXCEPT ![th].pc = "store", ![th].ptr = arr]
    BY <1>4 DEF ReceiveArray, NewWord, Matches
  <2>2. PICK i \in DOMAIN net[s][r] :
          /\ net[s][r][i].tag = DataTag(p)
          /\ Take(s, r, i)
          /\ LET arr == [space |-> r, data |-> net[s][r][i].pkt] IN
               /\ heap' = heap \cup {arr}
               /\ recv' = [recv EXCEPT ![th].pc = "store", ![th].ptr = arr]
    BY <2>1
  <2>3. /\ net' \in [Rank -> [Rank -> Seq(Message)]] /\ NetOK'
        /\ net[s][r][i] \in Message /\ MessageOK(net[s][r][i], r)
    BY <1>1, <2>2, TakeKeepsNet
  <2> DEFINE q == net[s][r][i].pkt
             arr == [space |-> r, data |-> q]
             st == [recv[th] EXCEPT !.pc = "store", !.ptr = arr]
  <2>4. p \in Packet /\ DestRank(p) = r /\ p \in Dresp
    BY <1>1, <1>4 DEF ReceiveArray, NewWord, ThreadOK
  <2>5. q \in Dresp /\ Flow(q) = Flow(p)
    <3>1. q \in Packet
      BY <2>3 DEF Message
    <3>2. DataTag(p) # tag_default /\ (DataTag(p) = DataTag(q) => Flow(p) = Flow(q))
      BY <2>4, <3>1, TagsDiffer
    <3> QED
      BY <2>2, <2>3, <3>2 DEF MessageOK
  <2>6. q \in Packet /\ arr \in Pointer
    BY <1>1, <2>3 DEF Message, Pointer
  <2> HIDE DEF q, arr
  <2>7. arr.data = q
    BY DEF arr
  <2>8. st \in ThreadState /\ st.pc = "store" /\ st.pkt = p /\ st.ptr = arr
    BY <1>1, <2>6 DEF ThreadState
  <2>9. recv' = [recv EXCEPT ![th] = st]
    BY <1>1, <2>2 DEF arr, q, TypeOK, ThreadState
  <2> HIDE DEF st
  <2>10. ThreadOK(st, r)
    BY <2>4, <2>5, <2>7, <2>8 DEF ThreadOK, ArrayOK
  <2>11. recv' \in [Thread -> ThreadState] /\ RecvOK'
    BY <1>2, <2>8, <2>9, <2>10
  <2>12. heap' \subseteq Pointer
    BY <2>2, <2>6 DEF arr, q, TypeOK
  <2> QED
    BY <1>4, <2>3, <2>11, <2>12 DEF ReceiveArray, NewWord, TypeOK, SendOK, RxOK
<1>5. CASE Store(th)
  <2> DEFINE p == recv[th].pkt
             e == [pkt |-> p, ptr |-> recv[th].ptr]
  <2>1. recv[th].pc = "store" /\ p \in Packet /\ ArrayOK(p, recv[th].ptr)
    BY <1>1, <1>5 DEF Store, StoreDest, ThreadOK
  <2>2. e \in Stored /\ StoredOK(e, Dest(p)) /\ Dest(p) \in Tile
    BY <1>1, <2>1, DestIsTile DEF Stored, StoredOK, ThreadState
  <2>3. rx' = [rx EXCEPT ![Dest(p)] = Append(@, e)] /\ recv' = [recv EXCEPT ![th] = Listening]
    BY <1>5 DEF Store, StoreDest
  <2> HIDE DEF e, p
  <2>4. rx' \in [Tile -> Seq(Stored)] /\ RxOK'
    BY <2>2, <2>3, StoreKeepsRx
  <2>5. Listening \in ThreadState /\ ThreadOK(Listening, r)
    BY SizeAssumption DEF Listening, ThreadState, ThreadOK, NoArray, Pointer, Rank
  <2>6. recv' \in [Thread -> ThreadState] /\ RecvOK'
    BY <1>2, <2>3, <2>5
  <2> QED
    BY <1>5, <2>4, <2>6 DEF Store, StoreDest, TypeOK, SendOK, NetOK
<1> QED
  BY <1>3, <1>4, <1>5 DEF ThreadStep

(* Inv holds in every state that the transport reaches.                    *)
THEOREM InvHolds == Spec => []Inv
<1>1. Inv /\ [Next]_vars => Inv'
  <2> SUFFICES ASSUME Inv, [Next]_vars PROVE Inv'
    OBVIOUS
  <2>1. CASE UNCHANGED vars
    BY <2>1 DEF vars, Inv, TypeOK, SendOK, NetOK, RecvOK, RxOK
  <2>2. CASE Next
    BY <2>2, PacketInv, TileInv, ThreadInv DEF Next
  <2> QED
    BY <2>1, <2>2
<1> QED
  BY InitInv, <1>1, PTL DEF Spec

-----------------------------------------------------------------------------

(* The types of the variables of the transport; among them that bridge_pos *)
(* is always -1 or the index of a bridge.                                  *)
THEOREM TypeCorrect == Spec => []TypeOK
<1>1. Inv => TypeOK
  BY DEF Inv
<1> QED
  BY InvHolds, <1>1, PTL

(* nodes[dest] in the receiving thread finds a tile of the process, and    *)
(* every packet is stored for the tile that its To field means.            *)
THEOREM RightTileCorrect == Spec => []RightTile
<1>1. Inv => RightTile
  <2> SUFFICES ASSUME Inv PROVE RightTile
    OBVIOUS
  <2>1. ASSUME NEW t \in Tile, NEW p \in PacketsOf(rx[t])
        PROVE  Dest(p) = t
    BY DEF Inv, RxOK, StoredOK, PacketsOf
  <2>2. ASSUME NEW th \in Thread, recv[th].pc # "listen"
        PROVE  Dest(recv[th].pkt) \in Nodes(th[1])
    BY <2>2, RanksOfPacket DEF Inv, RecvOK, ThreadOK
  <2> QED
    BY <2>1, <2>2 DEF RightTile
<1> QED
  BY InvHolds, <1>1, PTL

(* Whatever threads overtake each other, a P_DRESP packet is stored with   *)
(* an array of its own flow.                                               *)
THEOREM SameFlowCorrect == Spec => []SameFlow
<1>1. Inv => SameFlow
  BY DEF Inv, RxOK, StoredOK, ArrayOK, SameFlow
<1> QED
  BY InvHolds, <1>1, PTL

-----------------------------------------------------------------------------
(* Where packets and arrays are *)

Header(p) == [tag |-> tag_default, pkt |-> p]
ArrayMessage(p) == [tag |-> DataTag(p), pkt |-> p]

\* Messages on their way between the processes that packet p joins.
MessagesOf(p) == ToSet(net[SourceRank(p)][DestRank(p)])

(* Where a packet is.                                                      *)
InTx(p) == p \in ToSet(tx[Source[p]])
InNet(p) == Header(p) \in MessagesOf(p)
HeldBy(th, p) == recv[th].pc # "listen" /\ recv[th].pkt = p
InRx(p) == \E e \in ToSet(rx[Dest(p)]) : e.pkt = p

(* Where the array of a packet is.                                         *)
Unsent(q) == InTx(q) \/ send[q] \in {"header", "headerTest", "array"}
ArrayInNet(q) == ArrayMessage(q) \in MessagesOf(q)
ArrayHeldBy(th, q) == recv[th].pc = "store" /\ recv[th].ptr.data = q
ArrayInRx(t, q) == \E e \in ToSet(rx[t]) : e.ptr.data = q

TxShape ==
  \A t \in Tile : NoRepeat(tx[t]) /\ \A p \in ToSet(tx[t]) : Source[p] = t

NetShape ==
  \A s, r \in Rank :
    /\ NoRepeat(net[s][r])
    /\ \A m \in ToSet(net[s][r]) : SourceRank(m.pkt) = s

RxShape ==
  \A t \in Tile : \A i, j \in DOMAIN rx[t] :
    /\ rx[t][i].pkt = rx[t][j].pkt => i = j
    /\ rx[t][i].pkt \in Dresp /\ rx[t][i].ptr.data = rx[t][j].ptr.data => i = j

PacketAt(p) ==
  /\ p \notin created =>
       /\ send[p] = "none" /\ ~InTx(p) /\ ~InNet(p) /\ ~InRx(p)
       /\ \A th \in Thread : ~HeldBy(th, p)
  /\ p \in created =>
       \/ InTx(p) \/ send[p] = "header" \/ InNet(p) \/ InRx(p)
       \/ \E th \in Thread : HeldBy(th, p)
  /\ InTx(p) => send[p] = "none"
  /\ InNet(p) => send[p] \notin {"none", "header"}
  /\ InRx(p) => send[p] # "header" /\ ~InTx(p) /\ ~InNet(p)
  /\ \A th \in Thread : HeldBy(th, p) =>
       /\ send[p] \notin {"none", "header"} /\ ~InNet(p) /\ ~InRx(p)
       /\ \A h \in Thread : HeldBy(h, p) => h = th

ArrayAt(q) ==
  /\ q \notin created =>
       /\ ~ArrayInNet(q)
       /\ \A th \in Thread : ~ArrayHeldBy(th, q)
       /\ \A t \in Tile : ~ArrayInRx(t, q)
  /\ q \in created =>
       \/ Unsent(q) \/ ArrayInNet(q)
       \/ \E th \in Thread : ArrayHeldBy(th, q)
       \/ \E t \in Tile : ArrayInRx(t, q)
  /\ ArrayInNet(q) => send[q] \in {"arrayTest", "sent"}
  /\ \A th \in Thread : ArrayHeldBy(th, q) =>
       /\ send[q] \in {"arrayTest", "sent"} /\ ~ArrayInNet(q)
       /\ \A h \in Thread : ArrayHeldBy(h, q) => h = th
       /\ \A t \in Tile : ~ArrayInRx(t, q)
  /\ \A t \in Tile : ArrayInRx(t, q) =>
       /\ ~Unsent(q) /\ ~ArrayInNet(q)
       /\ \A u \in Tile : ArrayInRx(u, q) => u = t

PacketOnce == \A p \in Packet : PacketAt(p)

ArrayOnce == \A q \in Dresp : ArrayAt(q)

Shape == TxShape /\ NetShape /\ RxShape

Once == Inv /\ Shape /\ PacketOnce /\ ArrayOnce

-----------------------------------------------------------------------------
(* What the steps do to the places *)

\* Steps that leave the TX FIFOs alone.
LEMMA SameTx ==
  ASSUME UNCHANGED tx
  PROVE  TxShape' = TxShape /\ \A p \in Packet : InTx(p)' = InTx(p)
BY DEF TxShape, InTx

\* Steps that leave the messages alone.
LEMMA SameNet ==
  ASSUME UNCHANGED net
  PROVE  /\ NetShape' = NetShape
         /\ \A p \in Packet : InNet(p)' = InNet(p) /\ ArrayInNet(p)' = ArrayInNet(p)
BY DEF NetShape, InNet, ArrayInNet, MessagesOf

\* Steps that leave the receiving threads alone.
LEMMA SameRecv ==
  ASSUME UNCHANGED recv
  PROVE  \A p \in Packet, th \in Thread :
           HeldBy(th, p)' = HeldBy(th, p) /\ ArrayHeldBy(th, p)' = ArrayHeldBy(th, p)
BY DEF HeldBy, ArrayHeldBy

\* Steps that leave the RX FIFOs alone.
LEMMA SameRx ==
  ASSUME UNCHANGED rx
  PROVE  /\ RxShape' = RxShape
         /\ \A p \in Packet : InRx(p)' = InRx(p)
         /\ \A p \in Packet, t \in Tile : ArrayInRx(t, p)' = ArrayInRx(t, p)
BY DEF RxShape, InRx, ArrayInRx

(* A packet that is new is pushed.                                         *)
LEMMA PushTx ==
  ASSUME Once, NEW p \in Packet, ~InTx(p), tx' = [tx EXCEPT ![Source[p]] = Append(@, p)]
  PROVE  TxShape' /\ \A q \in Packet : InTx(q)' <=> InTx(q) \/ q = p
<1>1. tx \in [Tile -> Seq(Packet)] /\ Source[p] \in Tile /\ TxShape
  BY RanksOfPacket DEF Once, Inv, TypeOK, Shape
<1>2. /\ ToSet(Append(tx[Source[p]], p)) = ToSet(tx[Source[p]]) \cup {p}
      /\ NoRepeat(Append(tx[Source[p]], p))
  BY <1>1, AppendNew DEF InTx, TxShape
<1>3. \A t \in Tile : tx'[t] = IF t = Source[p] THEN Append(tx[t], p) ELSE tx[t]
  BY <1>1
<1>4. TxShape'
  BY <1>1, <1>2, <1>3 DEF TxShape
<1>5. ASSUME NEW q \in Packet PROVE InTx(q)' <=> InTx(q) \/ q = p
  <2>1. Source[q] \in Tile
    BY RanksOfPacket
  <2> QED
    BY <1>2, <1>3, <2>1 DEF InTx
<1> QED
  BY <1>4, <1>5

(* The first packet of a FIFO is popped.                                   *)
LEMMA PopTx ==
  ASSUME Once, NEW t \in Tile, tx[t] # <<>>, tx' = [tx EXCEPT ![t] = Tail(@)]
  PROVE  /\ Head(tx[t]) \in Packet /\ Source[Head(tx[t])] = t /\ InTx(Head(tx[t]))
         /\ TxShape'
         /\ \A q \in Packet : InTx(q)' <=> InTx(q) /\ q # Head(tx[t])
<1>1. tx \in [Tile -> Seq(Packet)] /\ TxShape
  BY DEF Once, Inv, TypeOK, Shape
<1>2. tx[t] \in Seq(Packet) /\ NoRepeat(tx[t])
  BY <1>1 DEF TxShape
<1> DEFINE p == Head(tx[t])
<1>3. /\ p \in ToSet(tx[t]) /\ p \in Packet
      /\ ToSet(Tail(tx[t])) = ToSet(tx[t]) \ {p} /\ NoRepeat(Tail(tx[t]))
  BY <1>2, TailOnce
<1> HIDE DEF p
<1>4. \A u \in Tile : tx'[u] = IF u = t THEN Tail(tx[t]) ELSE tx[u]
  BY <1>1
<1>5. Source[p] = t /\ InTx(p)
  BY <1>1, <1>3 DEF TxShape, InTx
<1>6. TxShape'
  BY <1>1, <1>3, <1>4 DEF TxShape
<1>7. ASSUME NEW q \in Packet PROVE InTx(q)' <=> InTx(q) /\ q # p
  <2>1. Source[q] \in Tile
    BY RanksOfPacket
  <2> QED
    BY <1>3, <1>4, <1>5, <2>1 DEF InTx
<1> QED
  BY <1>3, <1>5, <1>6, <1>7 DEF p

(* A message that is new is sent.                                          *)
LEMMA SendMessage ==
  ASSUME Once, NEW p \in Packet, NEW m \in Message, m.pkt = p, m \notin MessagesOf(p),
         net' = [net EXCEPT ![SourceRank(p)][DestRank(p)] = Append(@, m)]
  PROVE  /\ NetShape'
         /\ \A q \in Packet : /\ InNet(q)' <=> InNet(q) \/ Header(q) = m
                              /\ ArrayInNet(q)' <=> ArrayInNet(q) \/ ArrayMessage(q) = m
<1> DEFINE s == SourceRank(p)
           r == DestRank(p)
<1>1. /\ net \in [Rank -> [Rank -> Seq(Message)]] /\ s \in Rank /\ r \in Rank /\ NetShape
      /\ net[s][r] \in Seq(Message)
  BY RanksOfPacket DEF Once, Inv, TypeOK, Shape
<1>2. /\ ToSet(Append(net[s][r], m)) = ToSet(net[s][r]) \cup {m}
      /\ NoRepeat(Append(net[s][r], m))
  BY <1>1, AppendNew DEF MessagesOf, NetShape
<1>3. \A a, b \in Rank :
        net'[a][b] = IF a = s /\ b = r THEN Append(net[s][r], m) ELSE net[a][b]
  BY <1>1
<1>4. NetShape'
  <2> SUFFICES ASSUME NEW a \in Rank, NEW b \in Rank
               PROVE  /\ NoRepeat(net'[a][b])
                      /\ \A x \in ToSet(net'[a][b]) : SourceRank(x.pkt) = a
    BY DEF NetShape, SourceRank
  <2>1. CASE a = s /\ b = r
    BY <1>1, <1>2, <1>3, <2>1 DEF NetShape
  <2>2. CASE ~(a = s /\ b = r)
    <3>1. net'[a][b] = net[a][b]
      BY <1>3, <2>2
    <3> QED
      BY <1>1, <3>1 DEF NetShape
  <2> QED
    BY <2>1, <2>2
<1>5. ASSUME NEW q \in Packet
      PROVE  MessagesOf(q)' = IF SourceRank(q) = s /\ DestRank(q) = r
                              THEN MessagesOf(q) \cup {m} ELSE MessagesOf(q)
  <2>1. SourceRank(q) \in Rank /\ DestRank(q) \in Rank
    BY RanksOfPacket
  <2> HIDE DEF s, r
  <2>2. net'[SourceRank(q)][DestRank(q)] =
          IF SourceRank(q) = s /\ DestRank(q) = r THEN Append(net[s][r], m)
                                                  ELSE net[SourceRank(q)][DestRank(q)]
    BY <1>3, <2>1
  <2>3. MessagesOf(q)' = ToSet(net'[SourceRank(q)][DestRank(q)])
    BY DEF MessagesOf, SourceRank, DestRank, Dest, RankOf
  <2>4. CASE SourceRank(q) = s /\ DestRank(q) = r
    BY <1>2, <2>2, <2>3, <2>4 DEF MessagesOf
  <2>5. CASE ~(SourceRank(q) = s /\ DestRank(q) = r)
    BY <2>2, <2>3, <2>5 DEF MessagesOf
  <2> QED
    BY <2>4, <2>5
<1>6. ASSUME NEW q \in Packet
      PROVE  /\ InNet(q)' <=> InNet(q) \/ Header(q) = m
             /\ ArrayInNet(q)' <=> ArrayInNet(q) \/ ArrayMessage(q) = m
  <2>1. (Header(q) = m => q = p) /\ (ArrayMessage(q) = m => q = p)
    BY DEF Header, ArrayMessage
  <2>2. CASE q = p
    BY <1>5, <2>2 DEF InNet, ArrayInNet, Header, ArrayMessage
  <2>3. CASE q # p
    BY <1>5, <2>1, <2>3 DEF InNet, ArrayInNet, Header, ArrayMessage
  <2> QED
    BY <2>2, <2>3
<1> QED
  BY <1>4, <1>6

(* A message is matched and received.                                      *)
LEMMA ReceiveMessage ==
  ASSUME Once, NEW s \in Rank, NEW r \in Rank, NEW i \in DOMAIN net[s][r], Take(s, r, i)
  PROVE  /\ net[s][r][i] \in Message
         /\ net[s][r][i].pkt \in Packet /\ net[s][r][i] \in MessagesOf(net[s][r][i].pkt)
         /\ DestRank(net[s][r][i].pkt) = r
         /\ NetShape'
         /\ \A q \in Packet :
              /\ InNet(q)' <=> InNet(q) /\ Header(q) # net[s][r][i]
              /\ ArrayInNet(q)' <=> ArrayInNet(q) /\ ArrayMessage(q) # net[s][r][i]
<1> DEFINE m == net[s][r][i]
           p == m.pkt
<1>1. /\ net \in [Rank -> [Rank -> Seq(Message)]] /\ NetShape
      /\ net[s][r] \in Seq(Message) /\ NoRepeat(net[s][r])
  BY DEF Once, Inv, TypeOK, Shape, NetShape
<1>2. m \in Message /\ MessageOK(m, r) /\ m \in ToSet(net[s][r])
  BY <1>1, LenProperties, ElementOfSeq DEF Once, Inv, NetOK, ToSet
<1>3. p \in Packet /\ SourceRank(p) = s /\ DestRank(p) = r
  BY <1>1, <1>2 DEF Message, MessageOK, NetShape
<1>4. m \in MessagesOf(p)
  BY <1>2, <1>3 DEF MessagesOf
<1>5. /\ ToSet(RemoveAt(net[s][r], i)) = ToSet(net[s][r]) \ {m}
      /\ NoRepeat(RemoveAt(net[s][r], i))
  BY <1>1, RemoveAtOnce
<1>6. \A a, b \in Rank :
        net'[a][b] = IF a = s /\ b = r THEN RemoveAt(net[s][r], i) ELSE net[a][b]
  BY <1>1 DEF Take
<1> HIDE DEF m
<1>7. NetShape'
  <2> SUFFICES ASSUME NEW a \in Rank, NEW b \in Rank
               PROVE  /\ NoRepeat(net'[a][b])
                      /\ \A x \in ToSet(net'[a][b]) : SourceRank(x.pkt) = a
    BY DEF NetShape, SourceRank
  <2>1. CASE a = s /\ b = r
    BY <1>1, <1>5, <1>6, <2>1 DEF NetShape
  <2>2. CASE ~(a = s /\ b = r)
    BY <1>1, <1>6, <2>2 DEF NetShape
  <2> QED
    BY <2>1, <2>2
<1>8. ASSUME NEW q \in Packet
      PROVE  MessagesOf(q)' = IF SourceRank(q) = s /\ DestRank(q) = r
                              THEN MessagesOf(q) \ {m} ELSE MessagesOf(q)
  <2>1. SourceRank(q) \in Rank /\ DestRank(q) \in Rank
    BY RanksOfPacket
  <2>2. net'[SourceRank(q)][DestRank(q)] =
          IF SourceRank(q) = s /\ DestRank(q) = r THEN RemoveAt(net[s][r], i)
                                                  ELSE net[SourceRank(q)][DestRank(q)]
    BY <1>6, <2>1
  <2>3. MessagesOf(q)' = ToSet(net'[SourceRank(q)][DestRank(q)])
    BY DEF MessagesOf, SourceRank, DestRank, Dest, RankOf
  <2>4. CASE SourceRank(q) = s /\ DestRank(q) = r
    BY <1>5, <2>2, <2>3, <2>4 DEF MessagesOf
  <2>5. CASE ~(SourceRank(q) = s /\ DestRank(q) = r)
    BY <2>2, <2>3, <2>5 DEF MessagesOf
  <2> QED
    BY <2>4, <2>5
<1>9. ASSUME NEW q \in Packet
      PROVE  /\ InNet(q)' <=> InNet(q) /\ Header(q) # m
             /\ ArrayInNet(q)' <=> ArrayInNet(q) /\ ArrayMessage(q) # m
  <2>1. (Header(q) = m => q = p) /\ (ArrayMessage(q) = m => q = p)
    BY DEF Header, ArrayMessage
  <2>2. CASE SourceRank(q) = s /\ DestRank(q) = r
    BY <1>8, <2>2 DEF InNet, ArrayInNet, Header, ArrayMessage
  <2>3. CASE ~(SourceRank(q) = s /\ DestRank(q) = r)
    BY <1>3, <1>8, <2>1, <2>3 DEF InNet, ArrayInNet, Header, ArrayMessage
  <2> QED
    BY <2>2, <2>3
<1> QED
  BY <1>2, <1>3, <1>4, <1>7, <1>9 DEF m

(* A receiving thread goes from one local state to another.                *)
LEMMA ThreadMoves ==
  ASSUME Once, NEW th \in Thread, NEW st, recv' = [recv EXCEPT ![th] = st]
  PROVE  \A p \in Packet, h \in Thread :
           /\ HeldBy(h, p)' <=> IF h = th THEN st.pc # "listen" /\ st.pkt = p
                                          ELSE HeldBy(h, p)
           /\ ArrayHeldBy(h, p)' <=> IF h = th THEN st.pc = "store" /\ st.ptr.data = p
                                               ELSE ArrayHeldBy(h, p)
BY DEF HeldBy, ArrayHeldBy, Once, Inv, TypeOK

(* A packet that is new, with an array that is new, is stored.             *)
LEMMA StorePacket ==
  ASSUME Once, NEW t \in Tile, NEW e \in Stored, StoredOK(e, t), ~InRx(e.pkt),
         e.pkt \in Dresp => \A u \in Tile : ~ArrayInRx(u, e.ptr.data),
         rx' = [rx EXCEPT ![t] = Append(@, e)]
  PROVE  /\ RxShape'
         /\ \A p \in Packet : InRx(p)' <=> InRx(p) \/ p = e.pkt
         /\ \A q \in Dresp, u \in Tile :
              ArrayInRx(u, q)' <=> ArrayInRx(u, q) \/ (u = t /\ q = e.ptr.data)
<1>1. /\ rx \in [Tile -> Seq(Stored)] /\ rx[t] \in Seq(Stored) /\ RxShape /\ RxOK
      /\ e.pkt \in Packet /\ Dest(e.pkt) = t
  BY DEF Once, Inv, TypeOK, Shape, Stored, StoredOK
<1>2. /\ ToSet(Append(rx[t], e)) = ToSet(rx[t]) \cup {e}
      /\ Len(Append(rx[t], e)) = Len(rx[t]) + 1
      /\ \A i \in 1 .. Len(rx[t]) : Append(rx[t], e)[i] = rx[t][i]
      /\ Append(rx[t], e)[Len(rx[t]) + 1] = e
      /\ Append(rx[t], e) \in Seq(Stored)
  BY <1>1, AppendNew, AppendProperties
<1>3. /\ Len(rx[t]) \in Nat /\ DOMAIN rx[t] = 1 .. Len(rx[t])
      /\ DOMAIN Append(rx[t], e) = 1 .. Len(rx[t]) + 1
  BY <1>1, <1>2, LenProperties
<1>4. \A u \in Tile : rx'[u] = IF u = t THEN Append(rx[t], e) ELSE rx[u]
  BY <1>1
<1>5. \A i \in DOMAIN rx[t] : rx[t][i].pkt # e.pkt
  BY <1>1 DEF InRx, ToSet
<1>6. \A i \in DOMAIN rx[t] : e.pkt \in Dresp => rx[t][i].ptr.data # e.ptr.data
  BY <1>1 DEF ArrayInRx, ToSet
<1>7. \A i \in DOMAIN rx[t] : rx[t][i].pkt \in Dresp => rx[t][i].ptr.data # e.ptr.data
  <2> SUFFICES ASSUME NEW i \in DOMAIN rx[t], rx[t][i].pkt \in Dresp,
                      rx[t][i].ptr.data = e.ptr.data
               PROVE  FALSE
    OBVIOUS
  <2>1. e.ptr.data \in Dresp
    BY <1>1 DEF RxOK, StoredOK, ArrayOK
  <2>2. e.pkt \notin Dresp
    BY <1>6
  <2>3. e.ptr.data = 0
    BY <2>2 DEF StoredOK, ArrayOK, NoArray
  <2> QED
    BY <2>1, <2>3, PacketAssumption
<1>8. RxShape'
  <2> SUFFICES ASSUME NEW u \in Tile, NEW i \in DOMAIN rx'[u], NEW j \in DOMAIN rx'[u]
               PROVE  /\ rx'[u][i].pkt = rx'[u][j].pkt => i = j
                      /\ rx'[u][i].pkt \in Dresp
                           /\ rx'[u][i].ptr.data = rx'[u][j].ptr.data => i = j
    BY DEF RxShape
  <2>1. CASE u # t
    BY <1>1, <1>4, <2>1 DEF RxShape
  <2>2. CASE u = t
    <3>1. rx'[u] = Append(rx[t], e)
      BY <1>4, <2>2
    <3>2. \/ i \in DOMAIN rx[t] /\ rx'[u][i] = rx[t][i]
          \/ i = Len(rx[t]) + 1 /\ rx'[u][i] = e
      BY <1>2, <1>3, <3>1
    <3>3. \/ j \in DOMAIN rx[t] /\ rx'[u][j] = rx[t][j]
          \/ j = Len(rx[t]) + 1 /\ rx'[u][j] = e
      BY <1>2, <1>3, <3>1
    <3>4. CASE i \in DOMAIN rx[t] /\ rx'[u][i] = rx[t][i]
      BY <1>1, <1>5, <1>7, <3>3, <3>4 DEF RxShape
    <3>5. CASE i = Len(rx[t]) + 1 /\ rx'[u][i] = e
      BY <1>5, <1>6, <3>3, <3>5
    <3> QED
      BY <3>2, <3>4, <3>5
  <2> QED
    BY <2>1, <2>2
<1>9. ASSUME NEW u \in Tile
      PROVE  ToSet(rx'[u]) = IF u = t THEN ToSet(rx[t]) \cup {e} ELSE ToSet(rx[u])
  <2>1. CASE u = t
    <3>1. rx'[u] = Append(rx[t], e)
      BY <1>4, <2>1
    <3> QED
      BY <1>2, <2>1, <3>1
  <2>2. CASE u # t
    BY <1>4, <2>2
  <2> QED
    BY <2>1, <2>2
<1>10. ASSUME NEW p \in Packet PROVE InRx(p)' <=> InRx(p) \/ p = e.pkt
  <2>1. Dest(p) \in Tile
    BY RanksOfPacket
  <2>2. InRx(p)' <=> \E x \in ToSet(rx'[Dest(p)]) : x.pkt = p
    BY DEF InRx, Dest
  <2> QED
    BY <1>1, <1>9, <2>1, <2>2 DEF InRx
<1>11. ASSUME NEW q \in Dresp, NEW u \in Tile
       PROVE  ArrayInRx(u, q)' <=> ArrayInRx(u, q) \/ (u = t /\ q = e.ptr.data)
  <2>1. CASE u = t
    BY <1>9, <2>1 DEF ArrayInRx
  <2>2. CASE u # t
    BY <1>9, <2>2 DEF ArrayInRx
  <2> QED
    BY <2>1, <2>2
<1> QED
  BY <1>8, <1>10, <1>11

-----------------------------------------------------------------------------
(* Once is inductive *)

\* 0, which stands for no array, is not a packet.
LEMMA DrespArePackets == Dresp \subseteq Packet /\ 0 \notin Dresp
BY PacketAssumption

\* No packet is anywhere at first.
LEMMA InitOnce == Init => Once
<1> SUFFICES ASSUME Init PROVE Once
  OBVIOUS
<1>1. ToSet(<<>>) = {} /\ DOMAIN <<>> = {}
  BY DEF ToSet
<1>2. Inv
  BY InitInv
<1>3. /\ \A t \in Tile : tx[t] = <<>> /\ rx[t] = <<>>
      /\ \A s, r \in Rank : net[s][r] = <<>>
      /\ \A th \in Thread : recv[th].pc = "listen"
      /\ \A p \in Packet : send[p] = "none"
      /\ created = {}
  BY DEF Init, Listening
<1>4. Shape
  BY <1>1, <1>3 DEF Shape, TxShape, NetShape, RxShape, NoRepeat
<1>5. ASSUME NEW p \in Packet
      PROVE  ~InTx(p) /\ ~InNet(p) /\ ~ArrayInNet(p) /\ ~InRx(p)
  BY <1>1, <1>3, RanksOfPacket DEF InTx, InNet, ArrayInNet, MessagesOf, InRx
<1>6. ASSUME NEW p \in Packet, NEW th \in Thread
      PROVE  ~HeldBy(th, p) /\ ~ArrayHeldBy(th, p)
  BY <1>3 DEF HeldBy, ArrayHeldBy
<1>7. ASSUME NEW p \in Packet, NEW t \in Tile PROVE ~ArrayInRx(t, p)
  BY <1>1, <1>3 DEF ArrayInRx
<1>8. PacketOnce
  BY <1>3, <1>5, <1>6 DEF PacketOnce, PacketAt
<1>9. ArrayOnce
  BY <1>3, <1>5, <1>6, <1>7, DrespArePackets DEF ArrayOnce, ArrayAt
<1> QED
  BY <1>2, <1>4, <1>8, <1>9 DEF Once

\* A packet that is created is in a TX FIFO and nowhere else.
LEMMA CreateOnce ==
  ASSUME Once, NEW p \in Packet, Create(p)
  PROVE  (Shape /\ PacketOnce /\ ArrayOnce)'
<1>1. /\ p \notin created /\ created' = created \cup {p}
      /\ tx' = [tx EXCEPT ![Source[p]] = Append(@, p)]
      /\ UNCHANGED send /\ UNCHANGED net /\ UNCHANGED recv /\ UNCHANGED rx
  BY DEF Create, TxPush
<1>2. Shape /\ PacketOnce /\ ArrayOnce
  BY DEF Once
<1>3. ~InTx(p)
  BY <1>1, <1>2 DEF PacketOnce, PacketAt
<1>4. TxShape' /\ \A q \in Packet : InTx(q)' <=> InTx(q) \/ q = p
  BY <1>1, <1>3, PushTx
<1>5. Shape'
  BY <1>1, <1>2, <1>4, SameNet, SameRx DEF Shape
<1>6. ASSUME NEW q \in Packet PROVE PacketAt(q)'
  BY <1>1, <1>2, <1>4, SameNet, SameRecv, SameRx DEF PacketOnce, PacketAt
<1>7. ASSUME NEW q \in Dresp PROVE ArrayAt(q)'
  <2>1. q \in Packet /\ PacketAt(q) /\ ArrayAt(q)
    BY <1>2, DrespArePackets DEF PacketOnce, ArrayOnce
  <2>2. Unsent(q)' <=> Unsent(q) \/ q = p
    BY <1>1, <1>4, <2>1 DEF Unsent
  <2>3. q \notin created => ~Unsent(q)
    BY <2>1 DEF PacketAt, Unsent
  <2> QED
    BY <1>1, <2>1, <2>2, <2>3, SameNet, SameRecv, SameRx DEF ArrayAt
<1> QED
  BY <1>5, <1>6, <1>7 DEF PacketOnce, ArrayOnce

\* A packet for a tile of the process moves from TX FIFO to RX FIFO.
LEMMA TransmitLocalOnce ==
  ASSUME Once, NEW t \in Tile, TransmitLocal(t)
  PROVE  (Shape /\ PacketOnce /\ ArrayOnce)'
<1> DEFINE p == Head(tx[t])
           e == [pkt |-> p, ptr |-> OwnPointer(p)]
<1>1. /\ tx[t] # <<>> /\ tx' = [tx EXCEPT ![t] = Tail(@)]
      /\ rx' = [rx EXCEPT ![Dest(p)] = Append(@, e)]
      /\ UNCHANGED created /\ UNCHANGED send /\ UNCHANGED net /\ UNCHANGED recv
  BY DEF TransmitLocal
<1>2. Shape /\ PacketOnce /\ ArrayOnce
  BY DEF Once
<1>3. /\ p \in Packet /\ InTx(p) /\ TxShape'
      /\ \A q \in Packet : InTx(q)' <=> InTx(q) /\ q # p
  BY <1>1, PopTx
<1>4. e \in Stored /\ StoredOK(e, Dest(p)) /\ Dest(p) \in Tile
  BY <1>3, RanksOfPacket DEF Stored, StoredOK, ArrayOK, OwnPointer
<1>5. e.pkt = p /\ (p \in Dresp => e.ptr.data = p) /\ (p \notin Dresp => e.ptr.data = 0)
  BY DEF OwnPointer, NoArray
<1> HIDE DEF p, e
<1>6. ~InRx(p) /\ ~InNet(p) /\ send[p] = "none" /\ p \in created
  BY <1>2, <1>3 DEF PacketOnce, PacketAt
<1>7. p \in Dresp => \A u \in Tile : ~ArrayInRx(u, p)
  BY <1>2, <1>3 DEF ArrayOnce, ArrayAt, Unsent
<1>8. /\ RxShape'
      /\ \A q \in Packet : InRx(q)' <=> InRx(q) \/ q = p
      /\ \A q \in Dresp, u \in Tile :
           ArrayInRx(u, q)' <=> ArrayInRx(u, q) \/ (u = Dest(p) /\ q = e.ptr.data)
  <2>1. ~InRx(e.pkt) /\ (e.pkt \in Dresp => \A u \in Tile : ~ArrayInRx(u, e.ptr.data))
    BY <1>5, <1>6, <1>7
  <2> QED
    BY <1>1, <1>4, <1>5, <2>1, StorePacket
<1>9. Shape'
  BY <1>1, <1>2, <1>3, <1>8, SameNet DEF Shape
<1>10. ASSUME NEW q \in Packet PROVE PacketAt(q)'
  BY <1>1, <1>2, <1>3, <1>6, <1>8, SameNet, SameRecv DEF PacketOnce, PacketAt
<1>11. ASSUME NEW q \in Dresp PROVE ArrayAt(q)'
  <2>1. q \in Packet /\ PacketAt(q) /\ ArrayAt(q)
    BY <1>2, DrespArePackets DEF PacketOnce, ArrayOnce
  <2>2. Unsent(q)' <=> Unsent(q) /\ q # p
    BY <1>1, <1>3, <1>6, <2>1 DEF Unsent
  <2>3. q = p => Unsent(q)
    BY <1>3 DEF Unsent
  <2>4. \A u \in Tile : ArrayInRx(u, q)' <=> ArrayInRx(u, q) \/ (u = Dest(p) /\ q = p)
    BY <1>5, <1>8, DrespArePackets
  <2> QED
    BY <1>1, <1>4, <1>6, <2>1, <2>2, <2>3, <2>4, SameNet, SameRecv DEF ArrayAt
<1> QED
  BY <1>9, <1>10, <1>11 DEF PacketOnce, ArrayOnce

\* A packet for another process moves from TX FIFO to sender.
LEMMA TransmitRemoteOnce ==
  ASSUME Once, NEW t \in Tile, TransmitRemote(t)
  PROVE  (Shape /\ PacketOnce /\ ArrayOnce)'
<1> DEFINE p == Head(tx[t])
<1>1. /\ tx[t] # <<>> /\ tx' = [tx EXCEPT ![t] = Tail(@)]
      /\ send' = [send EXCEPT ![p] = "header"]
      /\ UNCHANGED created /\ UNCHANGED rx /\ UNCHANGED net /\ UNCHANGED recv
  BY DEF TransmitRemote, TxPop
<1>2. Shape /\ PacketOnce /\ ArrayOnce
  BY DEF Once
<1>3. /\ p \in Packet /\ InTx(p) /\ TxShape'
      /\ \A q \in Packet : InTx(q)' <=> InTx(q) /\ q # p
  BY <1>1, PopTx
<1> HIDE DEF p
<1>4. \A q \in Packet : send'[q] = IF q = p THEN "header" ELSE send[q]
  BY <1>1 DEF Once, Inv, TypeOK
<1>5. Shape'
  BY <1>1, <1>2, <1>3, SameNet, SameRx DEF Shape
<1>6. ASSUME NEW q \in Packet PROVE PacketAt(q)'
  BY <1>1, <1>2, <1>3, <1>4, SameNet, SameRecv, SameRx DEF PacketOnce, PacketAt
<1>7. ASSUME NEW q \in Dresp PROVE ArrayAt(q)'
  <2>1. q \in Packet /\ PacketAt(q) /\ ArrayAt(q)
    BY <1>2, DrespArePackets DEF PacketOnce, ArrayOnce
  <2>2. Unsent(q)' <=> Unsent(q)
    BY <1>3, <1>4, <2>1 DEF Unsent
  <2>3. q = p => send[q] = "none"
    BY <1>3, <2>1 DEF PacketAt
  <2> QED
    BY <1>1, <1>4, <2>1, <2>2, <2>3, SameNet, SameRecv, SameRx DEF ArrayAt
<1> QED
  BY <1>5, <1>6, <1>7 DEF PacketOnce, ArrayOnce

\* The sender hands over the packet, and then its array.
LEMMA SendOnce ==
  ASSUME Once, NEW p \in Packet, SendStep(p)
  PROVE  (Shape /\ PacketOnce /\ ArrayOnce)'
<1>1. Shape /\ PacketOnce /\ ArrayOnce /\ PacketAt(p)
  BY DEF Once, PacketOnce
<1>2. /\ UNCHANGED created /\ UNCHANGED tx /\ UNCHANGED rx /\ UNCHANGED recv
      /\ p \in created
  BY <1>1 DEF SendStep, PostHeader, HeaderSent, PostArray, ArraySent, PacketAt
<1>3. \A q \in Dresp : q \in Packet /\ PacketAt(q) /\ ArrayAt(q)
  BY <1>1, DrespArePackets DEF PacketOnce, ArrayOnce
<1>4. ASSUME NEW st, send' = [send EXCEPT ![p] = st]
      PROVE  \A q \in Packet : send'[q] = IF q = p THEN st ELSE send[q]
  BY <1>4 DEF Once, Inv, TypeOK
<1>5. CASE PostHeader(p)
  <2> DEFINE m == Header(p)
  <2>1. /\ send[p] = "header" /\ send' = [send EXCEPT ![p] = "headerTest"]
        /\ net' = [net EXCEPT ![SourceRank(p)][DestRank(p)] = Append(@, m)]
    BY <1>5 DEF PostHeader, Header
  <2>2. m \in Message /\ m.pkt = p
    BY DEF Header, Message
  <2>3. m \notin MessagesOf(p)
    BY <1>1, <2>1 DEF PacketAt, InNet
  <2> HIDE DEF m
  <2>4. /\ NetShape'
        /\ \A q \in Packet : /\ InNet(q)' <=> InNet(q) \/ Header(q) = m
                             /\ ArrayInNet(q)' <=> ArrayInNet(q) \/ ArrayMessage(q) = m
    BY <2>1, <2>2, <2>3, SendMessage
  <2>5. \A q \in Packet : (Header(q) = m <=> q = p) /\ ArrayMessage(q) # m
    BY TagsDiffer DEF m, Header, ArrayMessage
  <2>6. \A q \in Packet : send'[q] = IF q = p THEN "headerTest" ELSE send[q]
    BY <1>4, <2>1
  <2>7. Shape'
    BY <1>1, <1>2, <2>4, SameTx, SameRx DEF Shape
  <2>8. ASSUME NEW q \in Packet PROVE PacketAt(q)'
    BY <1>1, <1>2, <2>1, <2>4, <2>5, <2>6, SameTx, SameRecv, SameRx DEF PacketOnce, PacketAt
  <2>9. ASSUME NEW q \in Dresp PROVE ArrayAt(q)'
    <3>1. Unsent(q)' <=> Unsent(q)
      BY <1>2, <1>3, <2>1, <2>6, SameTx DEF Unsent
    <3> QED
      BY <1>2, <1>3, <2>1, <2>4, <2>5, <2>6, <3>1, SameRecv, SameRx DEF ArrayAt
  <2> QED
    BY <2>7, <2>8, <2>9 DEF PacketOnce, ArrayOnce
<1>6. CASE HeaderSent(p)
  <2>1. /\ send[p] = "headerTest" /\ UNCHANGED net
        /\ send' = [send EXCEPT ![p] = IF p \in Dresp THEN "array" ELSE "sent"]
    BY <1>6 DEF HeaderSent
  <2>2. \A q \in Packet :
          send'[q] = IF q = p THEN (IF p \in Dresp THEN "array" ELSE "sent") ELSE send[q]
    BY <1>4, <2>1
  <2>3. Shape'
    BY <1>1, <1>2, <2>1, SameTx, SameNet, SameRx DEF Shape
  <2>4. ASSUME NEW q \in Packet PROVE PacketAt(q)'
    BY <1>1, <1>2, <2>1, <2>2, SameTx, SameNet, SameRecv, SameRx DEF PacketOnce, PacketAt
  <2>5. ASSUME NEW q \in Dresp PROVE ArrayAt(q)'
    <3>1. Unsent(q)' <=> Unsent(q)
      BY <1>2, <1>3, <2>1, <2>2, SameTx DEF Unsent
    <3> QED
      BY <1>2, <1>3, <2>1, <2>2, <3>1, SameNet, SameRecv, SameRx DEF ArrayAt
  <2> QED
    BY <2>3, <2>4, <2>5 DEF PacketOnce, ArrayOnce
<1>7. CASE PostArray(p)
  <2> DEFINE m == ArrayMessage(p)
  <2>1. /\ send[p] = "array" /\ send' = [send EXCEPT ![p] = "arrayTest"]
        /\ net' = [net EXCEPT ![SourceRank(p)][DestRank(p)] = Append(@, m)]
        /\ p \in Dresp
    BY <1>7 DEF PostArray, SentTag, ArrayMessage, Once, Inv, SendOK
  <2>2. m \in Message /\ m.pkt = p
    BY DEF ArrayMessage, Message
  <2>3. m \notin MessagesOf(p)
    BY <1>3, <2>1 DEF ArrayAt, ArrayInNet
  <2> HIDE DEF m
  <2>4. /\ NetShape'
        /\ \A q \in Packet : /\ InNet(q)' <=> InNet(q) \/ Header(q) = m
                             /\ ArrayInNet(q)' <=> ArrayInNet(q) \/ ArrayMessage(q) = m
    BY <2>1, <2>2, <2>3, SendMessage
  <2>5. \A q \in Packet : (ArrayMessage(q) = m <=> q = p) /\ Header(q) # m
    BY TagsDiffer DEF m, Header, ArrayMessage
  <2>6. \A q \in Packet : send'[q] = IF q = p THEN "arrayTest" ELSE send[q]
    BY <1>4, <2>1
  <2>7. Shape'
    BY <1>1, <1>2, <2>4, SameTx, SameRx DEF Shape
  <2>8. ASSUME NEW q \in Packet PROVE PacketAt(q)'
    BY <1>1, <1>2, <2>1, <2>4, <2>5, <2>6, SameTx, SameRecv, SameRx DEF PacketOnce, PacketAt
  <2>9. ASSUME NEW q \in Dresp PROVE ArrayAt(q)'
    <3>1. Unsent(q)' <=> Unsent(q) /\ q # p
      BY <1>2, <1>3, <2>1, <2>6, SameTx DEF Unsent, PacketAt
    <3>2. q = p => Unsent(q)
      BY <2>1 DEF Unsent
    <3> QED
      BY <1>2, <1>3, <2>1, <2>4, <2>5, <2>6, <3>1, <3>2, SameRecv, SameRx DEF ArrayAt
  <2> QED
    BY <2>7, <2>8, <2>9 DEF PacketOnce, ArrayOnce
<1>8. CASE ArraySent(p)
  <2>1. /\ send[p] = "arrayTest" /\ UNCHANGED net
        /\ send' = [send EXCEPT ![p] = "sent"]
    BY <1>8 DEF ArraySent
  <2>2. \A q \in Packet : send'[q] = IF q = p THEN "sent" ELSE send[q]
    BY <1>4, <2>1
  <2>3. Shape'
    BY <1>1, <1>2, <2>1, SameTx, SameNet, SameRx DEF Shape
  <2>4. ASSUME NEW q \in Packet PROVE PacketAt(q)'
    BY <1>1, <1>2, <2>1, <2>2, SameTx, SameNet, SameRecv, SameRx DEF PacketOnce, PacketAt
  <2>5. ASSUME NEW q \in Dresp PROVE ArrayAt(q)'
    <3>1. Unsent(q)' <=> Unsent(q)
      BY <1>2, <1>3, <2>1, <2>2, SameTx DEF Unsent
    <3> QED
      BY <1>2, <1>3, <2>1, <2>2, <3>1, SameNet, SameRecv, SameRx DEF ArrayAt
  <2> QED
    BY <2>3, <2>4, <2>5 DEF PacketOnce, ArrayOnce
<1> QED
  BY <1>5, <1>6, <1>7, <1>8 DEF SendStep

\* A packet moves from its message to the thread that takes it.
LEMMA ReceiveHeaderOnce ==
  ASSUME Once, NEW th \in Thread, ReceiveHeader(th)
  PROVE  (Shape /\ PacketOnce /\ ArrayOnce)'
<1>1. Shape /\ PacketOnce /\ ArrayOnce /\ th[1] \in Rank
  BY DEF Once, Thread
<1>2. /\ UNCHANGED created /\ UNCHANGED tx /\ UNCHANGED rx /\ UNCHANGED send
      /\ recv[th].pc = "listen"
  BY DEF ReceiveHeader
<1>3. PICK s \in Rank : \E i \in DOMAIN net[s][th[1]] :
        /\ net[s][th[1]][i].tag = tag_default
        /\ Take(s, th[1], i)
        /\ LET p == net[s][th[1]][i].pkt IN
             recv' = [recv EXCEPT
                        ![th] = [pc |-> IF p \in Dresp THEN "awaitArray" ELSE "store",
                                 pkt |-> p, ptr |-> OwnPointer(p)]]
  BY DEF ReceiveHeader, Matches
<1>4. PICK i \in DOMAIN net[s][th[1]] :
        /\ net[s][th[1]][i].tag = tag_default
        /\ Take(s, th[1], i)
        /\ LET p == net[s][th[1]][i].pkt IN
             recv' = [recv EXCEPT
                        ![th] = [pc |-> IF p \in Dresp THEN "awaitArray" ELSE "store",
                                 pkt |-> p, ptr |-> OwnPointer(p)]]
  BY <1>3
<1> DEFINE m == net[s][th[1]][i]
           p == m.pkt
           st == [pc |-> IF p \in Dresp THEN "awaitArray" ELSE "store",
                  pkt |-> p, ptr |-> OwnPointer(p)]
<1>5. /\ m \in Message /\ p \in Packet /\ m \in MessagesOf(p) /\ NetShape'
      /\ \A q \in Packet : /\ InNet(q)' <=> InNet(q) /\ Header(q) # m
                           /\ ArrayInNet(q)' <=> ArrayInNet(q) /\ ArrayMessage(q) # m
  BY <1>1, <1>4, ReceiveMessage
<1>6. m.tag = tag_default /\ recv' = [recv EXCEPT ![th] = st]
  BY <1>4
<1>7. st.pc # "listen" /\ st.pkt = p /\ (st.pc = "store" => st.ptr.data = 0)
  BY DEF OwnPointer, NoArray
<1> HIDE DEF m, st
<1>8. m = Header(p)
  BY <1>5, <1>6 DEF Message, Header
<1>9. \A q \in Packet : (Header(q) = m <=> q = p) /\ ArrayMessage(q) # m
  BY <1>5, <1>8, TagsDiffer DEF Header, ArrayMessage
<1>10. InNet(p)
  BY <1>5, <1>8 DEF InNet
<1> HIDE DEF p
<1>11. /\ \A q \in Packet, h \in Thread :
            HeldBy(h, q)' <=> IF h = th THEN q = p ELSE HeldBy(h, q)
       /\ \A q \in Dresp, h \in Thread :
            ArrayHeldBy(h, q)' <=> IF h = th THEN FALSE ELSE ArrayHeldBy(h, q)
  BY <1>6, <1>7, ThreadMoves, DrespArePackets
<1>12. \A q \in Packet : ~HeldBy(th, q) /\ ~ArrayHeldBy(th, q)
  BY <1>2 DEF HeldBy, ArrayHeldBy
<1>13. Shape'
  BY <1>1, <1>2, <1>5, SameTx, SameRx DEF Shape
<1>14. ASSUME NEW q \in Packet PROVE PacketAt(q)'
  <2>1. PacketAt(q)
    BY <1>1 DEF PacketOnce
  <2>2. CASE q = p
    BY <1>2, <1>5, <1>9, <1>10, <1>11, <2>1, <2>2, SameTx, SameRx DEF PacketAt
  <2>3. CASE q # p
    BY <1>2, <1>5, <1>9, <1>11, <1>12, <2>1, <2>3, SameTx, SameRx DEF PacketAt
  <2> QED
    BY <2>2, <2>3
<1>15. ASSUME NEW q \in Dresp PROVE ArrayAt(q)'
  <2>1. q \in Packet /\ ArrayAt(q)
    BY <1>1, DrespArePackets DEF ArrayOnce
  <2>2. Unsent(q)' <=> Unsent(q)
    BY <1>2, <2>1, SameTx DEF Unsent
  <2>3. /\ ArrayInNet(q)' <=> ArrayInNet(q)
        /\ \A h \in Thread : ArrayHeldBy(h, q)' <=> ArrayHeldBy(h, q)
    BY <1>5, <1>9, <1>11, <1>12, <2>1
  <2> QED
    BY <1>2, <2>1, <2>2, <2>3, SameRx DEF ArrayAt
<1> QED
  BY <1>13, <1>14, <1>15 DEF PacketOnce, ArrayOnce

\* An array moves from its message to the thread that takes it.
LEMMA ReceiveArrayOnce ==
  ASSUME Once, NEW th \in Thread, ReceiveArray(th)
  PROVE  (Shape /\ PacketOnce /\ ArrayOnce)'
<1>1. /\ Shape /\ PacketOnce /\ ArrayOnce /\ th[1] \in Rank
      /\ recv[th] \in ThreadState /\ ThreadOK(recv[th], th[1])
  BY DEF Once, Thread, Inv, TypeOK, RecvOK
<1>2. /\ UNCHANGED created /\ UNCHANGED tx /\ UNCHANGED rx /\ UNCHANGED send
      /\ recv[th].pc = "awaitArray"
  BY DEF ReceiveArray
<1>3. PICK s \in Rank : \E i \in DOMAIN net[s][th[1]] :
        /\ net[s][th[1]][i].tag = DataTag(recv[th].pkt)
        /\ Take(s, th[1], i)
        /\ recv' = [recv EXCEPT ![th].pc = "store",
                                ![th].ptr = [space |-> th[1], data |-> net[s][th[1]][i].pkt]]
  BY DEF ReceiveArray, NewWord, Matches
<1>4. PICK i \in DOMAIN net[s][th[1]] :
        /\ net[s][th[1]][i].tag = DataTag(recv[th].pkt)
        /\ Take(s, th[1], i)
        /\ recv' = [recv EXCEPT ![th].pc = "store",
                                ![th].ptr = [space |-> th[1], data |-> net[s][th[1]][i].pkt]]
  BY <1>3
<1> DEFINE m == net[s][th[1]][i]
           a == m.pkt
           st == [recv[th] EXCEPT !.pc = "store", !.ptr = [space |-> th[1], data |-> a]]
<1>5. /\ m \in Message /\ a \in Packet /\ m \in MessagesOf(a) /\ NetShape'
      /\ \A q \in Packet : /\ InNet(q)' <=> InNet(q) /\ Header(q) # m
                           /\ ArrayInNet(q)' <=> ArrayInNet(q) /\ ArrayMessage(q) # m
  BY <1>1, <1>4, ReceiveMessage
<1>6. MessageOK(m, th[1])
  BY <1>1, <1>4, TakeKeepsNet DEF Once, Inv
<1>7. recv[th].pkt \in Packet /\ m.tag # tag_default
  BY <1>1, <1>2, <1>4, TagsDiffer DEF ThreadOK
<1>8. a \in Dresp /\ m = ArrayMessage(a)
  BY <1>5, <1>6, <1>7 DEF Message, MessageOK, ArrayMessage
<1>9. recv' = [recv EXCEPT ![th] = st]
  BY <1>1, <1>4 DEF ThreadState, Once, Inv, TypeOK
<1>10. st.pc = "store" /\ st.pkt = recv[th].pkt /\ st.ptr.data = a
  BY <1>1 DEF ThreadState
<1> HIDE DEF m, st
<1>11. \A q \in Packet : (ArrayMessage(q) = m <=> q = a) /\ Header(q) # m
  BY <1>5, <1>8, TagsDiffer DEF Header, ArrayMessage
<1>12. ArrayInNet(a)
  BY <1>5, <1>8 DEF ArrayInNet
<1> HIDE DEF a
<1>13. /\ \A q \in Packet, h \in Thread :
            HeldBy(h, q)' <=> IF h = th THEN q = recv[th].pkt ELSE HeldBy(h, q)
       /\ \A q \in Packet, h \in Thread :
            ArrayHeldBy(h, q)' <=> IF h = th THEN q = a ELSE ArrayHeldBy(h, q)
  BY <1>9, <1>10, ThreadMoves
<1>14. \A q \in Packet : (HeldBy(th, q) <=> q = recv[th].pkt) /\ ~ArrayHeldBy(th, q)
  BY <1>2 DEF HeldBy, ArrayHeldBy
<1>15. Shape'
  BY <1>1, <1>2, <1>5, SameTx, SameRx DEF Shape
<1>16. ASSUME NEW q \in Packet PROVE PacketAt(q)'
  <2>1. PacketAt(q) /\ (InNet(q)' <=> InNet(q))
    BY <1>1, <1>5, <1>11 DEF PacketOnce
  <2>2. \A h \in Thread : HeldBy(h, q)' <=> HeldBy(h, q)
    BY <1>13, <1>14
  <2> QED
    BY <1>2, <2>1, <2>2, SameTx, SameRx DEF PacketAt
<1>17. ASSUME NEW q \in Dresp PROVE ArrayAt(q)'
  <2>1. q \in Packet /\ ArrayAt(q)
    BY <1>1, DrespArePackets DEF ArrayOnce
  <2>2. Unsent(q)' <=> Unsent(q)
    BY <1>2, <2>1, SameTx DEF Unsent
  <2>3. CASE q = a
    BY <1>2, <1>5, <1>11, <1>12, <1>13, <2>1, <2>2, <2>3, SameRx DEF ArrayAt
  <2>4. CASE q # a
    BY <1>2, <1>5, <1>11, <1>13, <1>14, <2>1, <2>2, <2>4, SameRx DEF ArrayAt
  <2> QED
    BY <2>3, <2>4
<1> QED
  BY <1>15, <1>16, <1>17 DEF PacketOnce, ArrayOnce

\* What a thread is about to store is new to the RX FIFOs.
LEMMA StoreIsNew ==
  ASSUME Once, NEW th \in Thread, recv[th].pc = "store"
  PROVE  /\ recv[th].pkt \in Packet /\ HeldBy(th, recv[th].pkt)
         /\ [pkt |-> recv[th].pkt, ptr |-> recv[th].ptr] \in Stored
         /\ StoredOK([pkt |-> recv[th].pkt, ptr |-> recv[th].ptr], Dest(recv[th].pkt))
         /\ ~InRx(recv[th].pkt)
         /\ recv[th].pkt \in Dresp =>
              /\ recv[th].ptr.data \in Dresp /\ ArrayHeldBy(th, recv[th].ptr.data)
              /\ \A u \in Tile : ~ArrayInRx(u, recv[th].ptr.data)
         /\ recv[th].pkt \notin Dresp => recv[th].ptr.data = 0
<1>1. recv[th] \in ThreadState /\ ThreadOK(recv[th], th[1]) /\ PacketOnce /\ ArrayOnce
  BY DEF Once, Inv, TypeOK, RecvOK
<1> DEFINE p == recv[th].pkt
           a == recv[th].ptr.data
<1>2. p \in Packet /\ ArrayOK(p, recv[th].ptr) /\ recv[th].ptr \in Pointer
  BY <1>1 DEF ThreadOK, ThreadState
<1>3. HeldBy(th, p)
  BY DEF HeldBy
<1>4. ~InRx(p)
  BY <1>1, <1>2, <1>3 DEF PacketOnce, PacketAt
<1>5. ASSUME p \in Dresp
      PROVE  a \in Dresp /\ ArrayHeldBy(th, a) /\ \A u \in Tile : ~ArrayInRx(u, a)
  <2>1. a \in Dresp /\ ArrayHeldBy(th, a)
    BY <1>2, <1>5 DEF ArrayOK, ArrayHeldBy
  <2> QED
    BY <1>1, <2>1 DEF ArrayOnce, ArrayAt
<1>6. p \notin Dresp => a = 0
  BY <1>2 DEF ArrayOK, NoArray
<1> QED
  BY <1>2, <1>3, <1>4, <1>5, <1>6 DEF Stored, StoredOK

\* A packet and its array move from the thread to the RX FIFO.
LEMMA StoreOnce ==
  ASSUME Once, NEW th \in Thread, Store(th)
  PROVE  (Shape /\ PacketOnce /\ ArrayOnce)'
<1> DEFINE p == recv[th].pkt
           a == recv[th].ptr.data
           e == [pkt |-> p, ptr |-> recv[th].ptr]
<1>1. Shape /\ PacketOnce /\ ArrayOnce
  BY DEF Once
<1>2. /\ UNCHANGED created /\ UNCHANGED tx /\ UNCHANGED net /\ UNCHANGED send
      /\ recv[th].pc = "store" /\ recv' = [recv EXCEPT ![th] = Listening]
      /\ rx' = [rx EXCEPT ![Dest(p)] = Append(@, e)]
  BY DEF Store, StoreDest
<1>3. /\ p \in Packet /\ HeldBy(th, p) /\ e \in Stored /\ StoredOK(e, Dest(p)) /\ ~InRx(p)
      /\ p \in Dresp => a \in Dresp /\ ArrayHeldBy(th, a) /\ \A u \in Tile : ~ArrayInRx(u, a)
      /\ p \notin Dresp => a = 0
  BY <1>2, StoreIsNew
<1>4. Dest(p) \in Tile /\ e.pkt = p /\ e.ptr.data = a
  BY <1>3, DestIsTile
<1>5. \A q \in Packet : (HeldBy(th, q) <=> q = p) /\ (ArrayHeldBy(th, q) <=> q = a)
  BY <1>2 DEF HeldBy, ArrayHeldBy
<1> HIDE DEF p, a, e
<1>6. /\ RxShape'
      /\ \A q \in Packet : InRx(q)' <=> InRx(q) \/ q = p
      /\ \A q \in Dresp, u \in Tile :
           ArrayInRx(u, q)' <=> ArrayInRx(u, q) \/ (u = Dest(p) /\ q = a)
  <2>1. ~InRx(e.pkt) /\ (e.pkt \in Dresp => \A u \in Tile : ~ArrayInRx(u, e.ptr.data))
    BY <1>3, <1>4
  <2>2. /\ e \in Stored /\ StoredOK(e, Dest(p)) /\ Dest(p) \in Tile
        /\ rx' = [rx EXCEPT ![Dest(p)] = Append(@, e)]
    BY <1>2, <1>3, <1>4
  <2>3. /\ RxShape'
        /\ \A q \in Packet : InRx(q)' <=> InRx(q) \/ q = e.pkt
        /\ \A q \in Dresp, u \in Tile :
             ArrayInRx(u, q)' <=> ArrayInRx(u, q) \/ (u = Dest(p) /\ q = e.ptr.data)
    BY <2>1, <2>2, StorePacket
  <2> QED
    BY <1>4, <2>3
<1>7. \A q \in Packet, h \in Thread :
        /\ HeldBy(h, q)' <=> HeldBy(h, q) /\ h # th
        /\ ArrayHeldBy(h, q)' <=> ArrayHeldBy(h, q) /\ h # th
  <2>1. Listening.pc = "listen"
    BY DEF Listening
  <2>2. \A q \in Packet, h \in Thread :
          /\ HeldBy(h, q)' <=> IF h = th THEN Listening.pc # "listen" /\ Listening.pkt = q
                                         ELSE HeldBy(h, q)
          /\ ArrayHeldBy(h, q)' <=> IF h = th
                                    THEN Listening.pc = "store" /\ Listening.ptr.data = q
                                    ELSE ArrayHeldBy(h, q)
    BY <1>2, ThreadMoves
  <2> QED
    BY <2>1, <2>2
<1>8. Shape'
  BY <1>1, <1>2, <1>6, SameTx, SameNet DEF Shape
<1>9. ASSUME NEW q \in Packet PROVE PacketAt(q)'
  <2>1. PacketAt(q)
    BY <1>1 DEF PacketOnce
  <2>2. CASE q = p
    BY <1>2, <1>3, <1>6, <1>7, <2>1, <2>2, SameTx, SameNet DEF PacketAt
  <2>3. CASE q # p
    BY <1>2, <1>5, <1>6, <1>7, <2>1, <2>3, SameTx, SameNet DEF PacketAt
  <2> QED
    BY <2>2, <2>3
<1>10. ASSUME NEW q \in Dresp PROVE ArrayAt(q)'
  <2>1. q \in Packet /\ ArrayAt(q)
    BY <1>1, DrespArePackets DEF ArrayOnce
  <2>2. Unsent(q)' <=> Unsent(q)
    BY <1>2, <2>1, SameTx DEF Unsent
  <2>3. (ArrayInNet(q)' <=> ArrayInNet(q)) /\ q # 0
    BY <1>2, <2>1, SameNet, DrespArePackets
  <2>4. CASE q = a
    <3>1. p \in Dresp
      BY <1>3, <2>3, <2>4
    <3>2. /\ ArrayHeldBy(th, q) /\ \A u \in Tile : ~ArrayInRx(u, q)
          /\ \A u \in Tile : ArrayInRx(u, q)' <=> u = Dest(p)
      BY <1>3, <1>6, <2>4, <3>1
    <3>3. \A h \in Thread : ~ArrayHeldBy(h, q)'
      BY <1>7, <2>1, <3>2 DEF ArrayAt
    <3>4. q \in created /\ ~ArrayInNet(q) /\ ~Unsent(q)
      <4>1. send[q] \in {"arrayTest", "sent"} /\ ~ArrayInNet(q) /\ q \in created
        BY <2>1, <3>2 DEF ArrayAt
      <4>2. ~InTx(q)
        BY <1>1, <2>1, <4>1 DEF PacketOnce, PacketAt
      <4> QED
        BY <4>1, <4>2 DEF Unsent
    <3> QED
      BY <1>2, <1>4, <2>2, <2>3, <3>2, <3>3, <3>4 DEF ArrayAt
  <2>5. CASE q # a
    <3>1. \A h \in Thread : ArrayHeldBy(h, q)' <=> ArrayHeldBy(h, q)
      BY <1>5, <1>7, <2>1, <2>5
    <3>2. \A u \in Tile : ArrayInRx(u, q)' <=> ArrayInRx(u, q)
      BY <1>6, <2>5
    <3> QED
      BY <1>2, <2>1, <2>2, <2>3, <3>1, <3>2 DEF ArrayAt
  <2> QED
    BY <2>4, <2>5
<1> QED
  BY <1>8, <1>9, <1>10 DEF PacketOnce, ArrayOnce

\* Steps that move nothing.
LEMMA IdleOnce ==
  ASSUME Once, UNCHANGED <<created, tx, send, net, recv, rx>>
  PROVE  (Shape /\ PacketOnce /\ ArrayOnce)'
<1>1. /\ UNCHANGED created /\ UNCHANGED tx /\ UNCHANGED send /\ UNCHANGED net
      /\ UNCHANGED recv /\ UNCHANGED rx /\ Shape /\ PacketOnce /\ ArrayOnce
  BY DEF Once
<1>2. Shape'
  BY <1>1, SameTx, SameNet, SameRx DEF Shape
<1>3. ASSUME NEW q \in Packet PROVE PacketAt(q)'
  BY <1>1, SameTx, SameNet, SameRecv, SameRx DEF PacketOnce, PacketAt
<1>4. ASSUME NEW q \in Dresp PROVE ArrayAt(q)'
  <2>1. q \in Packet /\ ArrayAt(q)
    BY <1>1, DrespArePackets DEF ArrayOnce
  <2>2. Unsent(q)' <=> Unsent(q)
    BY <1>1, <2>1, SameTx DEF Unsent
  <2> QED
    BY <1>1, <2>1, <2>2, SameNet, SameRecv, SameRx DEF ArrayAt
<1> QED
  BY <1>2, <1>3, <1>4 DEF PacketOnce, ArrayOnce

\* Once is inductive.
LEMMA OnceNext == Once /\ [Next]_vars => Once'
<1> SUFFICES ASSUME Once, [Next]_vars PROVE Once'
  OBVIOUS
<1>1. Inv /\ Inv'
  <2>1. CASE UNCHANGED vars
    BY <2>1 DEF Once, vars, Inv, TypeOK, SendOK, NetOK, RecvOK, RxOK
  <2>2. CASE Next
    BY <2>2, PacketInv, TileInv, ThreadInv DEF Next, Once
  <2> QED
    BY <2>1, <2>2
<1>2. (Shape /\ PacketOnce /\ ArrayOnce)'
  <2>1. CASE UNCHANGED vars
    BY <2>1, IdleOnce DEF vars
  <2>2. ASSUME NEW p \in Packet, Create(p) \/ SendStep(p)
        PROVE  (Shape /\ PacketOnce /\ ArrayOnce)'
    BY <2>2, CreateOnce, SendOnce
  <2>3. ASSUME NEW t \in Tile, TileStep(t)
        PROVE  (Shape /\ PacketOnce /\ ArrayOnce)'
    <3>1. CASE BeginTransmit(t) \/ EndTransmit(t)
      BY <3>1, IdleOnce DEF BeginTransmit, EndTransmit
    <3> QED
      BY <2>3, <3>1, TransmitLocalOnce, TransmitRemoteOnce DEF TileStep
  <2>4. ASSUME NEW th \in Thread, ThreadStep(th)
        PROVE  (Shape /\ PacketOnce /\ ArrayOnce)'
    BY <2>4, ReceiveHeaderOnce, ReceiveArrayOnce, StoreOnce DEF ThreadStep
  <2> QED
    BY <2>1, <2>2, <2>3, <2>4 DEF Next
<1> QED
  BY <1>1, <1>2 DEF Once

(* Once holds in every state that the transport reaches.                   *)
THEOREM OnceHolds == Spec => []Once
BY InitOnce, OnceNext, PTL DEF Spec

-----------------------------------------------------------------------------
(* ExactlyOnce *)

\* The places of a packet, of each kind.
LEMMA PlacesOfPacket ==
  ASSUME NEW p \in Packet, NEW y
  PROVE  y \in Places(p) <=>
           \/ \E t \in Tile : \E i \in DOMAIN tx[t] : tx[t][i] = p /\ y = <<"tx", t, 0, i>>
           \/ send[p] = "header" /\ y = <<"send", p, 0, 0>>
           \/ \E c \in Rank \X Rank : \E i \in DOMAIN net[c[1]][c[2]] :
                /\ net[c[1]][c[2]][i].tag = tag_default /\ net[c[1]][c[2]][i].pkt = p
                /\ y = <<"net", c[1], c[2], i>>
           \/ \E th \in Thread : HeldBy(th, p) /\ y = <<"thread", th[1], th[2], 0>>
           \/ \E t \in Tile : \E i \in DOMAIN rx[t] :
                rx[t][i].pkt = p /\ y = <<"rx", t, 0, i>>
BY DEF Places, HeldBy

\* The places of an array, of each kind.
LEMMA PlacesOfArray ==
  ASSUME NEW q \in Packet, NEW y
  PROVE  y \in ArrayPlaces(q) <=>
           \/ \E t \in Tile : \E i \in DOMAIN tx[t] : tx[t][i] = q /\ y = <<"tx", t, 0, i>>
           \/ send[q] \in {"header", "headerTest", "array"} /\ y = <<"send", q, 0, 0>>
           \/ \E c \in Rank \X Rank : \E i \in DOMAIN net[c[1]][c[2]] :
                /\ net[c[1]][c[2]][i].tag # tag_default /\ net[c[1]][c[2]][i].pkt = q
                /\ y = <<"net", c[1], c[2], i>>
           \/ \E th \in Thread : ArrayHeldBy(th, q) /\ y = <<"thread", th[1], th[2], 0>>
           \/ \E t \in Tile : \E i \in DOMAIN rx[t] :
                rx[t][i].ptr.data = q /\ y = <<"rx", t, 0, i>>
BY DEF ArrayPlaces, ArrayHeldBy

\* The predicates on places, read as positions.
LEMMA TxPosition ==
  ASSUME Once, NEW p \in Packet
  PROVE  /\ InTx(p) => \E t \in Tile : \E i \in DOMAIN tx[t] : tx[t][i] = p
         /\ \A t \in Tile : \A i \in DOMAIN tx[t] : tx[t][i] = p =>
              InTx(p) /\ \A u \in Tile : \A j \in DOMAIN tx[u] : tx[u][j] = p => u = t /\ j = i
<1>1. TxShape /\ Source[p] \in Tile
  BY RanksOfPacket DEF Once, Shape
<1>2. ASSUME NEW t \in Tile, NEW i \in DOMAIN tx[t], tx[t][i] = p
      PROVE  t = Source[p] /\ InTx(p)
  BY <1>1, <1>2 DEF TxShape, InTx, ToSet
<1>3. \A i, j \in DOMAIN tx[Source[p]] :
        tx[Source[p]][i] = p /\ tx[Source[p]][j] = p => i = j
  BY <1>1 DEF TxShape, NoRepeat
<1>4. InTx(p) => \E i \in DOMAIN tx[Source[p]] : tx[Source[p]][i] = p
  BY DEF InTx, ToSet
<1> QED
  BY <1>1, <1>2, <1>3, <1>4

\* A message is at one position between one pair of processes.
LEMMA NetPosition ==
  ASSUME Once, NEW p \in Packet, NEW m \in {Header(p), ArrayMessage(p)}
  PROVE  /\ m \in MessagesOf(p) =>
              \E c \in Rank \X Rank : \E i \in DOMAIN net[c[1]][c[2]] : net[c[1]][c[2]][i] = m
         /\ \A c \in Rank \X Rank : \A i \in DOMAIN net[c[1]][c[2]] :
              net[c[1]][c[2]][i] = m =>
                /\ m \in MessagesOf(p)
                /\ \A d \in Rank \X Rank : \A j \in DOMAIN net[d[1]][d[2]] :
                     net[d[1]][d[2]][j] = m => d = c /\ j = i
<1> DEFINE at == <<SourceRank(p), DestRank(p)>>
<1>1. NetShape /\ NetOK /\ SourceRank(p) \in Rank /\ DestRank(p) \in Rank /\ m.pkt = p
  BY RanksOfPacket DEF Once, Shape, Inv, Header, ArrayMessage
<1>2. ASSUME NEW c \in Rank \X Rank, NEW i \in DOMAIN net[c[1]][c[2]],
             net[c[1]][c[2]][i] = m
      PROVE  c = at /\ m \in MessagesOf(p)
  <2>1. c[1] \in Rank /\ c[2] \in Rank /\ c = <<c[1], c[2]>>
    OBVIOUS
  <2>2. m \in ToSet(net[c[1]][c[2]])
    BY <1>2 DEF ToSet
  <2>3. c[1] = SourceRank(p)
    BY <1>1, <2>1, <2>2 DEF NetShape
  <2>4. c[2] = DestRank(p)
    BY <1>1, <1>2, <2>1 DEF NetOK, MessageOK
  <2> QED
    BY <2>1, <2>2, <2>3, <2>4 DEF MessagesOf
<1>3. \A i, j \in DOMAIN net[at[1]][at[2]] :
        net[at[1]][at[2]][i] = m /\ net[at[1]][at[2]][j] = m => i = j
  BY <1>1 DEF NetShape, NoRepeat
<1>4. m \in MessagesOf(p) => \E i \in DOMAIN net[at[1]][at[2]] : net[at[1]][at[2]][i] = m
  BY DEF MessagesOf, ToSet
<1>5. at \in Rank \X Rank
  BY <1>1
<1> HIDE DEF at
<1> QED
  BY <1>2, <1>3, <1>4, <1>5

\* A packet is at one position of one RX FIFO.
LEMMA RxPosition ==
  ASSUME Once, NEW p \in Packet
  PROVE  /\ InRx(p) => \E t \in Tile : \E i \in DOMAIN rx[t] : rx[t][i].pkt = p
         /\ \A t \in Tile : \A i \in DOMAIN rx[t] : rx[t][i].pkt = p =>
              /\ InRx(p)
              /\ \A u \in Tile : \A j \in DOMAIN rx[u] : rx[u][j].pkt = p => u = t /\ j = i
<1>1. RxShape /\ RxOK /\ Dest(p) \in Tile
  BY RanksOfPacket DEF Once, Shape, Inv
<1>2. ASSUME NEW t \in Tile, NEW i \in DOMAIN rx[t], rx[t][i].pkt = p
      PROVE  t = Dest(p) /\ InRx(p)
  BY <1>1, <1>2 DEF RxOK, StoredOK, InRx, ToSet
<1>3. \A i, j \in DOMAIN rx[Dest(p)] :
        rx[Dest(p)][i].pkt = p /\ rx[Dest(p)][j].pkt = p => i = j
  BY <1>1 DEF RxShape
<1>4. InRx(p) => \E i \in DOMAIN rx[Dest(p)] : rx[Dest(p)][i].pkt = p
  BY DEF InRx, ToSet
<1> QED
  BY <1>1, <1>2, <1>3, <1>4

\* An array is at one position of one RX FIFO.
LEMMA RxArrayPosition ==
  ASSUME Once, NEW q \in Dresp
  PROVE  /\ \A t \in Tile : ArrayInRx(t, q) => \E i \in DOMAIN rx[t] : rx[t][i].ptr.data = q
         /\ \A t \in Tile : \A i \in DOMAIN rx[t] : rx[t][i].ptr.data = q =>
              /\ ArrayInRx(t, q) /\ rx[t][i].pkt \in Dresp
              /\ \A u \in Tile : \A j \in DOMAIN rx[u] :
                   rx[u][j].ptr.data = q => u = t /\ j = i
<1>1. RxShape /\ RxOK /\ ArrayAt(q) /\ q # 0
  BY DrespArePackets DEF Once, Shape, Inv, ArrayOnce
<1>2. ASSUME NEW t \in Tile, NEW i \in DOMAIN rx[t], rx[t][i].ptr.data = q
      PROVE  ArrayInRx(t, q) /\ rx[t][i].pkt \in Dresp
  BY <1>1, <1>2 DEF RxOK, StoredOK, ArrayOK, NoArray, ArrayInRx, ToSet
<1>3. ASSUME NEW t \in Tile, NEW i \in DOMAIN rx[t], rx[t][i].ptr.data = q,
             NEW u \in Tile, NEW j \in DOMAIN rx[u], rx[u][j].ptr.data = q
      PROVE  u = t /\ j = i
  <2>1. ArrayInRx(t, q) /\ ArrayInRx(u, q) /\ rx[t][i].pkt \in Dresp
    BY <1>2, <1>3
  <2>2. u = t
    BY <1>1, <2>1 DEF ArrayAt
  <2> QED
    BY <1>1, <1>3, <2>1, <2>2 DEF RxShape
<1>4. \A t \in Tile : ArrayInRx(t, q) => \E i \in DOMAIN rx[t] : rx[t][i].ptr.data = q
  BY DEF ArrayInRx, ToSet
<1> QED
  BY <1>2, <1>3, <1>4

\* PacketOnce as a number of places.
LEMMA OnePlace ==
  ASSUME Once, NEW p \in created
  PROVE  Cardinality(Places(p)) = 1
<1>1. p \in Packet /\ PacketAt(p)
  BY DEF Once, Inv, TypeOK, PacketOnce
<1> DEFINE Tx(y) == \E t \in Tile : \E i \in DOMAIN tx[t] : tx[t][i] = p /\ y = <<"tx", t, 0, i>>
           Send(y) == send[p] = "header" /\ y = <<"send", p, 0, 0>>
           Net(y) == \E c \in Rank \X Rank : \E i \in DOMAIN net[c[1]][c[2]] :
                       net[c[1]][c[2]][i] = Header(p) /\ y = <<"net", c[1], c[2], i>>
           Held(y) == \E th \in Thread : HeldBy(th, p) /\ y = <<"thread", th[1], th[2], 0>>
           Rx(y) == \E t \in Tile : \E i \in DOMAIN rx[t] :
                      rx[t][i].pkt = p /\ y = <<"rx", t, 0, i>>
<1>2. \A y : y \in Places(p) <=> Tx(y) \/ Send(y) \/ Net(y) \/ Held(y) \/ Rx(y)
  <2>1. ASSUME NEW c \in Rank \X Rank, NEW i \in DOMAIN net[c[1]][c[2]]
        PROVE  net[c[1]][c[2]][i] = Header(p) <=>
                 net[c[1]][c[2]][i].tag = tag_default /\ net[c[1]][c[2]][i].pkt = p
    <3>1. net[c[1]][c[2]] \in Seq(Message)
      BY DEF Once, Inv, TypeOK
    <3>2. net[c[1]][c[2]][i] \in Message
      BY <3>1, LenProperties, ElementOfSeq
    <3> QED
      BY <3>2 DEF Message, Header
  <2> QED
    BY <1>1, <2>1, PlacesOfPacket
<1>3. ASSUME NEW y, NEW z, Tx(y), Tx(z) PROVE y = z
  BY <1>1, <1>3, TxPosition
<1>4. \A y : Tx(y) => InTx(p)
  BY <1>1, TxPosition
<1>5. ASSUME InTx(p) PROVE \E y : Tx(y)
  <2>1. PICK t \in Tile : \E i \in DOMAIN tx[t] : tx[t][i] = p
    BY <1>1, <1>5, TxPosition
  <2>2. PICK i \in DOMAIN tx[t] : tx[t][i] = p
    BY <2>1
  <2>3. Tx(<<"tx", t, 0, i>>)
    BY <2>2
  <2> QED
    BY <2>3
<1>6. ASSUME NEW y, NEW z, Net(y), Net(z) PROVE y = z
  <2>1. PICK c \in Rank \X Rank : \E i \in DOMAIN net[c[1]][c[2]] :
          net[c[1]][c[2]][i] = Header(p) /\ y = <<"net", c[1], c[2], i>>
    BY <1>6
  <2>2. PICK i \in DOMAIN net[c[1]][c[2]] :
          net[c[1]][c[2]][i] = Header(p) /\ y = <<"net", c[1], c[2], i>>
    BY <2>1
  <2>3. PICK d \in Rank \X Rank : \E j \in DOMAIN net[d[1]][d[2]] :
          net[d[1]][d[2]][j] = Header(p) /\ z = <<"net", d[1], d[2], j>>
    BY <1>6
  <2>4. PICK j \in DOMAIN net[d[1]][d[2]] :
          net[d[1]][d[2]][j] = Header(p) /\ z = <<"net", d[1], d[2], j>>
    BY <2>3
  <2>5. d = c /\ j = i
    BY <1>1, <2>2, <2>4, NetPosition
  <2> QED
    BY <2>2, <2>4, <2>5
<1>7. \A y : Net(y) => InNet(p)
  BY <1>1, NetPosition DEF InNet
<1>8. ASSUME InNet(p) PROVE \E y : Net(y)
  <2>1. PICK c \in Rank \X Rank : \E i \in DOMAIN net[c[1]][c[2]] : net[c[1]][c[2]][i] = Header(p)
    BY <1>1, <1>8, NetPosition DEF InNet
  <2>2. PICK i \in DOMAIN net[c[1]][c[2]] : net[c[1]][c[2]][i] = Header(p)
    BY <2>1
  <2>3. Net(<<"net", c[1], c[2], i>>)
    BY <2>2
  <2> QED
    BY <2>3
<1>9. ASSUME NEW y, NEW z, Held(y), Held(z) PROVE y = z
  BY <1>1, <1>9 DEF PacketAt
<1>10. \A y : Held(y) => \E th \in Thread : HeldBy(th, p)
  OBVIOUS
<1>11. (\E th \in Thread : HeldBy(th, p)) => \E y : Held(y)
  OBVIOUS
<1>12. ASSUME NEW y, NEW z, Rx(y), Rx(z) PROVE y = z
  BY <1>1, <1>12, RxPosition
<1>13. \A y : Rx(y) => InRx(p)
  BY <1>1, RxPosition
<1>14. ASSUME InRx(p) PROVE \E y : Rx(y)
  <2>1. PICK t \in Tile : \E i \in DOMAIN rx[t] : rx[t][i].pkt = p
    BY <1>1, <1>14, RxPosition
  <2>2. PICK i \in DOMAIN rx[t] : rx[t][i].pkt = p
    BY <2>1
  <2>3. Rx(<<"rx", t, 0, i>>)
    BY <2>2
  <2> QED
    BY <2>3
<1>15. /\ \A y, z : Send(y) /\ Send(z) => y = z
       /\ \A y : Send(y) => send[p] = "header"
       /\ send[p] = "header" => \E y : Send(y)
  OBVIOUS
<1> HIDE DEF Tx, Send, Net, Held, Rx
<1>16. \E y : Tx(y) \/ Send(y) \/ Net(y) \/ Held(y) \/ Rx(y)
  BY <1>1, <1>5, <1>8, <1>11, <1>14, <1>15 DEF PacketAt
<1>17. ASSUME NEW y, Tx(y) \/ Send(y) \/ Net(y) \/ Held(y) \/ Rx(y),
              NEW z, Tx(z) \/ Send(z) \/ Net(z) \/ Held(z) \/ Rx(z)
       PROVE  y = z
  BY <1>1, <1>3, <1>4, <1>6, <1>7, <1>9, <1>10, <1>12, <1>13, <1>15, <1>17 DEF PacketAt
<1>18. PICK y : y \in Places(p)
  BY <1>2, <1>16
<1>19. Places(p) = {y}
  BY <1>2, <1>17, <1>18
<1> QED
  BY <1>19, FS_Singleton

\* ArrayOnce as a number of places.
LEMMA OneArrayPlace ==
  ASSUME Once, NEW q \in created \cap Dresp
  PROVE  Cardinality(ArrayPlaces(q)) = 1
<1>1. q \in Packet /\ PacketAt(q) /\ ArrayAt(q)
  BY DEF Once, Inv, TypeOK, PacketOnce, ArrayOnce
<1> DEFINE sending == send[q] \in {"header", "headerTest", "array"}
           Tx(y) == \E t \in Tile : \E i \in DOMAIN tx[t] : tx[t][i] = q /\ y = <<"tx", t, 0, i>>
           Send(y) == sending /\ y = <<"send", q, 0, 0>>
           Net(y) == \E c \in Rank \X Rank : \E i \in DOMAIN net[c[1]][c[2]] :
                       net[c[1]][c[2]][i] = ArrayMessage(q) /\ y = <<"net", c[1], c[2], i>>
           Held(y) == \E th \in Thread : ArrayHeldBy(th, q) /\ y = <<"thread", th[1], th[2], 0>>
           Rx(y) == \E t \in Tile : \E i \in DOMAIN rx[t] :
                      rx[t][i].ptr.data = q /\ y = <<"rx", t, 0, i>>
<1>2. \A y : y \in ArrayPlaces(q) <=> Tx(y) \/ Send(y) \/ Net(y) \/ Held(y) \/ Rx(y)
  <2>1. ASSUME NEW c \in Rank \X Rank, NEW i \in DOMAIN net[c[1]][c[2]]
        PROVE  net[c[1]][c[2]][i] = ArrayMessage(q) <=>
                 net[c[1]][c[2]][i].tag # tag_default /\ net[c[1]][c[2]][i].pkt = q
    <3>1. net[c[1]][c[2]] \in Seq(Message) /\ c[1] \in Rank /\ c[2] \in Rank
      BY DEF Once, Inv, TypeOK
    <3>2. net[c[1]][c[2]][i] \in Message /\ MessageOK(net[c[1]][c[2]][i], c[2])
      BY <3>1, LenProperties, ElementOfSeq DEF Once, Inv, NetOK
    <3> QED
      BY <1>1, <3>2, TagsDiffer DEF Message, ArrayMessage, MessageOK
  <2>2. \A y : y \in ArrayPlaces(q) <=>
          \/ Tx(y) \/ Send(y)
          \/ \E c \in Rank \X Rank : \E i \in DOMAIN net[c[1]][c[2]] :
               /\ net[c[1]][c[2]][i].tag # tag_default /\ net[c[1]][c[2]][i].pkt = q
               /\ y = <<"net", c[1], c[2], i>>
          \/ Held(y) \/ Rx(y)
    BY <1>1, PlacesOfArray
  <2> HIDE DEF Tx, Send, Held, Rx
  <2> QED
    BY <2>1, <2>2
<1>3. ASSUME NEW y, NEW z, Tx(y), Tx(z) PROVE y = z
  BY <1>1, <1>3, TxPosition
<1>4. \A y : Tx(y) => InTx(q)
  BY <1>1, TxPosition
<1>5. ASSUME InTx(q) PROVE \E y : Tx(y)
  <2>1. PICK t \in Tile : \E i \in DOMAIN tx[t] : tx[t][i] = q
    BY <1>1, <1>5, TxPosition
  <2>2. PICK i \in DOMAIN tx[t] : tx[t][i] = q
    BY <2>1
  <2>3. Tx(<<"tx", t, 0, i>>)
    BY <2>2
  <2> QED
    BY <2>3
<1>6. ASSUME NEW y, NEW z, Net(y), Net(z) PROVE y = z
  <2>1. PICK c \in Rank \X Rank : \E i \in DOMAIN net[c[1]][c[2]] :
          net[c[1]][c[2]][i] = ArrayMessage(q) /\ y = <<"net", c[1], c[2], i>>
    BY <1>6
  <2>2. PICK i \in DOMAIN net[c[1]][c[2]] :
          net[c[1]][c[2]][i] = ArrayMessage(q) /\ y = <<"net", c[1], c[2], i>>
    BY <2>1
  <2>3. PICK d \in Rank \X Rank : \E j \in DOMAIN net[d[1]][d[2]] :
          net[d[1]][d[2]][j] = ArrayMessage(q) /\ z = <<"net", d[1], d[2], j>>
    BY <1>6
  <2>4. PICK j \in DOMAIN net[d[1]][d[2]] :
          net[d[1]][d[2]][j] = ArrayMessage(q) /\ z = <<"net", d[1], d[2], j>>
    BY <2>3
  <2>5. d = c /\ j = i
    BY <1>1, <2>2, <2>4, NetPosition
  <2> QED
    BY <2>2, <2>4, <2>5
<1>7. \A y : Net(y) => ArrayInNet(q)
  BY <1>1, NetPosition DEF ArrayInNet
<1>8. ASSUME ArrayInNet(q) PROVE \E y : Net(y)
  <2>1. PICK c \in Rank \X Rank : \E i \in DOMAIN net[c[1]][c[2]] : net[c[1]][c[2]][i] = ArrayMessage(q)
    BY <1>1, <1>8, NetPosition DEF ArrayInNet
  <2>2. PICK i \in DOMAIN net[c[1]][c[2]] : net[c[1]][c[2]][i] = ArrayMessage(q)
    BY <2>1
  <2>3. Net(<<"net", c[1], c[2], i>>)
    BY <2>2
  <2> QED
    BY <2>3
<1>9. ASSUME NEW y, NEW z, Held(y), Held(z) PROVE y = z
  BY <1>1, <1>9 DEF ArrayAt
<1>10. \A y : Held(y) => \E th \in Thread : ArrayHeldBy(th, q)
  OBVIOUS
<1>11. (\E th \in Thread : ArrayHeldBy(th, q)) => \E y : Held(y)
  OBVIOUS
<1>12. ASSUME NEW y, NEW z, Rx(y), Rx(z) PROVE y = z
  BY <1>12, RxArrayPosition
<1>13. \A y : Rx(y) => \E t \in Tile : ArrayInRx(t, q)
  BY RxArrayPosition
<1>14. ASSUME \E t \in Tile : ArrayInRx(t, q) PROVE \E y : Rx(y)
  <2>1. PICK t \in Tile : \E i \in DOMAIN rx[t] : rx[t][i].ptr.data = q
    BY <1>14, RxArrayPosition
  <2>2. PICK i \in DOMAIN rx[t] : rx[t][i].ptr.data = q
    BY <2>1
  <2>3. Rx(<<"rx", t, 0, i>>)
    BY <2>2
  <2> QED
    BY <2>3
<1>15. /\ \A y, z : Send(y) /\ Send(z) => y = z
       /\ \A y : Send(y) => sending
       /\ sending => \E y : Send(y)
  <2> HIDE DEF sending
  <2> QED
    OBVIOUS
<1>16. /\ Unsent(q) <=> InTx(q) \/ sending
       /\ sending => send[q] \notin {"none", "arrayTest", "sent"}
  BY DEF Unsent
<1>17. /\ InTx(q) => ~sending /\ send[q] = "none"
       /\ ArrayInNet(q) \/ (\E th \in Thread : ArrayHeldBy(th, q)) => ~Unsent(q)
  BY <1>1, <1>16 DEF PacketAt, ArrayAt
<1> HIDE DEF sending, Tx, Send, Net, Held, Rx
<1>18. \E y : Tx(y) \/ Send(y) \/ Net(y) \/ Held(y) \/ Rx(y)
  BY <1>1, <1>5, <1>8, <1>11, <1>14, <1>15, <1>16 DEF ArrayAt
<1>19. ASSUME NEW y, Tx(y) \/ Send(y) \/ Net(y) \/ Held(y) \/ Rx(y),
              NEW z, Tx(z) \/ Send(z) \/ Net(z) \/ Held(z) \/ Rx(z)
       PROVE  y = z
  BY <1>1, <1>3, <1>4, <1>6, <1>7, <1>9, <1>10, <1>12, <1>13, <1>15, <1>16, <1>17, <1>19
  DEF ArrayAt
<1>20. PICK y : y \in ArrayPlaces(q)
  BY <1>2, <1>18
<1>21. ArrayPlaces(q) = {y}
  BY <1>2, <1>19, <1>20
<1> QED
  BY <1>21, FS_Singleton

(* No packet and no array is lost or duplicated: each is in exactly one    *)
(* place, whatever threads overtake each other.                            *)
THEOREM ExactlyOnceCorrect == Spec => []ExactlyOnce
<1>1. Once => ExactlyOnce
  BY OnePlace, OneArrayPlace DEF ExactlyOnce
<1> QED
  BY OnceHolds, <1>1, PTL

-----------------------------------------------------------------------------
(* Transport is implemented *)

\* What Transport sees of the RX FIFO of a tile.
Abs(s) == [i \in DOMAIN s |-> [pkt |-> s[i].pkt, data |-> s[i].ptr.data]]

Delivered == [t \in Tile |-> Abs(rx[t])]

\* Storing a packet appends what Transport sees of it.
LEMMA AbsAppend ==
  ASSUME NEW s \in Seq(Stored), NEW e \in Stored
  PROVE  Abs(Append(s, e)) = Append(Abs(s), [pkt |-> e.pkt, data |-> e.ptr.data])
<1> DEFINE D == [pkt : Packet, data : Packet \cup {0}]
           d(x) == [pkt |-> x.pkt, data |-> x.ptr.data]
           n == Len(s)
           u == Append(s, e)
<1>1. n \in Nat /\ DOMAIN s = 1 .. n /\ \A i \in 1 .. n : s[i] \in Stored
  BY LenProperties, ElementOfSeq
<1>2. /\ u \in Seq(Stored) /\ Len(u) = n + 1
      /\ \A i \in 1 .. n : u[i] = s[i]
      /\ u[n + 1] = e
  BY AppendProperties
<1>3. DOMAIN u = 1 .. n + 1
  BY <1>2, LenProperties
<1>4. \A x \in Stored : d(x) \in D
  BY DEF Stored, Pointer
<1>5. Abs(s) = [i \in 1 .. n |-> d(s[i])] /\ Abs(u) = [i \in 1 .. n + 1 |-> d(u[i])]
  BY <1>1, <1>3 DEF Abs
<1> HIDE DEF n, u, d, D
<1>6. \A i \in 1 .. n : d(s[i]) \in D
  BY <1>1, <1>4
<1>7. Abs(s) \in Seq(D) /\ Len(Abs(s)) = n
  <2>1. Abs(s) \in [1 .. n -> D]
    BY <1>5, <1>6
  <2> QED
    BY <1>1, <2>1, FunctionIsSequence
<1>8. d(e) \in D
  BY <1>4
<1>9. /\ Append(Abs(s), d(e)) \in Seq(D) /\ Len(Append(Abs(s), d(e))) = n + 1
      /\ \A i \in 1 .. n : Append(Abs(s), d(e))[i] = Abs(s)[i]
      /\ Append(Abs(s), d(e))[n + 1] = d(e)
  BY <1>7, <1>8, AppendProperties
<1>10. Abs(u) \in Seq(D) /\ Len(Abs(u)) = n + 1
  <2>1. \A i \in 1 .. n + 1 : u[i] \in Stored
    BY <1>2, ElementOfSeq
  <2>2. Abs(u) \in [1 .. n + 1 -> D]
    BY <1>4, <1>5, <2>1
  <2>3. n + 1 \in Nat
    BY <1>1
  <2> QED
    BY <2>2, <2>3, FunctionIsSequence
<1>11. ASSUME NEW i \in 1 .. n + 1 PROVE Abs(u)[i] = Append(Abs(s), d(e))[i]
  <2>1. Abs(u)[i] = d(u[i])
    BY <1>5
  <2>2. CASE i \in 1 .. n
    <3>1. Append(Abs(s), d(e))[i] = d(s[i]) /\ u[i] = s[i]
      BY <1>2, <1>5, <1>9, <2>2
    <3> QED
      BY <2>1, <3>1
  <2>3. CASE i = n + 1
    <3>1. Append(Abs(s), d(e))[i] = d(e) /\ u[i] = e
      BY <1>2, <1>9, <2>3
    <3> QED
      BY <2>1, <3>1
  <2>4. i \in 1 .. n \/ i = n + 1
    BY <1>1
  <2> QED
    BY <2>2, <2>3, <2>4
<1>12. Abs(u) = Append(Abs(s), d(e))
  BY <1>9, <1>10, <1>11, SeqEqual
<1> QED
  BY <1>12 DEF u, d

\* A packet that is new is delivered.
LEMMA DeliverStep ==
  ASSUME Once, NEW e \in Stored, StoredOK(e, Dest(e.pkt)), e.pkt \in created,
         ~InRx(e.pkt),
         e.pkt \in Dresp => e.ptr.data \in created /\ \A u \in Tile : ~ArrayInRx(u, e.ptr.data),
         e.pkt \notin Dresp => e.ptr.data = 0,
         rx' = [rx EXCEPT ![Dest(e.pkt)] = Append(@, e)], UNCHANGED created
  PROVE  T!Next
<1> DEFINE p == e.pkt
           q == e.ptr.data
           t == Dest(p)
           new == [pkt |-> p, data |-> q]
<1>1. p \in Packet /\ q \in Packet \cup {0} /\ t \in Tile
  BY DestIsTile DEF Stored, Pointer
<1>2. rx \in [Tile -> Seq(Stored)] /\ rx[t] \in Seq(Stored)
  BY <1>1 DEF Once, Inv, TypeOK
<1>3. Delivered' = [Delivered EXCEPT ![t] = Append(@, new)]
  <2>1. Delivered' = [u \in Tile |-> Abs(rx'[u])]
    BY DEF Delivered, Abs
  <2>2. \A u \in Tile : rx'[u] = IF u = t THEN Append(rx[t], e) ELSE rx[u]
    BY <1>2
  <2>3. Abs(Append(rx[t], e)) = Append(Abs(rx[t]), new)
    BY <1>2, AbsAppend
  <2> HIDE DEF new, t
  <2>4. ASSUME NEW u \in Tile
        PROVE  Abs(rx'[u]) = IF u = t THEN Append(Delivered[t], new) ELSE Delivered[u]
    <3>1. \A v \in Tile : Delivered[v] = Abs(rx[v])
      BY DEF Delivered
    <3>2. CASE u = t
      <4>1. rx'[u] = Append(rx[t], e)
        BY <2>2, <3>2
      <4> QED
        BY <1>1, <2>3, <3>1, <3>2, <4>1
    <3>3. CASE u # t
      <4>1. rx'[u] = rx[u]
        BY <2>2, <3>3
      <4> QED
        BY <3>1, <3>3, <4>1
    <3> QED
      BY <3>2, <3>3
  <2> QED
    BY <2>1, <2>4 DEF Delivered
<1>4. \A d \in T!Deliveries : d.pkt # p /\ (p \in Dresp => d.data # q)
  <2> SUFFICES ASSUME NEW u \in Tile, NEW i \in DOMAIN rx[u]
               PROVE  rx[u][i].pkt # p /\ (p \in Dresp => rx[u][i].ptr.data # q)
    <3>1. ASSUME NEW d \in T!Deliveries
          PROVE  \E u \in Tile : \E i \in DOMAIN rx[u] :
                   d = [pkt |-> rx[u][i].pkt, data |-> rx[u][i].ptr.data]
      <4>1. T!Deliveries =
              UNION {{Delivered[u][i] : i \in DOMAIN Delivered[u]} : u \in Tile}
        BY DEF T!Deliveries, T!Tile, Tile, Delivered, Abs
      <4>2. PICK u \in Tile : d \in {Delivered[u][i] : i \in DOMAIN Delivered[u]}
        BY <4>1
      <4>3. Delivered[u] = Abs(rx[u])
        BY DEF Delivered
      <4> QED
        BY <4>2, <4>3 DEF Abs
    <3> QED
      BY <3>1
  <2>1. rx[u][i].pkt # p
    BY <1>1, RxPosition
  <2>2. p \in Dresp => rx[u][i].ptr.data # q
    BY DEF ArrayInRx, ToSet
  <2> QED
    BY <2>1, <2>2
<1>5. p \in Dresp => q \in created \cap Dresp /\ Flow(q) = Flow(p)
  BY DEF StoredOK, ArrayOK
<1>6. T!Deliver(p, q)
  BY <1>3, <1>4, <1>5 DEF T!Deliver, T!Flow, T!Dest, Flow, Dest, Delivered, Abs
<1> QED
  BY <1>1, <1>6 DEF T!Next

(* Every step of the transport is a step of Transport or changes nothing   *)
(* that Transport sees.                                                    *)
LEMMA StepImplements ==
  ASSUME Once, [Next]_vars
  PROVE  [T!Next]_(T!vars)
<1>1. ASSUME UNCHANGED created, UNCHANGED rx PROVE UNCHANGED T!vars
  BY <1>1 DEF T!vars
<1>2. CASE UNCHANGED vars
  BY <1>1, <1>2 DEF vars
<1>3. ASSUME NEW p \in Packet, Create(p) \/ SendStep(p) PROVE [T!Next]_(T!vars)
  <2>1. CASE Create(p)
    <3>1. T!Create(p)
      BY <2>1 DEF Create, T!Create
    <3> QED
      BY <3>1 DEF T!Next
  <2>2. CASE SendStep(p)
    BY <1>1, <2>2 DEF SendStep, PostHeader, HeaderSent, PostArray, ArraySent
  <2> QED
    BY <1>3, <2>1, <2>2
<1>4. ASSUME NEW t \in Tile, TileStep(t) PROVE [T!Next]_(T!vars)
  <2>1. CASE BeginTransmit(t) \/ EndTransmit(t) \/ TransmitRemote(t)
    BY <1>1, <2>1 DEF BeginTransmit, EndTransmit, TransmitRemote
  <2>2. CASE TransmitLocal(t)
    <3> DEFINE p == Head(tx[t])
               e == [pkt |-> p, ptr |-> OwnPointer(p)]
    <3>1. /\ tx[t] # <<>> /\ tx' = [tx EXCEPT ![t] = Tail(@)] /\ UNCHANGED created
          /\ rx' = [rx EXCEPT ![Dest(e.pkt)] = Append(@, e)]
      BY <2>2 DEF TransmitLocal
    <3>2. p \in Packet /\ InTx(p)
      BY <3>1, PopTx
    <3>3. e \in Stored /\ StoredOK(e, Dest(e.pkt))
      BY <3>2, RanksOfPacket DEF Stored, StoredOK, ArrayOK, OwnPointer
    <3>4. p \in created /\ ~InRx(p)
      BY <3>2 DEF Once, PacketOnce, PacketAt
    <3>5. p \in Dresp => \A u \in Tile : ~ArrayInRx(u, p)
      BY <3>2 DEF Once, ArrayOnce, ArrayAt, Unsent
    <3>6. e.pkt = p /\ (p \in Dresp => e.ptr.data = p) /\ (p \notin Dresp => e.ptr.data = 0)
      BY DEF OwnPointer, NoArray
    <3> HIDE DEF p, e
    <3>7. T!Next
      BY <3>1, <3>3, <3>4, <3>5, <3>6, DeliverStep
    <3> QED
      BY <3>7
  <2> QED
    BY <1>4, <2>1, <2>2 DEF TileStep
<1>5. ASSUME NEW th \in Thread, ThreadStep(th) PROVE [T!Next]_(T!vars)
  <2>1. CASE ReceiveHeader(th) \/ ReceiveArray(th)
    BY <1>1, <2>1 DEF ReceiveHeader, ReceiveArray
  <2>2. CASE Store(th)
    <3> DEFINE p == recv[th].pkt
               a == recv[th].ptr.data
               e == [pkt |-> p, ptr |-> recv[th].ptr]
    <3>1. /\ recv[th].pc = "store" /\ UNCHANGED created
          /\ rx' = [rx EXCEPT ![Dest(e.pkt)] = Append(@, e)]
      BY <2>2 DEF Store, StoreDest
    <3>2. /\ p \in Packet /\ HeldBy(th, p) /\ e \in Stored /\ StoredOK(e, Dest(p)) /\ ~InRx(p)
          /\ p \in Dresp => a \in Dresp /\ ArrayHeldBy(th, a) /\ \A u \in Tile : ~ArrayInRx(u, a)
          /\ p \notin Dresp => a = 0
      BY <3>1, StoreIsNew
    <3>3. p \in created
      BY <3>2 DEF Once, PacketOnce, PacketAt
    <3>4. p \in Dresp => a \in created
      BY <3>2 DEF Once, ArrayOnce, ArrayAt
    <3>5. e.pkt = p /\ e.ptr.data = a
      OBVIOUS
    <3> HIDE DEF p, a, e
    <3>6. T!Next
      BY <3>1, <3>2, <3>3, <3>4, <3>5, DeliverStep
    <3> QED
      BY <3>6
  <2> QED
    BY <1>5, <2>1, <2>2 DEF ThreadStep
<1> QED
  BY <1>2, <1>3, <1>4, <1>5 DEF Next

(* The transport of packets implements Transport: every packet is put at   *)
(* most once into the RX FIFO of its tile, with an array of its flow that  *)
(* no other packet arrives with.                                           *)
THEOREM TransportImplemented == Spec => TransportSpec
<1>1. Init => T!Init
  <2> SUFFICES ASSUME Init PROVE T!Init
    OBVIOUS
  <2>1. created = {} /\ \A t \in Tile : rx[t] = <<>>
    BY DEF Init
  <2>2. Abs(<<>>) = <<>>
    BY DEF Abs
  <2>3. \A t \in Tile : Abs(rx[t]) = <<>>
    BY <2>1, <2>2
  <2> QED
    BY <2>1, <2>3 DEF T!Init, T!Tile, Tile, Abs
<1>2. Once /\ [Next]_vars => [T!Next]_(T!vars)
  BY StepImplements
<1> QED
  BY OnceHolds, <1>1, <1>2, PTL DEF Spec, TransportSpec, T!Spec

-----------------------------------------------------------------------------
(* What is expected and what comes *)

(* The packet of array q is on its way, or a thread waits for the array.   *)
WaitsFor(th, q) == recv[th].pc = "awaitArray" /\ recv[th].pkt = q
Expected(q) == InNet(q) \/ \E th \in Thread : WaitsFor(th, q)

(* The packet of array q is posted and the array is not yet received.      *)
Coming(q) == send[q] \in {"headerTest", "array"} \/ ArrayInNet(q)

(* Arrays that threads cannot tell apart.                                  *)
SameTag(q, p) == DestRank(q) = DestRank(p) /\ DataTag(q) = DataTag(p)

ExpectedLike(p) == {q \in Dresp : SameTag(q, p) /\ Expected(q)}
ComingLike(p) == {q \in Dresp : SameTag(q, p) /\ Coming(q)}

(* As many arrays come as are expected: a receiver may take the array of   *)
(* another packet, which leaves its own to be taken by others.             *)
Balance ==
  \A p \in Dresp : Cardinality(ExpectedLike(p)) = Cardinality(ComingLike(p))

Waiting == Once /\ IsFiniteSet(created) /\ Balance

\* The packets that are counted are created, so that they are finitely many.
LEMMA CountedAreFinite ==
  ASSUME Waiting, NEW p
  PROVE  IsFiniteSet(ExpectedLike(p)) /\ IsFiniteSet(ComingLike(p))
<1>1. /\ \A q \in Dresp : q \in Packet /\ PacketAt(q) /\ ArrayAt(q)
      /\ IsFiniteSet(created)
  BY DrespArePackets DEF Waiting, Once, PacketOnce, ArrayOnce
<1>2. \A q \in Dresp : Expected(q) => q \in created
  BY <1>1 DEF PacketAt, Expected, WaitsFor, HeldBy
<1>3. \A q \in Dresp : Coming(q) => q \in created
  BY <1>1 DEF PacketAt, ArrayAt, Coming
<1>4. ExpectedLike(p) \in SUBSET created /\ ComingLike(p) \in SUBSET created
  BY <1>2, <1>3 DEF ExpectedLike, ComingLike
<1> QED
  BY <1>1, <1>4, FS_Subset

\* A step changes what is counted, never whether tags are the same.
LEMMA SameTagNext ==
  /\ \A q, p : SameTag(q, p)' = SameTag(q, p)
  /\ \A p : /\ ExpectedLike(p)' = {q \in Dresp : SameTag(q, p) /\ Expected(q)'}
            /\ ComingLike(p)' = {q \in Dresp : SameTag(q, p) /\ Coming(q)'}
<1>1. \A q, p : SameTag(q, p)' = SameTag(q, p)
  BY DEF SameTag, DestRank, DataTag, create_tag, Dest, RankOf
<1> QED
  BY <1>1 DEF ExpectedLike, ComingLike

\* What is counted stays the same.
LEMMA BalanceSame ==
  ASSUME Balance, \A q \in Dresp : (Expected(q)' <=> Expected(q)) /\ (Coming(q)' <=> Coming(q))
  PROVE  Balance'
<1>1. ASSUME NEW p \in Dresp
      PROVE  ExpectedLike(p)' = ExpectedLike(p) /\ ComingLike(p)' = ComingLike(p)
  BY SameTagNext DEF ExpectedLike, ComingLike
<1> QED
  BY <1>1 DEF Balance

\* Packet a is posted: it is expected, and it comes.
LEMMA BalanceMore ==
  ASSUME Waiting, NEW a \in Dresp, ~Expected(a), ~Coming(a),
         \A q \in Dresp : /\ Expected(q)' <=> Expected(q) \/ q = a
                          /\ Coming(q)' <=> Coming(q) \/ q = a
  PROVE  Balance'
<1>1. ASSUME NEW p \in Dresp
      PROVE  Cardinality(ExpectedLike(p)') = Cardinality(ComingLike(p)')
  <2>1. /\ Cardinality(ExpectedLike(p)) = Cardinality(ComingLike(p))
        /\ IsFiniteSet(ExpectedLike(p)) /\ IsFiniteSet(ComingLike(p))
    BY CountedAreFinite DEF Waiting, Balance
  <2>2. CASE SameTag(a, p)
    <3>1. /\ ExpectedLike(p)' = ExpectedLike(p) \cup {a} /\ a \notin ExpectedLike(p)
          /\ ComingLike(p)' = ComingLike(p) \cup {a} /\ a \notin ComingLike(p)
      BY <2>2, SameTagNext DEF ExpectedLike, ComingLike
    <3>2. /\ Cardinality(ExpectedLike(p) \cup {a}) = Cardinality(ExpectedLike(p)) + 1
          /\ Cardinality(ComingLike(p) \cup {a}) = Cardinality(ComingLike(p)) + 1
      BY <2>1, <3>1, FS_AddElement
    <3> QED
      BY <2>1, <3>1, <3>2, Zenon
  <2>3. CASE ~SameTag(a, p)
    <3>1. ExpectedLike(p)' = ExpectedLike(p) /\ ComingLike(p)' = ComingLike(p)
      BY <2>3, SameTagNext DEF ExpectedLike, ComingLike
    <3> QED
      BY <2>1, <3>1
  <2> QED
    BY <2>2, <2>3
<1> QED
  BY <1>1 DEF Balance

\* A thread that waits for array b takes array a.
LEMMA BalanceLess ==
  ASSUME Waiting, NEW a \in Dresp, NEW b \in Dresp, SameTag(a, b), Expected(b), Coming(a),
         \A q \in Dresp : /\ Expected(q)' <=> Expected(q) /\ q # b
                          /\ Coming(q)' <=> Coming(q) /\ q # a
  PROVE  Balance'
<1>1. ASSUME NEW p \in Dresp
      PROVE  Cardinality(ExpectedLike(p)') = Cardinality(ComingLike(p)')
  <2>1. /\ Cardinality(ExpectedLike(p)) = Cardinality(ComingLike(p))
        /\ IsFiniteSet(ExpectedLike(p)) /\ IsFiniteSet(ComingLike(p))
    BY CountedAreFinite DEF Waiting, Balance
  <2>2. SameTag(a, p) <=> SameTag(b, p)
    BY DEF SameTag
  <2>3. CASE SameTag(a, p)
    <3>1. /\ ExpectedLike(p)' = ExpectedLike(p) \ {b} /\ b \in ExpectedLike(p)
          /\ ComingLike(p)' = ComingLike(p) \ {a} /\ a \in ComingLike(p)
      BY <2>2, <2>3, SameTagNext DEF ExpectedLike, ComingLike
    <3>2. /\ Cardinality(ExpectedLike(p) \ {b}) = Cardinality(ExpectedLike(p)) - 1
          /\ Cardinality(ComingLike(p) \ {a}) = Cardinality(ComingLike(p)) - 1
      BY <2>1, <3>1, FS_RemoveElement
    <3> QED
      BY <2>1, <3>1, <3>2, Zenon
  <2>4. CASE ~SameTag(a, p)
    <3>1. ExpectedLike(p)' = ExpectedLike(p) /\ ComingLike(p)' = ComingLike(p)
      BY <2>2, <2>4, SameTagNext DEF ExpectedLike, ComingLike
    <3> QED
      BY <2>1, <3>1
  <2> QED
    BY <2>3, <2>4
<1> QED
  BY <1>1 DEF Balance

\* A step that moves no message and no thread, and posts no packet.
LEMMA QuietBalance ==
  ASSUME Waiting, UNCHANGED net, UNCHANGED recv,
         \A q \in Dresp : send'[q] \in {"headerTest", "array"}
                            <=> send[q] \in {"headerTest", "array"}
  PROVE  Balance'
<1>1. \A q \in Dresp : (Expected(q)' <=> Expected(q)) /\ (Coming(q)' <=> Coming(q))
  BY SameNet, DrespArePackets DEF Expected, WaitsFor, Coming
<1> QED
  BY <1>1, BalanceSame DEF Waiting

\* Posting a packet adds to both numbers; its array then stays counted.
LEMMA SendBalance ==
  ASSUME Waiting, NEW p \in Packet, SendStep(p)
  PROVE  Balance'
<1>1. /\ Once /\ PacketAt(p) /\ UNCHANGED recv /\ send \in [Packet -> Sending \cup {"none", "sent"}]
      /\ (p \in Dresp => ArrayAt(p))
  BY DEF Waiting, Once, Inv, TypeOK, PacketOnce, ArrayOnce,
         SendStep, PostHeader, HeaderSent, PostArray, ArraySent
<1>2. ASSUME NEW st, send' = [send EXCEPT ![p] = st]
      PROVE  \A q \in Packet : send'[q] = IF q = p THEN st ELSE send[q]
  BY <1>1, <1>2
<1>3. \A q \in Dresp : (\E th \in Thread : WaitsFor(th, q))' <=> \E th \in Thread : WaitsFor(th, q)
  BY <1>1 DEF WaitsFor
<1>4. CASE PostHeader(p)
  <2> DEFINE m == Header(p)
  <2>1. /\ send[p] = "header" /\ send' = [send EXCEPT ![p] = "headerTest"]
        /\ net' = [net EXCEPT ![SourceRank(p)][DestRank(p)] = Append(@, m)]
    BY <1>4 DEF PostHeader, Header
  <2>2. m \in Message /\ m.pkt = p
    BY DEF Header, Message
  <2>3. m \notin MessagesOf(p)
    BY <1>1, <2>1 DEF PacketAt, InNet
  <2> HIDE DEF m
  <2>4. \A q \in Packet : /\ InNet(q)' <=> InNet(q) \/ Header(q) = m
                          /\ ArrayInNet(q)' <=> ArrayInNet(q) \/ ArrayMessage(q) = m
    BY <1>1, <2>1, <2>2, <2>3, SendMessage
  <2>5. \A q \in Packet : (Header(q) = m <=> q = p) /\ ArrayMessage(q) # m
    BY TagsDiffer DEF m, Header, ArrayMessage
  <2>6. \A q \in Packet : send'[q] = IF q = p THEN "headerTest" ELSE send[q]
    BY <1>2, <2>1
  <2>7. \A q \in Dresp : /\ Expected(q)' <=> Expected(q) \/ q = p
                         /\ Coming(q)' <=> Coming(q) \/ q = p
    BY <1>3, <2>4, <2>5, <2>6, DrespArePackets DEF Expected, Coming
  <2>8. CASE p \in Dresp
    <3>1. ~Expected(p) /\ ~Coming(p)
      BY <1>1, <2>1, <2>8 DEF PacketAt, ArrayAt, Expected, WaitsFor, HeldBy, Coming
    <3> QED
      BY <2>7, <2>8, <3>1, BalanceMore
  <2>9. CASE p \notin Dresp
    BY <2>7, <2>9, BalanceSame DEF Waiting
  <2> QED
    BY <2>8, <2>9
<1>5. CASE HeaderSent(p)
  <2>1. /\ send[p] = "headerTest" /\ UNCHANGED net
        /\ send' = [send EXCEPT ![p] = IF p \in Dresp THEN "array" ELSE "sent"]
    BY <1>5 DEF HeaderSent
  <2>2. \A q \in Packet :
          send'[q] = IF q = p THEN (IF p \in Dresp THEN "array" ELSE "sent") ELSE send[q]
    BY <1>2, <2>1
  <2> QED
    BY <1>1, <2>1, <2>2, QuietBalance, DrespArePackets
<1>6. CASE PostArray(p)
  <2> DEFINE m == ArrayMessage(p)
  <2>1. /\ send[p] = "array" /\ send' = [send EXCEPT ![p] = "arrayTest"]
        /\ net' = [net EXCEPT ![SourceRank(p)][DestRank(p)] = Append(@, m)]
    BY <1>6 DEF PostArray, ArrayMessage, SentTag
  <2>2. m \in Message /\ m.pkt = p /\ p \in Dresp
    BY <1>1, <2>1 DEF ArrayMessage, Message, Once, Inv, SendOK
  <2>3. m \notin MessagesOf(p)
    BY <1>1, <2>1, <2>2 DEF ArrayAt, ArrayInNet
  <2> HIDE DEF m
  <2>4. \A q \in Packet : /\ InNet(q)' <=> InNet(q) \/ Header(q) = m
                          /\ ArrayInNet(q)' <=> ArrayInNet(q) \/ ArrayMessage(q) = m
    BY <1>1, <2>1, <2>2, <2>3, SendMessage
  <2>5. \A q \in Packet : (ArrayMessage(q) = m <=> q = p) /\ Header(q) # m
    BY TagsDiffer DEF m, Header, ArrayMessage
  <2>6. \A q \in Packet : send'[q] = IF q = p THEN "arrayTest" ELSE send[q]
    BY <1>2, <2>1
  <2>7. \A q \in Dresp : (Expected(q)' <=> Expected(q)) /\ (Coming(q)' <=> Coming(q))
    BY <1>3, <2>1, <2>4, <2>5, <2>6, DrespArePackets DEF Expected, Coming
  <2> QED
    BY <2>7, BalanceSame DEF Waiting
<1>7. CASE ArraySent(p)
  <2>1. /\ send[p] = "arrayTest" /\ UNCHANGED net /\ send' = [send EXCEPT ![p] = "sent"]
    BY <1>7 DEF ArraySent
  <2>2. \A q \in Packet : send'[q] = IF q = p THEN "sent" ELSE send[q]
    BY <1>2, <2>1
  <2> QED
    BY <1>1, <2>1, <2>2, QuietBalance, DrespArePackets
<1> QED
  BY <1>4, <1>5, <1>6, <1>7 DEF SendStep

\* The state of one thread changes.
LEMMA WaitMoves ==
  ASSUME Once, NEW th \in Thread, NEW st, recv' = [recv EXCEPT ![th] = st]
  PROVE  \A h \in Thread, q \in Packet :
           WaitsFor(h, q)' <=> IF h = th THEN st.pc = "awaitArray" /\ st.pkt = q
                                         ELSE WaitsFor(h, q)
BY DEF WaitsFor, Once, Inv, TypeOK

\* A packet that is received stays expected, by the thread.
LEMMA ReceiveHeaderBalance ==
  ASSUME Waiting, NEW th \in Thread, ReceiveHeader(th)
  PROVE  Balance'
<1>1. Once /\ th[1] \in Rank
  BY DEF Waiting, Thread
<1>2. UNCHANGED send /\ recv[th].pc = "listen"
  BY DEF ReceiveHeader
<1>3. PICK s \in Rank : \E i \in DOMAIN net[s][th[1]] :
        /\ net[s][th[1]][i].tag = tag_default
        /\ Take(s, th[1], i)
        /\ LET p == net[s][th[1]][i].pkt IN
             recv' = [recv EXCEPT
                        ![th] = [pc |-> IF p \in Dresp THEN "awaitArray" ELSE "store",
                                 pkt |-> p, ptr |-> OwnPointer(p)]]
  BY DEF ReceiveHeader, Matches
<1>4. PICK i \in DOMAIN net[s][th[1]] :
        /\ net[s][th[1]][i].tag = tag_default
        /\ Take(s, th[1], i)
        /\ LET p == net[s][th[1]][i].pkt IN
             recv' = [recv EXCEPT
                        ![th] = [pc |-> IF p \in Dresp THEN "awaitArray" ELSE "store",
                                 pkt |-> p, ptr |-> OwnPointer(p)]]
  BY <1>3
<1> DEFINE m == net[s][th[1]][i]
           p == m.pkt
           st == [pc |-> IF p \in Dresp THEN "awaitArray" ELSE "store",
                  pkt |-> p, ptr |-> OwnPointer(p)]
<1>5. /\ m \in Message /\ p \in Packet /\ m \in MessagesOf(p)
      /\ \A q \in Packet : /\ InNet(q)' <=> InNet(q) /\ Header(q) # m
                           /\ ArrayInNet(q)' <=> ArrayInNet(q) /\ ArrayMessage(q) # m
  BY <1>1, <1>4, ReceiveMessage
<1>6. m.tag = tag_default /\ recv' = [recv EXCEPT ![th] = st]
  BY <1>4
<1>7. (st.pc = "awaitArray" <=> p \in Dresp) /\ st.pkt = p
  OBVIOUS
<1> HIDE DEF m, st
<1>8. m = Header(p)
  BY <1>5, <1>6 DEF Message, Header
<1>9. \A q \in Packet : (Header(q) = m <=> q = p) /\ ArrayMessage(q) # m
  BY <1>5, <1>8, TagsDiffer DEF Header, ArrayMessage
<1>10. InNet(p)
  BY <1>5, <1>8 DEF InNet
<1> HIDE DEF p
<1>11. \A q \in Dresp, h \in Thread :
         WaitsFor(h, q)' <=> IF h = th THEN q = p ELSE WaitsFor(h, q)
  BY <1>1, <1>6, <1>7, WaitMoves, DrespArePackets
<1>12. \A q \in Dresp : ~WaitsFor(th, q)
  BY <1>2 DEF WaitsFor
<1>13. ASSUME NEW q \in Dresp
       PROVE  (Expected(q)' <=> Expected(q)) /\ (Coming(q)' <=> Coming(q))
  <2>1. Coming(q)' <=> Coming(q)
    BY <1>2, <1>5, <1>9, DrespArePackets DEF Coming
  <2>2. Expected(q)' <=> InNet(q)' \/ \E h \in Thread : WaitsFor(h, q)'
    BY DEF Expected
  <2>3. CASE q = p
    BY <1>10, <1>11, <2>1, <2>2, <2>3 DEF Expected
  <2>4. CASE q # p
    <3>1. InNet(q)' <=> InNet(q)
      BY <1>5, <1>9, <2>4, DrespArePackets
    <3>2. \A h \in Thread : WaitsFor(h, q)' <=> WaitsFor(h, q)
      BY <1>11, <1>12, <2>4
    <3> QED
      BY <2>1, <2>2, <3>1, <3>2 DEF Expected
  <2> QED
    BY <2>3, <2>4
<1> QED
  BY <1>13, BalanceSame DEF Waiting

\* Receiving an array takes one from both numbers.
LEMMA ReceiveArrayBalance ==
  ASSUME Waiting, NEW th \in Thread, ReceiveArray(th)
  PROVE  Balance'
<1>1. /\ Once /\ PacketOnce /\ ArrayOnce /\ th[1] \in Rank
      /\ recv[th] \in ThreadState /\ ThreadOK(recv[th], th[1])
  BY DEF Waiting, Once, Thread, Inv, TypeOK, RecvOK
<1>2. UNCHANGED send /\ recv[th].pc = "awaitArray"
  BY DEF ReceiveArray
<1>3. PICK s \in Rank : \E i \in DOMAIN net[s][th[1]] :
        /\ net[s][th[1]][i].tag = DataTag(recv[th].pkt)
        /\ Take(s, th[1], i)
        /\ recv' = [recv EXCEPT ![th].pc = "store",
                                ![th].ptr = [space |-> th[1], data |-> net[s][th[1]][i].pkt]]
  BY DEF ReceiveArray, NewWord, Matches
<1>4. PICK i \in DOMAIN net[s][th[1]] :
        /\ net[s][th[1]][i].tag = DataTag(recv[th].pkt)
        /\ Take(s, th[1], i)
        /\ recv' = [recv EXCEPT ![th].pc = "store",
                                ![th].ptr = [space |-> th[1], data |-> net[s][th[1]][i].pkt]]
  BY <1>3
<1> DEFINE m == net[s][th[1]][i]
           a == m.pkt
           b == recv[th].pkt
           st == [recv[th] EXCEPT !.pc = "store", !.ptr = [space |-> th[1], data |-> a]]
<1>5. /\ m \in Message /\ a \in Packet /\ m \in MessagesOf(a) /\ DestRank(a) = th[1]
      /\ \A q \in Packet : /\ InNet(q)' <=> InNet(q) /\ Header(q) # m
                           /\ ArrayInNet(q)' <=> ArrayInNet(q) /\ ArrayMessage(q) # m
  BY <1>1, <1>4, ReceiveMessage
<1>6. MessageOK(m, th[1])
  BY <1>1, <1>4, TakeKeepsNet DEF Once, Inv
<1>7. b \in Dresp /\ b \in Packet /\ DestRank(b) = th[1] /\ m.tag = DataTag(b) /\ m.tag # tag_default
  BY <1>1, <1>2, <1>4, TagsDiffer DEF ThreadOK
<1>8. a \in Dresp /\ m = ArrayMessage(a)
  BY <1>5, <1>6, <1>7 DEF Message, MessageOK, ArrayMessage
<1>9. SameTag(a, b)
  BY <1>5, <1>7, <1>8 DEF SameTag, ArrayMessage
<1>10. recv' = [recv EXCEPT ![th] = st]
  BY <1>1, <1>4 DEF ThreadState, Once, Inv, TypeOK
<1>11. st.pc = "store"
  BY <1>1 DEF ThreadState
<1>12. WaitsFor(th, b) /\ HeldBy(th, b)
  BY <1>2 DEF WaitsFor, HeldBy
<1> HIDE DEF m, st, b
<1>13. \A q \in Packet : (ArrayMessage(q) = m <=> q = a) /\ Header(q) # m
  BY <1>5, <1>8, TagsDiffer DEF Header, ArrayMessage
<1>14. ArrayInNet(a)
  BY <1>5, <1>8 DEF ArrayInNet
<1> HIDE DEF a
<1>15. \A q \in Dresp, h \in Thread : WaitsFor(h, q)' <=> WaitsFor(h, q) /\ h # th
  BY <1>1, <1>10, <1>11, WaitMoves, DrespArePackets
<1>16. \A q \in Dresp : WaitsFor(th, q) <=> q = b
  BY <1>2 DEF WaitsFor, b
<1>17. ASSUME NEW q \in Dresp PROVE Expected(q)' <=> Expected(q) /\ q # b
  <2>1. Expected(q)' <=> InNet(q) \/ \E h \in Thread : WaitsFor(h, q) /\ h # th
    BY <1>5, <1>13, <1>15, DrespArePackets DEF Expected
  <2>2. CASE q = b
    <3>1. PacketAt(b)
      BY <1>1, <1>7 DEF PacketOnce
    <3>2. ~InNet(b) /\ \A h \in Thread : HeldBy(h, b) => h = th
      BY <1>12, <3>1 DEF PacketAt
    <3>3. \A h \in Thread : WaitsFor(h, b) => h = th
      BY <3>2 DEF WaitsFor, HeldBy
    <3> QED
      BY <2>1, <2>2, <3>2, <3>3
  <2>3. CASE q # b
    BY <1>16, <2>1, <2>3 DEF Expected
  <2> QED
    BY <2>2, <2>3
<1>18. ASSUME NEW q \in Dresp PROVE Coming(q)' <=> Coming(q) /\ q # a
  <2>1. send[a] \notin {"headerTest", "array"}
    BY <1>1, <1>8, <1>14 DEF ArrayOnce, ArrayAt
  <2> QED
    BY <1>2, <1>5, <1>13, <2>1, DrespArePackets DEF Coming
<1>19. Expected(b) /\ Coming(a)
  BY <1>12, <1>14 DEF Expected, Coming
<1> QED
  BY <1>7, <1>8, <1>9, <1>17, <1>18, <1>19, BalanceLess

\* A thread that stores does not wait.
LEMMA StoreBalance ==
  ASSUME Waiting, NEW th \in Thread, Store(th)
  PROVE  Balance'
<1>1. /\ UNCHANGED send /\ UNCHANGED net /\ recv[th].pc = "store"
      /\ recv' = [recv EXCEPT ![th] = Listening] /\ Once
  BY DEF Store, Waiting
<1>2. \A q \in Dresp, h \in Thread : WaitsFor(h, q)' <=> WaitsFor(h, q)
  <2>1. Listening.pc # "awaitArray" /\ \A q \in Dresp : ~WaitsFor(th, q)
    BY <1>1 DEF Listening, WaitsFor
  <2> QED
    BY <1>1, <2>1, WaitMoves, DrespArePackets
<1>3. \A q \in Dresp : (Expected(q)' <=> Expected(q)) /\ (Coming(q)' <=> Coming(q))
  BY <1>1, <1>2, SameNet, DrespArePackets DEF Expected, Coming
<1> QED
  BY <1>3, BalanceSame DEF Waiting

\* A tile's thread posts nothing itself.
LEMMA TileBalance ==
  ASSUME Waiting, NEW t \in Tile, TileStep(t)
  PROVE  Balance'
<1>1. UNCHANGED net /\ UNCHANGED recv
  BY DEF TileStep, BeginTransmit, TransmitLocal, TransmitRemote, EndTransmit
<1>2. CASE UNCHANGED send
  BY <1>1, <1>2, QuietBalance
<1>3. CASE TransmitRemote(t)
  <2> DEFINE p == Head(tx[t])
  <2>1. /\ tx[t] # <<>> /\ tx' = [tx EXCEPT ![t] = Tail(@)]
        /\ send' = [send EXCEPT ![p] = "header"]
    BY <1>3 DEF TransmitRemote, TxPop
  <2>2. p \in Packet /\ InTx(p)
    BY <2>1, PopTx DEF Waiting
  <2> HIDE DEF p
  <2>3. send[p] = "none"
    BY <2>2 DEF Waiting, Once, PacketOnce, PacketAt
  <2>4. \A q \in Packet : send'[q] = IF q = p THEN "header" ELSE send[q]
    BY <2>1 DEF Waiting, Once, Inv, TypeOK
  <2> QED
    BY <1>1, <2>3, <2>4, QuietBalance, DrespArePackets
<1> QED
  BY <1>2, <1>3 DEF TileStep, BeginTransmit, TransmitLocal, EndTransmit

\* What is counted is enough for the threads of a process that wait.
LEMMA EnoughArrays ==
  ASSUME Waiting
  PROVE  NoOrphanWait
<1> SUFFICES ASSUME NEW r \in Rank, NEW w \in Thread, w[1] = r, recv[w].pc = "awaitArray"
             PROVE  LET tag == DataTag(recv[w].pkt)
                        waiting == {th \in Thread : /\ th[1] = r
                                                    /\ recv[th].pc = "awaitArray"
                                                    /\ DataTag(recv[th].pkt) = tag}
                        coming == {p \in Dresp :
                                     /\ DestRank(p) = r
                                     /\ DataTag(p) = tag
                                     /\ \/ send[p] \in {"headerTest", "array"}
                                        \/ \E m \in {net[SourceRank(p)][r][i] :
                                               i \in DOMAIN net[SourceRank(p)][r]} :
                                             m.tag = tag /\ m.pkt = p}
                    IN  Cardinality(waiting) <= Cardinality(coming)
  BY DEF NoOrphanWait
<1> DEFINE p == recv[w].pkt
           tag == DataTag(p)
           waiting == {th \in Thread : /\ th[1] = r /\ recv[th].pc = "awaitArray"
                                       /\ DataTag(recv[th].pkt) = tag}
           coming == {q \in Dresp :
                        /\ DestRank(q) = r
                        /\ DataTag(q) = tag
                        /\ \/ send[q] \in {"headerTest", "array"}
                           \/ \E m \in {net[SourceRank(q)][r][i] :
                                  i \in DOMAIN net[SourceRank(q)][r]} :
                                m.tag = tag /\ m.pkt = q}
           f == [th \in waiting |-> recv[th].pkt]
<1>1. /\ TypeOK /\ RecvOK /\ PacketOnce
      /\ \A th \in Thread : recv[th].pc = "awaitArray" =>
           recv[th].pkt \in Dresp /\ DestRank(recv[th].pkt) = th[1]
  BY DEF Waiting, Once, Inv, RecvOK, ThreadOK
<1>2. p \in Dresp /\ DestRank(p) = r
  BY <1>1
<1> HIDE DEF p
<1>3. \A th \in waiting : WaitsFor(th, recv[th].pkt) /\ recv[th].pkt \in ExpectedLike(p)
  BY <1>1, <1>2 DEF ExpectedLike, Expected, WaitsFor, SameTag
<1>4. ASSUME NEW th \in waiting, NEW h \in waiting, recv[th].pkt = recv[h].pkt
      PROVE  th = h
  <2>1. HeldBy(th, recv[th].pkt) /\ HeldBy(h, recv[th].pkt) /\ recv[th].pkt \in Packet
    BY <1>1, <1>4, DrespArePackets DEF HeldBy
  <2>2. PacketAt(recv[th].pkt)
    BY <1>1, <2>1 DEF PacketOnce
  <2> QED
    BY <2>1, <2>2 DEF PacketAt
<1>5. coming = ComingLike(p)
  <2>1. ASSUME NEW q \in Dresp, DestRank(q) = r, DataTag(q) = tag
        PROVE  ArrayInNet(q) <=> \E m \in {net[SourceRank(q)][r][i] :
                                      i \in DOMAIN net[SourceRank(q)][r]} :
                                   m.tag = tag /\ m.pkt = q
    <3>1. SourceRank(q) \in Rank /\ net[SourceRank(q)][r] \in Seq(Message)
      BY <1>1, RanksOfPacket, DrespArePackets DEF TypeOK
    <3>2. \A i \in DOMAIN net[SourceRank(q)][r] : net[SourceRank(q)][r][i] \in Message
      BY <3>1, LenProperties, ElementOfSeq
    <3>3. \A m \in Message : m = ArrayMessage(q) <=> m.tag = tag /\ m.pkt = q
      BY <2>1 DEF Message, ArrayMessage
    <3> HIDE DEF tag
    <3> QED
      BY <2>1, <3>2, <3>3 DEF ArrayInNet, MessagesOf, ToSet
  <2> QED
    BY <1>2, <2>1 DEF ComingLike, Coming, SameTag
<1>6. /\ Cardinality(ExpectedLike(p)) = Cardinality(ComingLike(p))
      /\ IsFiniteSet(ExpectedLike(p))
  BY <1>2, CountedAreFinite DEF Waiting, Balance
<1>7. f \in Injection(waiting, ExpectedLike(p))
  <2>1. f \in [waiting -> ExpectedLike(p)]
    BY <1>3
  <2>2. \A th, h \in waiting : f[th] = f[h] => th = h
    BY <1>4
  <2> HIDE DEF f, waiting
  <2> QED
    BY <2>1, <2>2 DEF Injection, IsInjective
<1>8. Cardinality(waiting) <= Cardinality(ExpectedLike(p))
  <2> HIDE DEF f, waiting
  <2> QED
    BY <1>6, <1>7, FS_Injection
<1> HIDE DEF waiting, coming, f
<1>9. Cardinality(waiting) <= Cardinality(coming)
  BY <1>5, <1>6, <1>8
<1> QED
  BY <1>9 DEF waiting, coming, tag, p

(* A receiving thread that waits for an array does not wait in vain: for   *)
(* the threads that wait with one tag as many arrays are still to come.    *)
THEOREM NoOrphanWaitCorrect == Spec => []NoOrphanWait
<1>1. Init => Waiting
  <2> SUFFICES ASSUME Init PROVE Waiting
    OBVIOUS
  <2>1. Once /\ created = {} /\ \A q \in Packet : send[q] = "none"
    BY InitOnce DEF Init
  <2>2. \A q \in Dresp : ~Expected(q) /\ ~Coming(q)
    BY <2>1, DrespArePackets
    DEF Once, PacketOnce, PacketAt, ArrayOnce, ArrayAt, Expected, WaitsFor, HeldBy, Coming
  <2>3. \A p \in Dresp : ExpectedLike(p) = {} /\ ComingLike(p) = {}
    BY <2>2 DEF ExpectedLike, ComingLike
  <2> QED
    BY <2>1, <2>3, FS_EmptySet DEF Waiting, Balance
<1>2. Waiting /\ Once' /\ [Next]_vars => Waiting'
  <2> SUFFICES ASSUME Waiting, Once', [Next]_vars
               PROVE  IsFiniteSet(created') /\ Balance'
    BY DEF Waiting
  <2>1. CASE UNCHANGED vars
    BY <2>1, QuietBalance DEF vars, Waiting
  <2>2. ASSUME NEW p \in Packet, Create(p) PROVE IsFiniteSet(created') /\ Balance'
    <3>1. /\ created' = created \cup {p}
          /\ UNCHANGED net /\ UNCHANGED recv /\ UNCHANGED send
      BY <2>2 DEF Create
    <3> QED
      BY <3>1, QuietBalance, FS_AddElement DEF Waiting
  <2>3. ASSUME NEW p \in Packet, SendStep(p) PROVE IsFiniteSet(created') /\ Balance'
    BY <2>3, SendBalance
    DEF Waiting, SendStep, PostHeader, HeaderSent, PostArray, ArraySent
  <2>4. ASSUME NEW t \in Tile, TileStep(t) PROVE IsFiniteSet(created') /\ Balance'
    BY <2>4, TileBalance
    DEF Waiting, TileStep, BeginTransmit, TransmitLocal, TransmitRemote, EndTransmit
  <2>5. ASSUME NEW th \in Thread, ThreadStep(th) PROVE IsFiniteSet(created') /\ Balance'
    BY <2>5, ReceiveHeaderBalance, ReceiveArrayBalance, StoreBalance
    DEF Waiting, ThreadStep, ReceiveHeader, ReceiveArray, Store
  <2> QED
    BY <2>1, <2>2, <2>3, <2>4, <2>5 DEF Next
<1> QED
  BY OnceHolds, EnoughArrays, <1>1, <1>2, PTL DEF Spec

=============================================================================
