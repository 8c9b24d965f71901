--------------------------- MODULE EvaluateProofs ---------------------------
(***************************************************************************)
(* What test_time_dresp measures, for any number of processes, bridges and *)
(* rounds, and with or without threaded sends: an answer ends the round of *)
(* its own packet, and a round ends after its array has been received.     *)
(*                                                                         *)
(* The rounds follow one another through the whole system: at any time one *)
(* packet at most is under way, or its array, or its answer.  Round says   *)
(* where, stage by stage.  Of earlier rounds only senders may be left that *)
(* test whether their message is gone, and threads that answer.            *)
(***************************************************************************)
EXTENDS Evaluate, BridgeProofs

-----------------------------------------------------------------------------
(* FIFOs and messages of one or two elements *)

\* Sequences of one element.
LEMMA OneElement ==
  ASSUME NEW S, NEW x \in S
  PROVE  /\ Append(<<>>, x) = <<x>> /\ RemoveAt(<<x>>, 1) = <<>>
         /\ Head(<<x>>) = x /\ Tail(<<x>>) = <<>>
<1>1. <<>> \in Seq(S) /\ <<x>> \in Seq(S)
  OBVIOUS
<1>2. Append(<<>>, x) = <<x>>
  <2> DEFINE u == Append(<<>>, x)
  <2>1. u \in Seq(S) /\ Len(u) = 1 /\ u[1] = x
    BY <1>1, AppendProperties
  <2> HIDE DEF u
  <2>2. u = <<x>>
    BY <1>1, <2>1
  <2> QED
    BY <2>2 DEF u
<1>3. Head(<<x>>) = x /\ Tail(<<x>>) = <<>>
  OBVIOUS
<1>4. RemoveAt(<<x>>, 1) = <<>>
  <2> DEFINE e == <<x>>
  <2>1. e \in Seq(S) /\ 1 \in DOMAIN e /\ Len(e) = 1
    BY <1>1
  <2> HIDE DEF e
  <2>2. RemoveAt(e, 1) \in Seq(S) /\ DOMAIN RemoveAt(e, 1) = 1 .. 0
    BY <2>1, RemoveAtElements
  <2>3. Len(RemoveAt(e, 1)) = 0
    BY <2>2, LenProperties
  <2>4. RemoveAt(e, 1) = <<>>
    BY <2>2, <2>3, EmptySeq
  <2> QED
    BY <2>4 DEF e
<1> QED
  BY <1>2, <1>3, <1>4

\* What Append does, without a sequence literal.
LEMMA AppendValues ==
  ASSUME NEW S, NEW s \in Seq(S), NEW e \in S, NEW v, v = Append(s, e)
  PROVE  /\ v \in Seq(S) /\ Len(v) = Len(s) + 1 /\ v[Len(s) + 1] = e
         /\ \A i \in 1 .. Len(s) : v[i] = s[i]
BY AppendProperties

\* Sequences of two elements.
LEMMA TwoElements ==
  ASSUME NEW S, NEW x \in S, NEW y \in S
  PROVE  Append(<<x>>, y) = <<x, y>> /\ RemoveAt(<<x, y>>, 1) = <<y>>
<1>1. Append(<<x>>, y) = <<x, y>>
  <2> DEFINE e == <<x>>
             v == Append(e, y)
  <2>1. e \in Seq(S) /\ Len(e) = 1 /\ e[1] = x
    OBVIOUS
  <2>2. v = Append(e, y)
    OBVIOUS
  <2> HIDE DEF e, v
  <2>3. /\ v \in Seq(S) /\ Len(v) = Len(e) + 1 /\ v[Len(e) + 1] = y
        /\ \A i \in 1 .. Len(e) : v[i] = e[i]
    BY <2>1, <2>2, AppendValues
  <2>4. 1 \in 1 .. Len(e)
    BY <2>1
  <2>5. v \in Seq(S) /\ Len(v) = 2 /\ v[1] = x /\ v[2] = y
    BY <2>1, <2>3, <2>4
  <2>6. v = <<x, y>>
    BY <2>5
  <2> QED
    BY <2>6 DEF v, e
<1>2. RemoveAt(<<x, y>>, 1) = <<y>>
  <2> DEFINE e == <<x, y>>
             u == RemoveAt(e, 1)
  <2>1. e \in Seq(S) /\ 1 \in DOMAIN e /\ Len(e) = 2 /\ e[2] = y
    OBVIOUS
  <2> HIDE DEF e
  <2>2. /\ u \in Seq(S) /\ DOMAIN u = 1 .. Len(e) - 1
        /\ \A k \in 1 .. Len(e) - 1 : u[k] = e[IF k < 1 THEN k ELSE k + 1]
    BY <2>1, RemoveAtElements
  <2> HIDE DEF u
  <2>3. 1 \in 1 .. Len(e) - 1 /\ (IF 1 < 1 THEN 1 ELSE 1 + 1) = 2
    BY <2>1
  <2>4. u \in Seq(S) /\ DOMAIN u = 1 .. 1 /\ u[1] = y
    BY <2>1, <2>2, <2>3
  <2>5. Len(u) = 1
    BY <2>4, LenProperties
  <2>6. u = <<y>>
    BY <2>4, <2>5
  <2> QED
    BY <2>6 DEF u, e
<1> QED
  BY <1>1, <1>2

-----------------------------------------------------------------------------

\* The states of a receiving thread, with that in which it answers.
EvThreadState ==
  [pc : {"listen", "awaitArray", "store", "answering"}, pkt : Packet \cup {0}, ptr : Pointer]

EvTypeOK ==
  /\ created \subseteq Packet /\ IsFiniteSet(created)
  /\ DOMAIN tx = Tile
  /\ send \in [Packet -> Sending \cup {"none", "sent"}]
  /\ DOMAIN net = Rank /\ \A s \in Rank : DOMAIN net[s] = Rank
  /\ recv \in [Thread -> EvThreadState]
  /\ testing_status \in BOOLEAN
  /\ times \in Nat

-----------------------------------------------------------------------------
(* Where what is under way is *)

\* The channels of packet p and of its answer hold f and b, the others nothing.
Channels(p, f, b) ==
  \A s, r \in Rank :
    net[s][r] = IF s = SourceRank(p) /\ r = DestRank(p) THEN f
                ELSE IF s = DestRank(p) /\ r = SourceRank(p) THEN b ELSE <<>>

\* The TX FIFO of the tile of packet p holds f, the others nothing.
Fifos(p, f) == \A t \in Tile : tx[t] = IF t = Source[p] THEN f ELSE <<>>

Quiet(th) == recv[th].pc \in {"listen", "answering"}

NoneBusy == \A th \in Thread : Quiet(th)

OneBusy(pc, x) ==
  \E th \in Thread : /\ recv[th].pc = pc /\ recv[th].pkt = x
                     /\ \A o \in Thread : o = th \/ Quiet(o)

Unposted == {"none"}
Posted == {"headerTest", "array"}
ArrayPosted == {"arrayTest", "sent"}
AnswerPosted == {"headerTest", "sent"}

\* The senders of packet p and of its answer.
Senders(p, sp, sa) == send[p] \in sp /\ send[Answer[p]] \in sa

\* The packet is in the TX FIFO.
Built(p) ==
  Fifos(p, <<p>>) /\ Senders(p, Unposted, Unposted) /\ Channels(p, <<>>, <<>>) /\ NoneBusy

\* A bridge has been given the packet.
Given(p) ==
  Fifos(p, <<>>) /\ Senders(p, {"header"}, Unposted) /\ Channels(p, <<>>, <<>>) /\ NoneBusy

\* The packet is in a message.
PacketOut(p) ==
  /\ Fifos(p, <<>>) /\ Senders(p, Posted, Unposted)
  /\ Channels(p, <<Header(p)>>, <<>>) /\ NoneBusy

\* The packet and its array are.
BothOut(p) ==
  /\ Fifos(p, <<>>) /\ Senders(p, ArrayPosted, Unposted)
  /\ Channels(p, <<Header(p), ArrayMessage(p)>>, <<>>) /\ NoneBusy

\* A thread waits for the array, which has not been sent.
Awaits(p) ==
  /\ Fifos(p, <<>>) /\ Senders(p, Posted, Unposted)
  /\ Channels(p, <<>>, <<>>) /\ OneBusy("awaitArray", p)

\* A thread waits for the array, which has been sent.
ArrayOut(p) ==
  /\ Fifos(p, <<>>) /\ Senders(p, ArrayPosted, Unposted)
  /\ Channels(p, <<ArrayMessage(p)>>, <<>>) /\ OneBusy("awaitArray", p)

\* A thread holds the whole packet.
Whole(p) ==
  /\ Fifos(p, <<>>) /\ Senders(p, ArrayPosted, Unposted)
  /\ Channels(p, <<>>, <<>>) /\ OneBusy("store", p)

\* A bridge has been given the answer.
AnswerGiven(p) ==
  /\ Fifos(p, <<>>) /\ Senders(p, ArrayPosted, {"header"})
  /\ Channels(p, <<>>, <<>>) /\ NoneBusy

\* The answer is in a message.
AnswerOut(p) ==
  /\ Fifos(p, <<>>) /\ Senders(p, ArrayPosted, AnswerPosted)
  /\ Channels(p, <<>>, <<Header(Answer[p])>>) /\ NoneBusy

\* A thread holds the answer.
AnswerHeld(p) ==
  /\ Fifos(p, <<>>) /\ Senders(p, ArrayPosted, AnswerPosted)
  /\ Channels(p, <<>>, <<>>) /\ OneBusy("store", Answer[p])

BeforeArray(p) ==
  Built(p) \/ Given(p) \/ PacketOut(p) \/ BothOut(p) \/ Awaits(p) \/ ArrayOut(p)

AfterArray(p) == Whole(p) \/ AnswerGiven(p) \/ AnswerOut(p) \/ AnswerHeld(p)

-----------------------------------------------------------------------------
(* The inductive invariant *)

\* The packets of the rounds so far.
Rounds == created \cap Dresp

\* The round of packet q is over.
Over(q) == Senders(q, ArrayPosted, AnswerPosted)

(* The arrays of the packets in S have been received.                      *)
HeapIs(S) ==
  heap = {OwnPointer(p) : p \in {q \in Rounds : send[q] # "sent"}}
         \cup {[space |-> DestRank(p), data |-> p] : p \in S}

\* Nothing is under way.
Between ==
  /\ ~testing_status /\ times = Cardinality(Rounds) /\ HeapIs(Rounds)
  /\ \A q \in Rounds : Over(q)
  /\ \A t \in Tile : tx[t] = <<>>
  /\ \A s, r \in Rank : net[s][r] = <<>>
  /\ NoneBusy

\* The round of packet p, which is the last.
Round(p) ==
  /\ testing_status /\ times = Cardinality(Rounds \ {p})
  /\ \A q \in Rounds : q <= p /\ (q # p => Over(q))
  /\ \/ BeforeArray(p) /\ HeapIs(Rounds \ {p})
     \/ AfterArray(p) /\ HeapIs(Rounds)

(* Packets are built in order, an answer after its packet; the others have *)
(* not been sent.                                                          *)
BuiltInOrder ==
  /\ \A q \in Rounds : \A p \in Dresp : p < q => p \in Rounds
  /\ \A x \in Packet \ Rounds : send[x] # "none" => \E q \in Rounds : x = Answer[q]

EvInv == EvTypeOK /\ BuiltInOrder /\ (Between \/ \E p \in Rounds : Round(p))

-----------------------------------------------------------------------------
(* Sequences and addresses *)

\* The rounds go from one tile to one of another process, and the answers back.
LEMMA RoundTrip ==
  ASSUME NEW p \in Dresp
  PROVE  /\ p \in Packet /\ Answer[p] \in Packet /\ Answer[p] \notin Dresp
         /\ SourceRank(p) \in Rank /\ DestRank(p) \in Rank /\ SourceRank(p) # DestRank(p)
         /\ Source[p] \in Tile /\ Dest(p) \in Tile
         /\ SourceRank(Answer[p]) = DestRank(p) /\ DestRank(Answer[p]) = SourceRank(p)
         /\ OwnPointer(p) = [space |-> SourceRank(p), data |-> p]
         /\ OwnPointer(Answer[p]) = NoArray
<1>1. /\ p \in Packet /\ Answer[p] \in Packet /\ Answer[p] \notin Dresp
  BY PacketAssumption, EvaluateAssumption
<1>2. /\ SourceRank(p) \in Rank /\ DestRank(p) \in Rank
      /\ Source[p] \in Tile /\ Dest(p) \in Tile
  BY <1>1, RanksOfPacket
<1>3. SourceRank(p) # DestRank(p) /\ SourceRank(Answer[p]) = DestRank(p)
  BY EvaluateAssumption DEF SourceRank, DestRank
<1>4. To[Answer[p]] = Source[p]
  BY EvaluateAssumption
<1>5. Dest(Answer[p]) = Source[p]
  <2> DEFINE n == Size * NServices
             x == Source[p] - 1
  <2>1. n \in Nat \ {0} /\ Source[p] \in 1 .. n
    BY <1>2, SizeAssumption, ProductIsPositive DEF Tile
  <2> HIDE DEF n
  <2>2. x \in 0 .. n - 1 /\ x + 1 = Source[p]
    BY <2>1
  <2>3. x % n = x
    BY <2>1, <2>2, Small
  <2> QED
    BY <1>4, <2>2, <2>3 DEF Dest, n
<1>6. DestRank(Answer[p]) = SourceRank(p)
  BY <1>5 DEF DestRank, SourceRank
<1>7. OwnPointer(p) = [space |-> SourceRank(p), data |-> p] /\ OwnPointer(Answer[p]) = NoArray
  BY <1>1 DEF OwnPointer, SourceRank
<1> QED
  BY <1>1, <1>2, <1>3, <1>6, <1>7

\* All rounds are between the same two processes, and have their own answers.
LEMMA SameTrip ==
  ASSUME NEW p \in Dresp, NEW q \in Dresp
  PROVE  /\ Source[p] = Source[q] /\ SourceRank(p) = SourceRank(q) /\ DestRank(p) = DestRank(q)
         /\ Answer[p] = Answer[q] => p = q
BY EvaluateAssumption DEF SourceRank, DestRank

\* The messages of a round are messages, and differ.
LEMMA MessagesOfRound ==
  ASSUME NEW p \in Dresp
  PROVE  /\ Header(p) \in Message /\ ArrayMessage(p) \in Message /\ Header(Answer[p]) \in Message
         /\ Header(p).tag = tag_default /\ Header(p).pkt = p
         /\ ArrayMessage(p).tag = DataTag(p) /\ ArrayMessage(p).pkt = p
         /\ Header(Answer[p]).tag = tag_default /\ Header(Answer[p]).pkt = Answer[p]
         /\ \A q \in Dresp : DataTag(q) # tag_default
<1>1. p \in Packet /\ Answer[p] \in Packet
  BY RoundTrip
<1>2. \A q \in Dresp : DataTag(q) # tag_default
  BY RoundTrip, TagsDiffer
<1> QED
  BY <1>1, <1>2 DEF Header, ArrayMessage, Message

-----------------------------------------------------------------------------
(* How the parts of a stage change *)

\* What the channels hold, read off one by one.
LEMMA ChannelsAre ==
  ASSUME NEW p \in Dresp, NEW f, NEW b, Channels(p, f, b)
  PROVE  /\ net[SourceRank(p)][DestRank(p)] = f /\ net[DestRank(p)][SourceRank(p)] = b
         /\ \A s, r \in Rank :
              net[s][r] # <<>> => \/ s = SourceRank(p) /\ r = DestRank(p)
                                  \/ s = DestRank(p) /\ r = SourceRank(p)
BY RoundTrip DEF Channels

\* A message is sent or received on one of the channels.
LEMMA ChannelChanges ==
  ASSUME EvTypeOK, NEW p \in Dresp, NEW f, NEW b, Channels(p, f, b), NEW x
  PROVE  /\ net' = [net EXCEPT ![SourceRank(p)][DestRank(p)] = x] =>
              /\ Channels(p, x, b)'
              /\ DOMAIN net' = Rank /\ \A s \in Rank : DOMAIN net'[s] = Rank
         /\ net' = [net EXCEPT ![DestRank(p)][SourceRank(p)] = x] =>
              /\ Channels(p, f, x)'
              /\ DOMAIN net' = Rank /\ \A s \in Rank : DOMAIN net'[s] = Rank
<1> DEFINE a == SourceRank(p)
           c == DestRank(p)
<1>1. a \in Rank /\ c \in Rank /\ a # c /\ SourceRank(p)' = a /\ DestRank(p)' = c
  BY RoundTrip DEF SourceRank, DestRank
<1>2. DOMAIN net = Rank /\ \A s \in Rank : DOMAIN net[s] = Rank
  BY DEF EvTypeOK
<1>3. \A s, r \in Rank : net[s][r] = IF s = a /\ r = c THEN f
                                     ELSE IF s = c /\ r = a THEN b ELSE <<>>
  BY DEF Channels
<1> HIDE DEF a, c
<1>4. ASSUME net' = [net EXCEPT ![a][c] = x]
      PROVE  /\ \A s, r \in Rank : net'[s][r] = IF s = a /\ r = c THEN x
                                                ELSE IF s = c /\ r = a THEN b ELSE <<>>
             /\ DOMAIN net' = Rank /\ \A s \in Rank : DOMAIN net'[s] = Rank
  BY <1>1, <1>2, <1>3, <1>4
<1>5. ASSUME net' = [net EXCEPT ![c][a] = x]
      PROVE  /\ \A s, r \in Rank : net'[s][r] = IF s = a /\ r = c THEN f
                                                ELSE IF s = c /\ r = a THEN x ELSE <<>>
             /\ DOMAIN net' = Rank /\ \A s \in Rank : DOMAIN net'[s] = Rank
  BY <1>1, <1>2, <1>3, <1>5
<1> QED
  BY <1>1, <1>4, <1>5 DEF Channels, a, c

\* The TX FIFO of the rounds changes.
LEMMA FifoChanges ==
  ASSUME EvTypeOK, NEW p \in Dresp, NEW f, Fifos(p, f), NEW x,
         tx' = [tx EXCEPT ![Source[p]] = x]
  PROVE  tx[Source[p]] = f /\ Fifos(p, x)' /\ DOMAIN tx' = Tile
<1>1. Source[p] \in Tile /\ DOMAIN tx = Tile
  BY RoundTrip DEF EvTypeOK
<1> QED
  BY <1>1 DEF Fifos

\* One thread goes on: from what it does, the others being quiet or not.
LEMMA ThreadChanges ==
  ASSUME EvTypeOK, NEW th \in Thread, NEW st \in EvThreadState,
         recv' = [recv EXCEPT ![th] = st]
  PROVE  /\ recv' \in [Thread -> EvThreadState]
         /\ st.pc \in {"listen", "answering"} =>
              /\ NoneBusy => NoneBusy'
              /\ \A pc \in {"awaitArray", "store"} : \A x : OneBusy(pc, x) =>
                   IF Quiet(th) THEN OneBusy(pc, x)' ELSE recv[th].pkt = x /\ NoneBusy'
         /\ NoneBusy => \A pc, x : st.pc = pc /\ st.pkt = x => OneBusy(pc, x)'
         /\ ~Quiet(th) => \A pc, x, y, z : OneBusy(pc, x) /\ st.pc = y /\ st.pkt = z
                            => recv[th].pc = pc /\ recv[th].pkt = x /\ OneBusy(y, z)'
<1>1. /\ recv' \in [Thread -> EvThreadState]
      /\ \A h \in Thread : recv'[h] = IF h = th THEN st ELSE recv[h]
  BY DEF EvTypeOK
<1>2. \A o \in Thread : o # th => (Quiet(o)' <=> Quiet(o))
  BY <1>1 DEF Quiet
<1>3. st.pc \in {"listen", "answering"} => Quiet(th)'
  BY <1>1 DEF Quiet
<1>4. ASSUME st.pc \in {"listen", "answering"}, NoneBusy PROVE NoneBusy'
  BY <1>2, <1>3, <1>4 DEF NoneBusy
<1>5. ASSUME st.pc \in {"listen", "answering"}, NEW pc \in {"awaitArray", "store"}, NEW x,
             OneBusy(pc, x)
      PROVE  IF Quiet(th) THEN OneBusy(pc, x)' ELSE recv[th].pkt = x /\ NoneBusy'
  <2>1. PICK h \in Thread : /\ recv[h].pc = pc /\ recv[h].pkt = x
                            /\ \A o \in Thread : o = h \/ Quiet(o)
    BY <1>5 DEF OneBusy
  <2>2. CASE Quiet(th) /\ h # th
    BY <1>1, <1>2, <1>3, <1>5, <2>1, <2>2 DEF OneBusy
  <2>3. CASE Quiet(th) /\ h = th
    BY <1>5, <2>1, <2>3 DEF Quiet
  <2>4. CASE ~Quiet(th)
    BY <1>2, <1>3, <1>5, <2>1, <2>4 DEF NoneBusy
  <2> QED
    BY <2>2, <2>3, <2>4
<1>6. ASSUME NoneBusy, NEW pc, NEW x, st.pc = pc, st.pkt = x PROVE OneBusy(pc, x)'
  BY <1>1, <1>2, <1>6 DEF NoneBusy, OneBusy
<1>7. ASSUME ~Quiet(th), NEW pc, NEW x, NEW y, NEW z, OneBusy(pc, x), st.pc = y, st.pkt = z
      PROVE  recv[th].pc = pc /\ recv[th].pkt = x /\ OneBusy(y, z)'
  BY <1>1, <1>2, <1>7 DEF OneBusy
<1> QED
  BY <1>1, <1>4, <1>5, <1>6, <1>7

-----------------------------------------------------------------------------
(* Steps that leave a round in its stage *)

\* No packet moves: the senders of packet p go on as the stage allows.
SendersStay(p) ==
  /\ Senders(p, Unposted, Unposted) => Senders(p, Unposted, Unposted)'
  /\ Senders(p, {"header"}, Unposted) => Senders(p, {"header"}, Unposted)'
  /\ Senders(p, Posted, Unposted) => Senders(p, Posted, Unposted)'
  /\ Senders(p, ArrayPosted, Unposted) => Senders(p, ArrayPosted, Unposted)'
  /\ Senders(p, ArrayPosted, {"header"}) => Senders(p, ArrayPosted, {"header"})'
  /\ Senders(p, ArrayPosted, AnswerPosted) => Senders(p, ArrayPosted, AnswerPosted)'

\* The threads that are busy stay so, and no other.
ThreadsStay ==
  /\ NoneBusy => NoneBusy'
  /\ \A pc \in {"awaitArray", "store"} : \A x : OneBusy(pc, x) => OneBusy(pc, x)'

\* So do the arrays that have been received.
HeapStays ==
  /\ HeapIs(Rounds) => HeapIs(Rounds)'
  /\ \A p \in Rounds : HeapIs(Rounds \ {p}) => HeapIs(Rounds \ {p})'

\* Then the stage is the same.
LEMMA StageStays ==
  ASSUME NEW p \in Dresp, SendersStay(p), ThreadsStay, UNCHANGED <<tx, net>>
  PROVE  /\ BeforeArray(p) => BeforeArray(p)'
         /\ AfterArray(p) => AfterArray(p)'
<1>1. /\ \A f : Fifos(p, f) => Fifos(p, f)'
      /\ \A f, b : Channels(p, f, b) => Channels(p, f, b)'
  BY DEF Fifos, Channels, SourceRank, DestRank
<1>2. Header(p)' = Header(p) /\ Header(Answer[p])' = Header(Answer[p])
      /\ ArrayMessage(p)' = ArrayMessage(p)
  BY DEF Header, ArrayMessage
<1>3. /\ Built(p) => Built(p)'
      /\ Given(p) => Given(p)'
      /\ PacketOut(p) => PacketOut(p)'
      /\ BothOut(p) => BothOut(p)'
  BY <1>1, <1>2 DEF SendersStay, ThreadsStay, Built, Given, PacketOut, BothOut
<1>4. /\ Awaits(p) => Awaits(p)'
      /\ ArrayOut(p) => ArrayOut(p)'
  BY <1>1, <1>2 DEF SendersStay, ThreadsStay, Awaits, ArrayOut
<1>5. /\ Whole(p) => Whole(p)'
      /\ AnswerGiven(p) => AnswerGiven(p)'
      /\ AnswerOut(p) => AnswerOut(p)'
      /\ AnswerHeld(p) => AnswerHeld(p)'
  BY <1>1, <1>2 DEF SendersStay, ThreadsStay, Whole, AnswerGiven, AnswerOut, AnswerHeld
<1> QED
  BY <1>3, <1>4, <1>5 DEF BeforeArray, AfterArray

\* The round goes on.
LEMMA RoundGoesOn ==
  ASSUME NEW p \in Rounds, Round(p), UNCHANGED <<times, testing_status>>, Rounds' = Rounds,
         \A q \in Rounds : q # p /\ Over(q) => Over(q)',
         \/ BeforeArray(p)' /\ HeapIs(Rounds \ {p})'
         \/ AfterArray(p)' /\ HeapIs(Rounds)'
  PROVE  Round(p)'
BY DEF Round

\* Nothing is sent, received, built or answered.
LEMMA StateStays ==
  ASSUME EvInv, UNCHANGED <<created, tx, net, times, testing_status>>,
         send' \in [Packet -> Sending \cup {"none", "sent"}],
         recv' \in [Thread -> EvThreadState],
         \A q \in Dresp : SendersStay(q), ThreadsStay,
         \A x \in Packet : send'[x] # "none" => send[x] # "none",
         HeapStays
  PROVE  EvInv'
<1>1. Rounds' = Rounds
  BY DEF Rounds
<1>2. EvTypeOK'
  BY DEF EvInv, EvTypeOK
<1>3. BuiltInOrder'
  BY <1>1 DEF EvInv, BuiltInOrder
<1>4. \A q \in Rounds : Over(q) => Over(q)'
  BY DEF SendersStay, Over, Rounds
<1>5. ASSUME Between PROVE Between'
  BY <1>1, <1>4, <1>5 DEF Between, ThreadsStay, HeapStays
<1>6. ASSUME NEW p \in Rounds, Round(p) PROVE Round(p)'
  <2>1. p \in Dresp
    BY DEF Rounds
  <2>2. \/ BeforeArray(p)' /\ HeapIs(Rounds \ {p})'
        \/ AfterArray(p)' /\ HeapIs(Rounds)'
    BY <1>6, <2>1, StageStays DEF Round, HeapStays
  <2> QED
    BY <1>1, <1>4, <1>6, <2>2, RoundGoesOn
<1>7. Between' \/ \E p \in Rounds' : Round(p)'
  BY <1>1, <1>5, <1>6 DEF EvInv
<1> QED
  BY <1>2, <1>3, <1>7 DEF EvInv

\* Where a packet has been sent, it is one of a round, or answers one.
LEMMA SentPackets ==
  ASSUME EvInv, NEW x \in Packet, send[x] # "none"
  PROVE  \/ x \in Rounds
         \/ \E q \in Rounds : x = Answer[q] /\ x \notin Dresp
                              /\ send[x] \in {"header", "headerTest", "sent"}
<1> SUFFICES ASSUME x \notin Rounds
             PROVE  \E q \in Rounds : x = Answer[q] /\ x \notin Dresp
                                      /\ send[x] \in {"header", "headerTest", "sent"}
  OBVIOUS
<1>1. PICK q \in Rounds : x = Answer[q]
  BY DEF EvInv, BuiltInOrder
<1>2. q \in Dresp /\ x \notin Dresp
  BY <1>1, RoundTrip DEF Rounds
<1>3. Over(q) => send[x] \in {"header", "headerTest", "sent"}
  BY <1>1 DEF Over, Senders, AnswerPosted
<1>4. ASSUME NEW p \in Rounds, Round(p) PROVE send[x] \in {"header", "headerTest", "sent"}
  <2>1. CASE q = p
    <3>1. send[Answer[p]] \in Unposted \cup {"header"} \cup AnswerPosted
      BY <1>4 DEF Round, BeforeArray, AfterArray, Built, Given, PacketOut, BothOut, Awaits,
                  ArrayOut, Whole, AnswerGiven, AnswerOut, AnswerHeld, Senders
    <3> QED
      BY <1>1, <2>1, <3>1 DEF Unposted, AnswerPosted
  <2> QED
    BY <1>3, <1>4, <2>1 DEF Round
<1>5. send[x] \in {"header", "headerTest", "sent"}
  BY <1>3, <1>4 DEF EvInv, Between
<1> QED
  BY <1>1, <1>2, <1>5

\* What is sent changes only where it matters not.
LEMMA HeapSame ==
  ASSUME UNCHANGED <<created, heap>>,
         \A q \in Rounds : send'[q] = "sent" <=> send[q] = "sent"
  PROVE  HeapStays
<1>1. Rounds' = Rounds
  BY DEF Rounds
<1>2. {q \in Rounds : send'[q] # "sent"} = {q \in Rounds : send[q] # "sent"}
  OBVIOUS
<1>3. \A p : OwnPointer(p)' = OwnPointer(p) /\ DestRank(p)' = DestRank(p)
  BY DEF OwnPointer, NoArray, DestRank
<1>4. HeapIs(Rounds) => HeapIs(Rounds)'
  BY <1>1, <1>2, <1>3 DEF HeapIs
<1>5. \A p \in Rounds : HeapIs(Rounds \ {p}) => HeapIs(Rounds \ {p})'
  BY <1>1, <1>2, <1>3 DEF HeapIs
<1> QED
  BY <1>4, <1>5 DEF HeapStays

\* Threads that do nothing stay as they are.
LEMMA ThreadsSame == UNCHANGED recv => ThreadsStay
BY DEF ThreadsStay, NoneBusy, OneBusy, Quiet

\* A sender tests whether a packet has been sent, and it has.
LEMMA HeaderSentStays ==
  ASSUME EvInv, NEW x \in Packet, HeaderSent(x), UNCHANGED <<testing_status, times>>
  PROVE  EvInv'
<1>1. /\ send \in [Packet -> Sending \cup {"none", "sent"}] /\ recv \in [Thread -> EvThreadState]
      /\ send[x] = "headerTest"
      /\ send' = [send EXCEPT ![x] = IF x \in Dresp THEN "array" ELSE "sent"]
      /\ UNCHANGED <<created, tx, net, recv, heap>>
  BY DEF EvInv, EvTypeOK, HeaderSent
<1>2. /\ send' \in [Packet -> Sending \cup {"none", "sent"}]
      /\ \A y \in Packet : send'[y] = IF y = x THEN (IF x \in Dresp THEN "array" ELSE "sent")
                                               ELSE send[y]
  BY <1>1 DEF Sending
<1>3. ASSUME NEW q \in Dresp PROVE SendersStay(q)
  <2>1. q \in Packet /\ Answer[q] \in Packet /\ Answer[q] \notin Dresp
    BY RoundTrip
  <2> QED
    BY <1>1, <1>2, <2>1
    DEF SendersStay, Senders, Unposted, Posted, ArrayPosted, AnswerPosted
<1>4. HeapStays
  <2>1. Rounds \subseteq Packet /\ Rounds \subseteq Dresp
    BY RoundTrip DEF Rounds
  <2> QED
    BY <1>1, <1>2, <2>1, HeapSame
<1> QED
  BY <1>1, <1>2, <1>3, <1>4, ThreadsSame, StateStays

\* A sender tests whether an array has been sent, and it has: it is deleted.
LEMMA ArraySentStays ==
  ASSUME EvInv, NEW x \in Packet, ArraySent(x), UNCHANGED <<testing_status, times>>
  PROVE  EvInv'
<1>1. /\ send \in [Packet -> Sending \cup {"none", "sent"}] /\ recv \in [Thread -> EvThreadState]
      /\ send[x] = "arrayTest" /\ send' = [send EXCEPT ![x] = "sent"]
      /\ heap' = heap \ {OwnPointer(x)}
      /\ UNCHANGED <<created, tx, net, recv>>
  BY DEF EvInv, EvTypeOK, ArraySent, Deleted
<1>2. /\ send' \in [Packet -> Sending \cup {"none", "sent"}]
      /\ \A y \in Packet : send'[y] = IF y = x THEN "sent" ELSE send[y]
  BY <1>1
<1>3. x \in Rounds
  BY <1>1, SentPackets
<1>4. ASSUME NEW q \in Dresp PROVE SendersStay(q)
  <2>1. q \in Packet /\ Answer[q] \in Packet /\ Answer[q] \notin Dresp /\ x \in Dresp
    BY <1>3, RoundTrip DEF Rounds
  <2> QED
    BY <1>1, <1>2, <2>1
    DEF SendersStay, Senders, Unposted, Posted, ArrayPosted, AnswerPosted
<1>5. HeapStays
  <2>1. Rounds' = Rounds /\ Rounds \subseteq Packet /\ Rounds \subseteq Dresp
    BY <1>1, RoundTrip DEF Rounds
  <2> DEFINE Orig == {OwnPointer(p) : p \in {q \in Rounds : send[q] # "sent"}}
             NewOrig == {OwnPointer(p) : p \in {q \in Rounds : send'[q] # "sent"}}
             Copies(S) == {[space |-> DestRank(p), data |-> p] : p \in S}
  <2>2. {q \in Rounds : send'[q] # "sent"} = {q \in Rounds : send[q] # "sent"} \ {x}
    BY <1>2, <2>1
  <2>3. \A p \in Rounds : OwnPointer(p) = OwnPointer(x) => p = x
    BY <1>3, <2>1, RoundTrip
  <2>4. NewOrig = Orig \ {OwnPointer(x)}
    BY <2>2, <2>3
  <2>5. ASSUME NEW S \in SUBSET Rounds PROVE OwnPointer(x) \notin Copies(S)
    <3>1. ASSUME NEW p \in Rounds PROVE OwnPointer(x) # [space |-> DestRank(p), data |-> p]
      BY <1>3, <2>1, RoundTrip, SameTrip
    <3> QED
      BY <3>1
  <2>6. ASSUME NEW S \in SUBSET Rounds, heap = Orig \cup Copies(S)
        PROVE  heap' = NewOrig \cup Copies(S)
    <3> HIDE DEF Orig, NewOrig, Copies
    <3> QED
      BY <1>1, <2>4, <2>5, <2>6
  <2>7. HeapIs(Rounds) => HeapIs(Rounds)'
    BY <2>1, <2>6 DEF HeapIs, OwnPointer, NoArray, DestRank
  <2>8. \A p \in Rounds : HeapIs(Rounds \ {p}) => HeapIs(Rounds \ {p})'
    BY <2>1, <2>6 DEF HeapIs, OwnPointer, NoArray, DestRank
  <2> QED
    BY <2>7, <2>8 DEF HeapStays
<1> QED
  BY <1>1, <1>2, <1>4, <1>5, ThreadsSame, StateStays

\* Nothing happens to what is under way.
LEMMA NothingStays ==
  ASSUME EvInv, UNCHANGED <<created, tx, send, net, recv, heap, testing_status, times>>
  PROVE  EvInv'
<1>1. send \in [Packet -> Sending \cup {"none", "sent"}] /\ recv \in [Thread -> EvThreadState]
  BY DEF EvInv, EvTypeOK
<1>2. \A q \in Dresp : SendersStay(q)
  BY DEF SendersStay, Senders
<1> QED
  BY <1>1, <1>2, HeapSame, ThreadsSame, StateStays

\* The sending of an answer is over, and the thread listens again.
LEMMA AnswerSentStays ==
  ASSUME EvInv, NEW th \in Thread, AnswerSent(th)
  PROVE  EvInv'
<1>1. /\ EvTypeOK /\ send \in [Packet -> Sending \cup {"none", "sent"}]
      /\ Quiet(th) /\ recv' = [recv EXCEPT ![th] = Listening]
      /\ UNCHANGED <<created, tx, send, net, heap, testing_status, times>>
  BY DEF EvInv, EvTypeOK, AnswerSent, Quiet
<1>2. Listening \in EvThreadState /\ Listening.pc = "listen"
  BY SizeAssumption DEF Listening, EvThreadState, NoArray, Pointer, Rank
<1>3. recv' \in [Thread -> EvThreadState] /\ ThreadsStay
  <2> DEFINE st == Listening
  <2>1. st \in EvThreadState /\ st.pc \in {"listen", "answering"} /\ recv' = [recv EXCEPT ![th] = st]
    BY <1>1, <1>2
  <2> HIDE DEF st
  <2>2. /\ recv' \in [Thread -> EvThreadState]
        /\ NoneBusy => NoneBusy'
        /\ \A pc \in {"awaitArray", "store"} : \A x : OneBusy(pc, x) =>
             IF Quiet(th) THEN OneBusy(pc, x)' ELSE recv[th].pkt = x /\ NoneBusy'
    BY <1>1, <2>1, ThreadChanges
  <2> QED
    BY <1>1, <2>2 DEF ThreadsStay
<1>4. \A q \in Dresp : SendersStay(q)
  BY <1>1 DEF SendersStay, Senders
<1> QED
  BY <1>1, <1>3, <1>4, HeapSame, StateStays

-----------------------------------------------------------------------------
(* What shows the stage of a round *)

\* A packet in a TX FIFO has just been built.
LEMMA FifoShows ==
  ASSUME EvInv, NEW t \in Tile, tx[t] # <<>>
  PROVE  \E p \in Rounds : Round(p) /\ Built(p) /\ t = Source[p]
<1>1. PICK p \in Rounds : Round(p)
  BY DEF EvInv, Between
<1>2. ~Fifos(p, <<>>)
  BY DEF Fifos
<1>3. Built(p)
  BY <1>1, <1>2 DEF Round, BeforeArray, AfterArray, Given, PacketOut, BothOut, Awaits,
                    ArrayOut, Whole, AnswerGiven, AnswerOut, AnswerHeld
<1>4. t = Source[p]
  BY <1>3 DEF Built, Fifos
<1> QED
  BY <1>1, <1>3, <1>4

\* A packet that a bridge is about to send is that of the round, or its answer.
LEMMA HeaderShows ==
  ASSUME EvInv, NEW x \in Packet, send[x] = "header"
  PROVE  \E p \in Rounds : /\ Round(p)
                           /\ \/ x = p /\ Given(p)
                              \/ x = Answer[p] /\ AnswerGiven(p)
<1>1. PICK q \in Rounds : x = q \/ x = Answer[q]
  BY SentPackets
<1>2. ~Over(q)
  BY <1>1 DEF Over, Senders, ArrayPosted, AnswerPosted
<1>3. Round(q)
  BY <1>2 DEF EvInv, Between, Round
<1>4. BeforeArray(q) \/ AfterArray(q)
  BY <1>3 DEF Round
<1>5. CASE x = q
  <2>1. \A sp, sa : Senders(q, sp, sa) => "header" \in sp
    BY <1>5 DEF Senders
  <2>2. ~Senders(q, Unposted, Unposted) /\ ~Senders(q, Posted, Unposted)
        /\ \A sa : ~Senders(q, ArrayPosted, sa)
    BY <2>1 DEF Unposted, Posted, ArrayPosted
  <2>3. Given(q)
    BY <1>4, <2>2 DEF BeforeArray, AfterArray, Built, PacketOut, BothOut, Awaits,
                      ArrayOut, Whole, AnswerGiven, AnswerOut, AnswerHeld
  <2> QED
    BY <1>3, <1>5, <2>3
<1>6. CASE x = Answer[q]
  <2>1. \A sp, sa : Senders(q, sp, sa) => "header" \in sa
    BY <1>6 DEF Senders
  <2>2. \A sp : ~Senders(q, sp, Unposted) /\ ~Senders(q, sp, AnswerPosted)
    BY <2>1 DEF Unposted, AnswerPosted
  <2>3. AnswerGiven(q)
    BY <1>4, <2>2 DEF BeforeArray, AfterArray, Built, Given, PacketOut, BothOut, Awaits,
                      ArrayOut, Whole, AnswerOut, AnswerHeld
  <2> QED
    BY <1>3, <1>6, <2>3
<1> QED
  BY <1>1, <1>5, <1>6

\* An array that is about to be sent is that of the round.
LEMMA ArrayShows ==
  ASSUME EvInv, NEW x \in Packet, send[x] = "array"
  PROVE  x \in Rounds /\ Round(x) /\ (PacketOut(x) \/ Awaits(x))
<1>1. x \in Rounds
  BY SentPackets
<1>2. \A sp, sa : Senders(x, sp, sa) => "array" \in sp
  BY DEF Senders
<1>3. \A sa : ~Senders(x, Unposted, sa) /\ ~Senders(x, {"header"}, sa)
              /\ ~Senders(x, ArrayPosted, sa)
  BY <1>2 DEF Unposted, ArrayPosted
<1>4. Round(x)
  BY <1>1, <1>3 DEF EvInv, Between, Round, Over
<1>5. PacketOut(x) \/ Awaits(x)
  BY <1>3, <1>4 DEF Round, BeforeArray, AfterArray, Built, Given, BothOut, ArrayOut,
                    Whole, AnswerGiven, AnswerOut, AnswerHeld
<1> QED
  BY <1>1, <1>4, <1>5

\* A thread that is busy has the packet of the round, or its answer.
LEMMA ThreadShows ==
  ASSUME EvInv, NEW th \in Thread, ~Quiet(th)
  PROVE  \E p \in Rounds :
           /\ Round(p)
           /\ \/ /\ recv[th].pc = "awaitArray" /\ recv[th].pkt = p
                 /\ Awaits(p) \/ ArrayOut(p)
              \/ recv[th].pc = "store" /\ recv[th].pkt = p /\ Whole(p)
              \/ recv[th].pc = "store" /\ recv[th].pkt = Answer[p] /\ AnswerHeld(p)
<1>1. ~NoneBusy
  BY DEF NoneBusy
<1>2. PICK p \in Rounds : Round(p)
  BY <1>1 DEF EvInv, Between
<1>3. \A pc, x : OneBusy(pc, x) => recv[th].pc = pc /\ recv[th].pkt = x
  BY DEF OneBusy
<1>4. Awaits(p) \/ ArrayOut(p) \/ Whole(p) \/ AnswerHeld(p)
  BY <1>1, <1>2 DEF Round, BeforeArray, AfterArray, Built, Given, PacketOut, BothOut,
                    AnswerGiven, AnswerOut
<1>5. CASE Awaits(p) \/ ArrayOut(p)
  BY <1>2, <1>3, <1>5 DEF Awaits, ArrayOut
<1>6. CASE Whole(p)
  BY <1>2, <1>3, <1>6 DEF Whole
<1>7. CASE AnswerHeld(p)
  BY <1>2, <1>3, <1>7 DEF AnswerHeld
<1> QED
  BY <1>4, <1>5, <1>6, <1>7

\* So is a message.
LEMMA MessageShows ==
  ASSUME EvInv, NEW s \in Rank, NEW r \in Rank, net[s][r] # <<>>
  PROVE  \E p \in Rounds :
           /\ Round(p)
           /\ \/ /\ s = SourceRank(p) /\ r = DestRank(p)
                 /\ PacketOut(p) \/ BothOut(p) \/ ArrayOut(p)
              \/ s = DestRank(p) /\ r = SourceRank(p) /\ AnswerOut(p)
<1>1. PICK p \in Rounds : Round(p)
  BY DEF EvInv, Between
<1>2. p \in Dresp
  BY DEF Rounds
<1>3. ~Channels(p, <<>>, <<>>)
  BY DEF Channels
<1>4. PacketOut(p) \/ BothOut(p) \/ ArrayOut(p) \/ AnswerOut(p)
  BY <1>1, <1>3 DEF Round, BeforeArray, AfterArray, Built, Given, Awaits, Whole,
                    AnswerGiven, AnswerHeld
<1>5. CASE PacketOut(p) \/ BothOut(p) \/ ArrayOut(p)
  <2>1. PICK f : Channels(p, f, <<>>)
    BY <1>5 DEF PacketOut, BothOut, ArrayOut
  <2>2. s = SourceRank(p) /\ r = DestRank(p)
    BY <2>1 DEF Channels
  <2> QED
    BY <1>1, <1>5, <2>2
<1>6. CASE AnswerOut(p)
  <2>1. Channels(p, <<>>, <<Header(Answer[p])>>)
    BY <1>6 DEF AnswerOut
  <2>2. s = DestRank(p) /\ r = SourceRank(p)
    BY <2>1 DEF Channels
  <2> QED
    BY <1>1, <1>6, <2>2
<1> QED
  BY <1>4, <1>5, <1>6

\* One round at a time: its packet is the last that was built.
LEMMA OneRound ==
  ASSUME NEW p \in Rounds, NEW q \in Rounds, Round(p), Round(q)
  PROVE  p = q
<1>1. p \in Nat /\ q \in Nat
  BY RoundTrip, PacketAssumption DEF Rounds
<1> QED
  BY <1>1 DEF Round

-----------------------------------------------------------------------------
(* Steps that move what is under way *)

\* A sender goes on.
LEMMA SenderMoves ==
  ASSUME EvTypeOK, NEW p \in Dresp, NEW v \in Sending \cup {"none", "sent"}, NEW x \in Packet,
         send' = [send EXCEPT ![x] = v]
  PROVE  /\ send' \in [Packet -> Sending \cup {"none", "sent"}]
         /\ \A sp, sa : Senders(p, sp, sa) =>
              /\ x = p => \A S : v \in S => Senders(p, S, sa)'
              /\ x = Answer[p] => \A S : v \in S => Senders(p, sp, S)'
              /\ x # p /\ x # Answer[p] => Senders(p, sp, sa)'
<1>1. p \in Packet /\ Answer[p] \in Packet /\ p # Answer[p]
  BY RoundTrip
<1> QED
  BY <1>1 DEF EvTypeOK, Senders

\* The round of packet p goes on to another stage.
LEMMA RoundMoves ==
  ASSUME EvInv, NEW p \in Rounds, Round(p), EvTypeOK',
         UNCHANGED <<times, testing_status>>, Rounds' = Rounds,
         \A x \in Packet : x # p /\ x # Answer[p] => send'[x] = send[x],
         \/ BeforeArray(p)' /\ HeapIs(Rounds \ {p})'
         \/ AfterArray(p)' /\ HeapIs(Rounds)'
  PROVE  EvInv'
<1>1. BuiltInOrder'
  <2>1. \A q \in Rounds : \A x \in Dresp : x < q => x \in Rounds
    BY DEF EvInv, BuiltInOrder
  <2>2. \A x \in Packet \ Rounds : send'[x] # "none" => \E q \in Rounds : x = Answer[q]
    BY DEF EvInv, BuiltInOrder
  <2> QED
    BY <2>1, <2>2 DEF BuiltInOrder
<1>2. \A q \in Rounds : q # p /\ Over(q) => Over(q)'
  <2>1. SUFFICES ASSUME NEW q \in Rounds, q # p, Over(q) PROVE Over(q)'
    OBVIOUS
  <2>2. p \in Dresp /\ q \in Dresp
    BY DEF Rounds
  <2>3. /\ q \in Packet /\ Answer[q] \in Packet
        /\ q # Answer[p] /\ Answer[q] # p /\ Answer[q] # Answer[p]
    BY <2>1, <2>2, RoundTrip, SameTrip
  <2> QED
    BY <2>1, <2>3 DEF Over, Senders
<1>3. Round(p)'
  BY <1>2, RoundGoesOn
<1> QED
  BY <1>1, <1>3 DEF EvInv

\* What has been received is the same.
LEMMA HeapMoves ==
  ASSUME NEW p \in Rounds, UNCHANGED heap, Rounds' = Rounds,
         \A x \in Rounds : send'[x] = "sent" <=> send[x] = "sent"
  PROVE  /\ HeapIs(Rounds) => HeapIs(Rounds)'
         /\ HeapIs(Rounds \ {p}) => HeapIs(Rounds \ {p})'
<1>1. {q \in Rounds : send'[q] # "sent"} = {q \in Rounds : send[q] # "sent"}
  OBVIOUS
<1>2. \A x : OwnPointer(x)' = OwnPointer(x) /\ DestRank(x)' = DestRank(x)
  BY DEF OwnPointer, NoArray, DestRank
<1> QED
  BY <1>1, <1>2 DEF HeapIs

\* In a stage the array has been received or not.
LEMMA EitherStage ==
  ASSUME NEW p \in Rounds, Round(p)
  PROVE  /\ BeforeArray(p) => HeapIs(Rounds \ {p})
         /\ AfterArray(p) => HeapIs(Rounds)
<1>1. ~(BeforeArray(p) /\ AfterArray(p))
  <2>1. p \in Dresp
    BY DEF Rounds
  <2>2. \A sp, sa : Senders(p, sp, sa) => send[p] \in sp /\ send[Answer[p]] \in sa
    BY DEF Senders
  <2>3. \A f, b : Channels(p, f, b) => net[SourceRank(p)][DestRank(p)] = f
    BY <2>1, ChannelsAre
  <2>4. BeforeArray(p) => /\ send[Answer[p]] = "none"
                          /\ \/ send[p] \notin ArrayPosted
                             \/ net[SourceRank(p)][DestRank(p)] # <<>>
    BY <2>2, <2>3
    DEF BeforeArray, Built, Given, PacketOut, BothOut, Awaits, ArrayOut,
        Unposted, Posted, ArrayPosted
  <2>5. AfterArray(p) => \/ send[Answer[p]] # "none"
                         \/ send[p] \in ArrayPosted /\ net[SourceRank(p)][DestRank(p)] = <<>>
    BY <2>2, <2>3
    DEF AfterArray, Whole, AnswerGiven, AnswerOut, AnswerHeld, AnswerPosted
  <2> QED
    BY <2>4, <2>5
<1> QED
  BY <1>1 DEF Round

\* The names of what a round sends do not change.
LEMMA SameMessages ==
  ASSUME NEW p \in Dresp
  PROVE  /\ Header(p)' = Header(p) /\ Header(Answer[p])' = Header(Answer[p])
         /\ ArrayMessage(p)' = ArrayMessage(p)
         /\ \A f : UNCHANGED tx /\ Fifos(p, f) => Fifos(p, f)'
BY DEF Header, ArrayMessage, Fifos

\* The packet, or the answer, is sent.
LEMMA PostHeaderMoves ==
  ASSUME EvInv, NEW x \in Packet, PostHeader(x), UNCHANGED <<testing_status, times>>
  PROVE  EvInv'
<1>1. /\ EvTypeOK /\ send[x] = "header" /\ send' = [send EXCEPT ![x] = "headerTest"]
      /\ net' = [net EXCEPT ![SourceRank(x)][DestRank(x)] =
                   Append(net[SourceRank(x)][DestRank(x)], Header(x))]
      /\ UNCHANGED <<created, tx, recv, heap, testing_status, times>>
  BY DEF EvInv, PostHeader, Header
<1>2. PICK p \in Rounds : /\ Round(p)
                          /\ \/ x = p /\ Given(p)
                             \/ x = Answer[p] /\ AnswerGiven(p)
  BY <1>1, HeaderShows
<1>3. p \in Dresp /\ p \in Packet /\ Answer[p] \in Packet /\ Rounds' = Rounds
  BY <1>1, RoundTrip DEF Rounds
<1>4. /\ ThreadsStay /\ \A f : Fifos(p, f) => Fifos(p, f)'
      /\ "headerTest" \in Sending \cup {"none", "sent"}
  BY <1>1, <1>3, ThreadsSame, SameMessages DEF Sending
<1>5. \A y \in Packet : send'[y] = IF y = x THEN "headerTest" ELSE send[y]
  BY <1>1 DEF EvTypeOK
<1>6. /\ HeapIs(Rounds) => HeapIs(Rounds)'
      /\ HeapIs(Rounds \ {p}) => HeapIs(Rounds \ {p})'
  <2>1. \A q \in Rounds : send'[q] = "sent" <=> send[q] = "sent"
    BY <1>1, <1>5, RoundTrip DEF Rounds
  <2> QED
    BY <1>1, <1>3, <2>1, HeapMoves
<1>7. CASE x = p /\ Given(p)
  <2>1. Channels(p, <<>>, <<>>) /\ Senders(p, {"header"}, Unposted) /\ Fifos(p, <<>>) /\ NoneBusy
    BY <1>7 DEF Given
  <2>2. net[SourceRank(p)][DestRank(p)] = <<>> /\ Append(<<>>, Header(p)) = <<Header(p)>>
    BY <1>3, <2>1, ChannelsAre, MessagesOfRound, OneElement
  <2>3. net' = [net EXCEPT ![SourceRank(p)][DestRank(p)] = <<Header(p)>>]
    BY <1>1, <1>7, <2>2
  <2>4. /\ Channels(p, <<Header(p)>>, <<>>)'
        /\ DOMAIN net' = Rank /\ \A s \in Rank : DOMAIN net'[s] = Rank
    <3> DEFINE m == <<Header(p)>>
    <3>1. Channels(p, m, <<>>)' /\ DOMAIN net' = Rank /\ \A s \in Rank : DOMAIN net'[s] = Rank
      <4> HIDE DEF m
      <4> QED
        BY <1>1, <1>3, <2>1, <2>3, ChannelChanges DEF m
    <3> QED
      BY <1>3, <3>1, SameMessages
  <2>5. /\ Senders(p, Posted, Unposted)'
        /\ send' \in [Packet -> Sending \cup {"none", "sent"}]
    BY <1>1, <1>3, <1>4, <1>7, <2>1, SenderMoves DEF Posted
  <2>6. PacketOut(p)'
    BY <1>4, <2>1, <2>4, <2>5 DEF PacketOut, ThreadsStay
  <2>7. EvTypeOK'
    BY <1>1, <2>4, <2>5 DEF EvTypeOK
  <2>8. HeapIs(Rounds \ {p})'
    BY <1>2, <1>6, <1>7, EitherStage DEF BeforeArray
  <2> QED
    BY <1>1, <1>2, <1>3, <1>5, <1>7, <2>6, <2>7, <2>8, RoundMoves DEF BeforeArray
<1>8. CASE x = Answer[p] /\ AnswerGiven(p)
  <2> DEFINE m == <<Header(Answer[p])>>
  <2>1. /\ Channels(p, <<>>, <<>>) /\ Senders(p, ArrayPosted, {"header"}) /\ Fifos(p, <<>>)
        /\ NoneBusy
    BY <1>8 DEF AnswerGiven
  <2>2. net[DestRank(p)][SourceRank(p)] = <<>> /\ Append(<<>>, Header(Answer[p])) = m
    BY <1>3, <2>1, ChannelsAre, MessagesOfRound, OneElement
  <2>3. net' = [net EXCEPT ![DestRank(p)][SourceRank(p)] = m]
    BY <1>1, <1>3, <1>8, <2>2, RoundTrip
  <2>4. /\ Channels(p, <<>>, <<Header(Answer[p])>>)'
        /\ DOMAIN net' = Rank /\ \A s \in Rank : DOMAIN net'[s] = Rank
    <3>1. Channels(p, <<>>, m)' /\ DOMAIN net' = Rank /\ \A s \in Rank : DOMAIN net'[s] = Rank
      <4> HIDE DEF m
      <4> QED
        BY <1>1, <1>3, <2>1, <2>3, ChannelChanges DEF m
    <3> QED
      BY <1>3, <3>1, SameMessages
  <2>5. /\ Senders(p, ArrayPosted, AnswerPosted)'
        /\ send' \in [Packet -> Sending \cup {"none", "sent"}]
    BY <1>1, <1>3, <1>4, <1>8, <2>1, SenderMoves DEF AnswerPosted
  <2>6. AnswerOut(p)'
    BY <1>4, <2>1, <2>4, <2>5 DEF AnswerOut, ThreadsStay
  <2>7. EvTypeOK'
    BY <1>1, <2>4, <2>5 DEF EvTypeOK
  <2>8. HeapIs(Rounds)'
    BY <1>2, <1>6, <1>8, EitherStage DEF AfterArray
  <2> QED
    BY <1>1, <1>2, <1>3, <1>5, <1>8, <2>6, <2>7, <2>8, RoundMoves DEF AfterArray
<1> QED
  BY <1>2, <1>7, <1>8

\* The array is sent, before or after a thread has the packet.
LEMMA PostArrayMoves ==
  ASSUME EvInv, NEW p \in Packet, PostArray(p), UNCHANGED <<testing_status, times>>
  PROVE  EvInv'
<1>1. /\ EvTypeOK /\ send[p] = "array" /\ send' = [send EXCEPT ![p] = "arrayTest"]
      /\ net' = [net EXCEPT ![SourceRank(p)][DestRank(p)] =
                   Append(net[SourceRank(p)][DestRank(p)], ArrayMessage(p))]
      /\ UNCHANGED <<created, tx, recv, heap, testing_status, times>>
  BY DEF EvInv, PostArray, SentTag, ArrayMessage
<1>2. p \in Rounds /\ Round(p) /\ (PacketOut(p) \/ Awaits(p))
  BY <1>1, ArrayShows
<1>3. p \in Dresp /\ Rounds' = Rounds
  BY <1>1, <1>2 DEF Rounds
<1>4. /\ ThreadsStay /\ \A f : Fifos(p, f) => Fifos(p, f)'
      /\ "arrayTest" \in Sending \cup {"none", "sent"}
  BY <1>1, <1>3, ThreadsSame, SameMessages DEF Sending
<1>5. \A y \in Packet : send'[y] = IF y = p THEN "arrayTest" ELSE send[y]
  BY <1>1 DEF EvTypeOK
<1>6. HeapIs(Rounds \ {p})'
  <2>1. \A q \in Rounds : send'[q] = "sent" <=> send[q] = "sent"
    BY <1>1, <1>5, RoundTrip DEF Rounds
  <2> QED
    BY <1>1, <1>2, <1>3, <2>1, EitherStage, HeapMoves DEF BeforeArray
<1>7. Fifos(p, <<>>) /\ Senders(p, Posted, Unposted)
  BY <1>2 DEF PacketOut, Awaits
<1>8. /\ Senders(p, ArrayPosted, Unposted)'
      /\ send' \in [Packet -> Sending \cup {"none", "sent"}]
  BY <1>1, <1>3, <1>4, <1>7, SenderMoves DEF ArrayPosted
<1>9. ASSUME NEW f, NEW m, Channels(p, f, <<>>), Append(f, ArrayMessage(p)) = m
      PROVE  Channels(p, m, <<>>)' /\ EvTypeOK'
  <2>1. net' = [net EXCEPT ![SourceRank(p)][DestRank(p)] = m]
    BY <1>1, <1>3, <1>9, ChannelsAre
  <2> QED
    BY <1>1, <1>3, <1>8, <1>9, <2>1, ChannelChanges DEF EvTypeOK
<1>10. CASE PacketOut(p)
  <2> DEFINE f == <<Header(p)>>
             m == <<Header(p), ArrayMessage(p)>>
  <2>1. Channels(p, f, <<>>) /\ NoneBusy
    BY <1>10 DEF PacketOut
  <2>2. Append(f, ArrayMessage(p)) = m
    <3>1. Header(p) \in Message /\ ArrayMessage(p) \in Message
      BY <1>3, MessagesOfRound
    <3> DEFINE x == Header(p)
               y == ArrayMessage(p)
    <3> HIDE DEF x, y
    <3>2. x \in Message /\ y \in Message
      BY <3>1 DEF x, y
    <3>3. Append(<<x>>, y) = <<x, y>>
      BY <3>2, TwoElements
    <3> QED
      BY <3>3 DEF x, y
  <2>3. Channels(p, m, <<>>)' /\ EvTypeOK'
    <3> HIDE DEF f, m
    <3> QED
      BY <1>9, <2>1, <2>2
  <2>4. BothOut(p)'
    BY <1>3, <1>4, <1>7, <1>8, <2>1, <2>3, SameMessages DEF BothOut, ThreadsStay
  <2> QED
    BY <1>1, <1>2, <1>3, <1>5, <1>6, <2>3, <2>4, RoundMoves DEF BeforeArray
<1>11. CASE Awaits(p)
  <2> DEFINE m == <<ArrayMessage(p)>>
  <2>1. Channels(p, <<>>, <<>>) /\ OneBusy("awaitArray", p)
    BY <1>11 DEF Awaits
  <2>2. Append(<<>>, ArrayMessage(p)) = m
    BY <1>3, MessagesOfRound, OneElement
  <2>3. Channels(p, m, <<>>)' /\ EvTypeOK'
    <3> HIDE DEF m
    <3> QED
      BY <1>9, <2>1, <2>2
  <2>4. ArrayOut(p)'
    BY <1>3, <1>4, <1>7, <1>8, <2>1, <2>3, SameMessages DEF ArrayOut, ThreadsStay
  <2> QED
    BY <1>1, <1>2, <1>3, <1>5, <1>6, <2>3, <2>4, RoundMoves DEF BeforeArray
<1> QED
  BY <1>2, <1>10, <1>11

\* A bridge is given the packet of the round, which is never for its own process.
LEMMA TransmitMoves ==
  ASSUME EvInv, NEW t \in Tile, TransmitLocal(t) \/ TransmitRemote(t),
         UNCHANGED <<testing_status, times>>
  PROVE  EvInv'
<1>1. EvTypeOK /\ tx[t] # <<>>
  BY DEF EvInv, TransmitLocal, TransmitRemote
<1>2. PICK p \in Rounds : Round(p) /\ Built(p) /\ t = Source[p]
  BY <1>1, FifoShows
<1>3. p \in Dresp /\ p \in Packet
  BY <1>2, RoundTrip DEF Rounds
<1>4. /\ Fifos(p, <<p>>) /\ Senders(p, Unposted, Unposted) /\ Channels(p, <<>>, <<>>) /\ NoneBusy
  BY <1>2 DEF Built
<1>5. tx[t] = <<p>> /\ Head(tx[t]) = p /\ Tail(tx[t]) = <<>>
  <2>1. tx[t] = <<p>>
    BY <1>2, <1>4 DEF Fifos
  <2>2. Head(<<p>>) = p /\ Tail(<<p>>) = <<>>
    BY <1>3, OneElement
  <2> QED
    BY <2>1, <2>2
<1>6. DestRank(p) # RankOf(t)
  BY <1>2, <1>3, RoundTrip DEF SourceRank
<1>7. /\ send' = [send EXCEPT ![p] = "header"] /\ tx' = [tx EXCEPT ![Source[p]] = <<>>]
      /\ UNCHANGED <<created, net, recv, heap>>
  BY <1>2, <1>5, <1>6 DEF TransmitLocal, TransmitRemote, TxPop
<1>8. Rounds' = Rounds /\ ThreadsStay /\ "header" \in Sending \cup {"none", "sent"}
  BY <1>7, ThreadsSame DEF Rounds, Sending
<1>9. \A y \in Packet : send'[y] = IF y = p THEN "header" ELSE send[y]
  BY <1>1, <1>7 DEF EvTypeOK
<1>10. HeapIs(Rounds \ {p})'
  <2>1. send[p] = "none"
    BY <1>4 DEF Senders, Unposted
  <2>2. \A q \in Rounds : send'[q] = "sent" <=> send[q] = "sent"
    BY <1>9, <2>1, RoundTrip DEF Rounds
  <2> QED
    BY <1>2, <1>7, <1>8, <2>2, EitherStage, HeapMoves DEF BeforeArray
<1>11. /\ Senders(p, {"header"}, Unposted)'
       /\ send' \in [Packet -> Sending \cup {"none", "sent"}]
  BY <1>1, <1>3, <1>4, <1>7, <1>8, SenderMoves
<1>12. Fifos(p, <<>>)' /\ DOMAIN tx' = Tile
  BY <1>1, <1>3, <1>4, <1>7, FifoChanges
<1>13. Channels(p, <<>>, <<>>)'
  BY <1>4, <1>7 DEF Channels, SourceRank, DestRank
<1>14. Given(p)'
  BY <1>4, <1>8, <1>11, <1>12, <1>13 DEF Given, ThreadsStay
<1>15. EvTypeOK'
  BY <1>1, <1>7, <1>11, <1>12 DEF EvTypeOK
<1> QED
  BY <1>2, <1>8, <1>9, <1>10, <1>14, <1>15, RoundMoves DEF BeforeArray

\* What the senders do not do leaves them where they are.
LEMMA SendersSame ==
  ASSUME UNCHANGED send
  PROVE  \A p, sp, sa : Senders(p, sp, sa) => Senders(p, sp, sa)'
BY DEF Senders

\* A thread receives the packet, or the answer.
LEMMA ReceiveHeaderMoves ==
  ASSUME EvInv, NEW th \in Thread, ReceiveHeader(th), UNCHANGED <<testing_status, times>>
  PROVE  EvInv'
<1> DEFINE r == th[1]
           st(x) == [pc |-> IF x \in Dresp THEN "awaitArray" ELSE "store",
                     pkt |-> x, ptr |-> OwnPointer(x)]
<1>1. PICK s \in Rank : \E i \in DOMAIN net[s][r] :
        /\ Matches(s, r, tag_default, i) /\ Take(s, r, i)
        /\ recv' = [recv EXCEPT ![th] = st(net[s][r][i].pkt)]
  BY DEF ReceiveHeader
<1>2. PICK i \in DOMAIN net[s][r] :
        /\ Matches(s, r, tag_default, i) /\ Take(s, r, i)
        /\ recv' = [recv EXCEPT ![th] = st(net[s][r][i].pkt)]
  BY <1>1
<1>3. /\ EvTypeOK /\ UNCHANGED <<created, tx, send, heap, testing_status, times>>
      /\ net' = [net EXCEPT ![s][r] = RemoveAt(net[s][r], i)]
      /\ net[s][r][i].tag = tag_default /\ r \in Rank
  BY <1>2 DEF EvInv, ReceiveHeader, Take, Matches, Thread
<1>4. net[s][r] # <<>>
  OBVIOUS
<1>5. PICK p \in Rounds :
        /\ Round(p)
        /\ \/ s = SourceRank(p) /\ r = DestRank(p) /\ (PacketOut(p) \/ BothOut(p) \/ ArrayOut(p))
           \/ s = DestRank(p) /\ r = SourceRank(p) /\ AnswerOut(p)
  BY <1>3, <1>4, MessageShows
<1>6. p \in Dresp /\ Rounds' = Rounds
  BY <1>3 DEF Rounds
<1>7. /\ \A f : Fifos(p, f) => Fifos(p, f)'
      /\ \A sp, sa : Senders(p, sp, sa) => Senders(p, sp, sa)'
  BY <1>3, <1>6, SameMessages, SendersSame
<1>8. /\ HeapIs(Rounds) => HeapIs(Rounds)'
      /\ HeapIs(Rounds \ {p}) => HeapIs(Rounds \ {p})'
  BY <1>3, <1>6, HeapMoves
<1>9. ASSUME NEW x \in Packet, net[s][r][i].pkt = x, NoneBusy
      PROVE  /\ recv' \in [Thread -> EvThreadState]
             /\ OneBusy(IF x \in Dresp THEN "awaitArray" ELSE "store", x)'
  <2> DEFINE u == st(x)
             pc == IF x \in Dresp THEN "awaitArray" ELSE "store"
  <2>1. u \in EvThreadState /\ u.pc = pc /\ u.pkt = x
    BY RanksOfPacket DEF EvThreadState
  <2>2. recv' = [recv EXCEPT ![th] = u]
    BY <1>2, <1>9
  <2> HIDE DEF u, pc
  <2>3. recv' \in [Thread -> EvThreadState] /\ OneBusy(pc, x)'
    BY <1>3, <1>9, <2>1, <2>2, ThreadChanges
  <2> QED
    BY <2>3 DEF pc
<1>10. \A x, y : DOMAIN <<x>> = {1} /\ DOMAIN <<x, y>> = {1, 2}
  OBVIOUS
<1> HIDE DEF r, st
<1>11. CASE s = SourceRank(p) /\ r = DestRank(p) /\ PacketOut(p)
  <2>1. /\ Fifos(p, <<>>) /\ Senders(p, Posted, Unposted) /\ NoneBusy
        /\ Channels(p, <<Header(p)>>, <<>>)
    BY <1>11 DEF PacketOut
  <2>2. net[s][r] = <<Header(p)>>
    BY <1>6, <1>11, <2>1, ChannelsAre
  <2>3. i = 1 /\ net[s][r][i].pkt = p /\ RemoveAt(net[s][r], i) = <<>>
    BY <1>6, <1>10, <2>2, MessagesOfRound, OneElement
  <2>4. /\ Channels(p, <<>>, <<>>)'
        /\ DOMAIN net' = Rank /\ \A k \in Rank : DOMAIN net'[k] = Rank
    BY <1>3, <1>6, <1>11, <2>1, <2>3, ChannelChanges
  <2>5. recv' \in [Thread -> EvThreadState] /\ OneBusy("awaitArray", p)'
    BY <1>6, <1>9, <2>1, <2>3, RoundTrip
  <2>6. Awaits(p)'
    BY <1>7, <2>1, <2>4, <2>5 DEF Awaits
  <2>7. EvTypeOK'
    BY <1>3, <2>4, <2>5 DEF EvTypeOK
  <2>8. HeapIs(Rounds \ {p})'
    BY <1>5, <1>8, <1>11, EitherStage DEF BeforeArray
  <2> QED
    BY <1>3, <1>5, <1>6, <2>6, <2>7, <2>8, RoundMoves DEF BeforeArray
<1>12. CASE s = SourceRank(p) /\ r = DestRank(p) /\ BothOut(p)
  <2> DEFINE m == <<ArrayMessage(p)>>
             f == <<Header(p), ArrayMessage(p)>>
  <2>1. /\ Fifos(p, <<>>) /\ Senders(p, ArrayPosted, Unposted) /\ NoneBusy
        /\ Channels(p, f, <<>>)
    BY <1>12 DEF BothOut
  <2>2. net[s][r] = f
    <3> HIDE DEF f
    <3> QED
      BY <1>6, <1>12, <2>1, ChannelsAre
  <2>3. i = 1 /\ net[s][r][i].pkt = p
    BY <1>3, <1>6, <1>10, <2>2, MessagesOfRound
  <2>4. RemoveAt(net[s][r], i) = m
    <3> DEFINE x == Header(p)
               y == ArrayMessage(p)
    <3>1. x \in Message /\ y \in Message
      BY <1>6, MessagesOfRound
    <3> HIDE DEF x, y
    <3>2. RemoveAt(<<x, y>>, 1) = <<y>>
      BY <3>1, TwoElements
    <3> QED
      BY <2>2, <2>3, <3>2 DEF x, y
  <2>5. /\ Channels(p, m, <<>>)'
        /\ DOMAIN net' = Rank /\ \A k \in Rank : DOMAIN net'[k] = Rank
    <3> HIDE DEF m, f
    <3> QED
      BY <1>3, <1>6, <1>12, <2>1, <2>4, ChannelChanges
  <2>6. recv' \in [Thread -> EvThreadState] /\ OneBusy("awaitArray", p)'
    BY <1>6, <1>9, <2>1, <2>3, RoundTrip
  <2>7. ArrayOut(p)'
    BY <1>6, <1>7, <2>1, <2>5, <2>6, SameMessages DEF ArrayOut
  <2>8. EvTypeOK'
    BY <1>3, <2>5, <2>6 DEF EvTypeOK
  <2>9. HeapIs(Rounds \ {p})'
    BY <1>5, <1>8, <1>12, EitherStage DEF BeforeArray
  <2> QED
    BY <1>3, <1>5, <1>6, <2>7, <2>8, <2>9, RoundMoves DEF BeforeArray
<1>13. CASE s = SourceRank(p) /\ r = DestRank(p) /\ ArrayOut(p)
  <2> DEFINE m == <<ArrayMessage(p)>>
  <2>1. Channels(p, m, <<>>)
    BY <1>13 DEF ArrayOut
  <2>2. net[s][r] = m
    <3> HIDE DEF m
    <3> QED
      BY <1>6, <1>13, <2>1, ChannelsAre
  <2>3. net[s][r][i].tag = DataTag(p)
    BY <1>6, <1>10, <2>2, MessagesOfRound
  <2> QED
    BY <1>3, <1>6, <2>3, MessagesOfRound
<1>14. CASE s = DestRank(p) /\ r = SourceRank(p) /\ AnswerOut(p)
  <2> DEFINE a == Answer[p]
             f == <<Header(a)>>
  <2>1. /\ Fifos(p, <<>>) /\ Senders(p, ArrayPosted, AnswerPosted) /\ NoneBusy
        /\ Channels(p, <<>>, f)
    BY <1>14 DEF AnswerOut
  <2>2. net[s][r] = f
    <3> HIDE DEF f
    <3> QED
      BY <1>6, <1>14, <2>1, ChannelsAre
  <2>3. i = 1 /\ net[s][r][i].pkt = a /\ RemoveAt(net[s][r], i) = <<>>
    BY <1>6, <1>10, <2>2, MessagesOfRound, OneElement
  <2>4. /\ Channels(p, <<>>, <<>>)'
        /\ DOMAIN net' = Rank /\ \A k \in Rank : DOMAIN net'[k] = Rank
    <3> HIDE DEF f
    <3> QED
      BY <1>3, <1>6, <1>14, <2>1, <2>3, ChannelChanges
  <2>5. recv' \in [Thread -> EvThreadState] /\ OneBusy("store", a)'
    BY <1>6, <1>9, <2>1, <2>3, RoundTrip
  <2>6. AnswerHeld(p)'
    BY <1>7, <2>1, <2>4, <2>5 DEF AnswerHeld
  <2>7. EvTypeOK'
    BY <1>3, <2>4, <2>5 DEF EvTypeOK
  <2>8. HeapIs(Rounds)'
    BY <1>5, <1>8, <1>14, EitherStage DEF AfterArray
  <2> QED
    BY <1>3, <1>5, <1>6, <2>6, <2>7, <2>8, RoundMoves DEF AfterArray
<1> QED
  BY <1>5, <1>11, <1>12, <1>13, <1>14

\* A thread that waits receives the array of its packet.
LEMMA ReceiveArrayMoves ==
  ASSUME EvInv, NEW th \in Thread, ReceiveArray(th), UNCHANGED <<testing_status, times>>
  PROVE  EvInv'
<1> DEFINE r == th[1]
           arr(x) == [space |-> r, data |-> x]
           st(x) == [recv[th] EXCEPT !.pc = "store", !.ptr = arr(x)]
<1>1. EvTypeOK /\ recv[th].pc = "awaitArray" /\ ~Quiet(th) /\ r \in Rank
  BY DEF EvInv, ReceiveArray, Quiet, Thread
<1>2. PICK s \in Rank : \E i \in DOMAIN net[s][r] :
        /\ Take(s, r, i) /\ heap' = heap \cup {arr(net[s][r][i].pkt)}
        /\ recv' = [recv EXCEPT ![th].pc = "store", ![th].ptr = arr(net[s][r][i].pkt)]
  BY DEF ReceiveArray, NewWord
<1>3. PICK i \in DOMAIN net[s][r] :
        /\ Take(s, r, i) /\ heap' = heap \cup {arr(net[s][r][i].pkt)}
        /\ recv' = [recv EXCEPT ![th].pc = "store", ![th].ptr = arr(net[s][r][i].pkt)]
  BY <1>2
<1>4. /\ UNCHANGED <<created, tx, send, testing_status, times>>
      /\ net' = [net EXCEPT ![s][r] = RemoveAt(net[s][r], i)]
  BY <1>3 DEF ReceiveArray, Take
<1>5. PICK p \in Rounds : Round(p) /\ recv[th].pkt = p /\ (Awaits(p) \/ ArrayOut(p))
  BY <1>1, ThreadShows
<1>6. p \in Dresp /\ p \in Packet /\ Rounds' = Rounds
  BY <1>4, RoundTrip DEF Rounds
<1>7. s = SourceRank(p) /\ r = DestRank(p) /\ ArrayOut(p)
  <2>1. net[s][r] # <<>>
    OBVIOUS
  <2>2. PICK q \in Rounds :
          /\ Round(q)
          /\ \/ /\ s = SourceRank(q) /\ r = DestRank(q)
                /\ PacketOut(q) \/ BothOut(q) \/ ArrayOut(q)
             \/ s = DestRank(q) /\ r = SourceRank(q) /\ AnswerOut(q)
    BY <1>1, <2>1, MessageShows
  <2>3. q = p
    BY <1>5, <2>2, OneRound
  <2>4. ~NoneBusy
    BY <1>1 DEF NoneBusy
  <2> QED
    BY <2>2, <2>3, <2>4 DEF PacketOut, BothOut, AnswerOut
<1> DEFINE f == <<ArrayMessage(p)>>
<1>8. /\ Fifos(p, <<>>) /\ Senders(p, ArrayPosted, Unposted) /\ OneBusy("awaitArray", p)
      /\ Channels(p, f, <<>>)
  BY <1>7 DEF ArrayOut
<1>9. net[s][r] = f
  <2> HIDE DEF f, r
  <2> QED
    BY <1>6, <1>7, <1>8, ChannelsAre
<1>10. i = 1 /\ net[s][r][i].pkt = p /\ RemoveAt(net[s][r], i) = <<>>
  <2>1. DOMAIN f = {1}
    OBVIOUS
  <2>2. i = 1
    BY <1>9, <2>1
  <2> QED
    BY <1>6, <1>9, <2>2, MessagesOfRound, OneElement
<1> HIDE DEF f, r
<1>11. /\ Channels(p, <<>>, <<>>)'
       /\ DOMAIN net' = Rank /\ \A k \in Rank : DOMAIN net'[k] = Rank
  BY <1>1, <1>4, <1>6, <1>7, <1>8, <1>10, ChannelChanges
<1>12. recv' \in [Thread -> EvThreadState] /\ OneBusy("store", p)'
  <2> DEFINE u == st(p)
  <2>1. recv \in [Thread -> EvThreadState] /\ recv[th] \in EvThreadState
    BY <1>1 DEF EvTypeOK
  <2>2. arr(p) \in Pointer
    BY <1>1, <1>6 DEF Pointer
  <2>3. u \in EvThreadState /\ u.pc = "store" /\ u.pkt = p
    BY <1>5, <2>1, <2>2 DEF EvThreadState
  <2>4. recv' = [recv EXCEPT ![th] = u]
    BY <1>3, <1>10, <2>1 DEF EvThreadState
  <2> HIDE DEF u
  <2> QED
    BY <1>1, <1>8, <2>3, <2>4, ThreadChanges
<1>13. /\ \A g : Fifos(p, g) => Fifos(p, g)'
       /\ \A sp, sa : Senders(p, sp, sa) => Senders(p, sp, sa)'
  BY <1>4, <1>6, SameMessages, SendersSame
<1>14. Whole(p)'
  BY <1>8, <1>11, <1>12, <1>13 DEF Whole
<1>15. EvTypeOK'
  BY <1>1, <1>4, <1>11, <1>12 DEF EvTypeOK
<1>16. HeapIs(Rounds)'
  <2>1. HeapIs(Rounds \ {p})
    BY <1>5, <1>7, EitherStage DEF BeforeArray
  <2>2. heap' = heap \cup {[space |-> DestRank(p), data |-> p]}
    BY <1>3, <1>7, <1>10
  <2>3. \A x : OwnPointer(x)' = OwnPointer(x) /\ DestRank(x)' = DestRank(x)
    BY DEF OwnPointer, NoArray, DestRank
  <2>4. {[space |-> DestRank(q), data |-> q] : q \in Rounds \ {p}}
          \cup {[space |-> DestRank(p), data |-> p]}
          = {[space |-> DestRank(q), data |-> q] : q \in Rounds}
    BY <1>5
  <2> QED
    BY <1>4, <1>6, <2>1, <2>2, <2>3, <2>4 DEF HeapIs
<1> QED
  BY <1>4, <1>5, <1>6, <1>14, <1>15, <1>16, RoundMoves DEF AfterArray

\* A thread that has the whole packet answers it.
LEMMA SendAnswerMoves ==
  ASSUME EvInv, NEW th \in Thread, SendAnswer(th)
  PROVE  EvInv'
<1> DEFINE a == Answer[recv[th].pkt]
<1>1. /\ EvTypeOK /\ recv[th].pc = "store" /\ recv[th].pkt \in Dresp /\ ~Quiet(th)
      /\ send' = [send EXCEPT ![a] = "header"] /\ created' = created \cup {a}
      /\ recv' = IF ThreadedSend THEN [recv EXCEPT ![th] = Listening]
                                 ELSE [recv EXCEPT ![th].pc = "answering"]
      /\ UNCHANGED <<tx, net, heap, testing_status, times>>
  BY DEF EvInv, SendAnswer, Answerable, Quiet
<1>2. PICK p \in Rounds : Round(p) /\ recv[th].pkt = p /\ Whole(p)
  <2>1. \A q \in Rounds : Answer[q] \notin Dresp
    BY RoundTrip DEF Rounds
  <2> QED
    BY <1>1, <2>1, ThreadShows
<1>3. p \in Dresp /\ a = Answer[p] /\ a \in Packet /\ a \notin Dresp /\ p \in Packet
  BY <1>1, <1>2, RoundTrip
<1>4. Rounds' = Rounds
  BY <1>1, <1>3 DEF Rounds
<1> HIDE DEF a
<1>5. /\ Fifos(p, <<>>) /\ Senders(p, ArrayPosted, Unposted) /\ Channels(p, <<>>, <<>>)
      /\ OneBusy("store", p)
  BY <1>2 DEF Whole
<1>6. recv' \in [Thread -> EvThreadState] /\ NoneBusy'
  <2> DEFINE u == IF ThreadedSend THEN Listening ELSE [recv[th] EXCEPT !.pc = "answering"]
  <2>1. recv \in [Thread -> EvThreadState] /\ recv[th] \in EvThreadState
    BY <1>1 DEF EvTypeOK
  <2>2. Listening \in EvThreadState /\ Listening.pc = "listen"
    BY SizeAssumption DEF Listening, EvThreadState, NoArray, Pointer, Rank
  <2>3. u \in EvThreadState /\ u.pc \in {"listen", "answering"}
    BY <2>1, <2>2 DEF EvThreadState
  <2>4. recv' = [recv EXCEPT ![th] = u]
    BY <1>1, <2>1
  <2> HIDE DEF u
  <2> QED
    BY <1>1, <1>5, <2>3, <2>4, ThreadChanges
<1>7. /\ Fifos(p, <<>>)' /\ Channels(p, <<>>, <<>>)'
  BY <1>1, <1>5 DEF Fifos, Channels, SourceRank, DestRank
<1>8. /\ Senders(p, ArrayPosted, {"header"})'
      /\ send' \in [Packet -> Sending \cup {"none", "sent"}]
  BY <1>1, <1>3, <1>5, SenderMoves DEF Sending
<1>9. AnswerGiven(p)'
  BY <1>6, <1>7, <1>8 DEF AnswerGiven
<1>10. \A y \in Packet : send'[y] = IF y = a THEN "header" ELSE send[y]
  BY <1>1 DEF EvTypeOK
<1>11. HeapIs(Rounds)'
  <2>1. \A q \in Rounds : send'[q] = "sent" <=> send[q] = "sent"
    BY <1>3, <1>10, RoundTrip DEF Rounds
  <2> QED
    BY <1>1, <1>2, <1>4, <2>1, EitherStage, HeapMoves DEF AfterArray
<1>12. EvTypeOK'
  <2>1. created' \subseteq Packet /\ IsFiniteSet(created')
    BY <1>1, <1>3, FS_AddElement DEF EvTypeOK
  <2> QED
    BY <1>1, <1>6, <1>8, <2>1 DEF EvTypeOK
<1>13. AfterArray(p)'
  BY <1>9 DEF AfterArray
<1>14. /\ \A x \in Packet : x # p /\ x # Answer[p] => send'[x] = send[x]
       /\ UNCHANGED <<times, testing_status>>
  BY <1>1, <1>3, <1>10
<1> QED
  BY <1>2, <1>4, <1>11, <1>12, <1>13, <1>14, RoundMoves DEF EvInv

\* The packets of the rounds are finitely many.
LEMMA CountRounds ==
  ASSUME EvTypeOK
  PROVE  /\ IsFiniteSet(Rounds) /\ Cardinality(Rounds) \in Nat
         /\ \A p \in Rounds : Cardinality(Rounds \ {p}) + 1 = Cardinality(Rounds)
<1>1. IsFiniteSet(Rounds)
  <2>1. IsFiniteSet(created) /\ Rounds \in SUBSET created
    BY DEF EvTypeOK, Rounds
  <2> QED
    BY <2>1, FS_Subset
<1>2. Cardinality(Rounds) \in Nat
  BY <1>1, FS_CardinalityType
<1>3. \A p \in Rounds : Cardinality(Rounds \ {p}) = Cardinality(Rounds) - 1
  BY <1>1, FS_RemoveElement
<1> QED
  BY <1>1, <1>2, <1>3

\* The answer ends the round.
LEMMA TakeAnswerMoves ==
  ASSUME EvInv, NEW th \in Thread, TakeAnswer(th)
  PROVE  EvInv'
<1>1. /\ EvTypeOK /\ recv[th].pc = "store" /\ recv[th].pkt \in Dack /\ ~Quiet(th)
      /\ times' = times + 1 /\ testing_status' = FALSE /\ recv' = [recv EXCEPT ![th] = Listening]
      /\ UNCHANGED <<created, tx, send, net, heap>>
  BY DEF EvInv, TakeAnswer, AfterAnswer, Quiet
<1>2. recv[th].pkt \notin Dresp
  BY <1>1, RoundTrip DEF Dack
<1>3. PICK p \in Rounds : Round(p) /\ recv[th].pkt = Answer[p] /\ AnswerHeld(p)
  BY <1>1, <1>2, ThreadShows DEF Rounds
<1>4. p \in Dresp /\ Rounds' = Rounds
  BY <1>1 DEF Rounds
<1>5. /\ Fifos(p, <<>>) /\ Senders(p, ArrayPosted, AnswerPosted) /\ Channels(p, <<>>, <<>>)
      /\ OneBusy("store", Answer[p])
  BY <1>3 DEF AnswerHeld
<1>6. recv' \in [Thread -> EvThreadState] /\ NoneBusy'
  <2>1. Listening \in EvThreadState /\ Listening.pc = "listen"
    BY SizeAssumption DEF Listening, EvThreadState, NoArray, Pointer, Rank
  <2> QED
    BY <1>1, <1>5, <2>1, ThreadChanges
<1>7. times' = Cardinality(Rounds) /\ times' \in Nat
  BY <1>1, <1>3, CountRounds DEF Round
<1>8. \A q \in Rounds : Over(q)'
  BY <1>1, <1>3, <1>5 DEF Round, Over, Senders
<1>9. (\A t \in Tile : tx'[t] = <<>>) /\ (\A s, r \in Rank : net'[s][r] = <<>>)
  BY <1>1, <1>5 DEF Fifos, Channels
<1>10. HeapIs(Rounds)'
  BY <1>1, <1>3, <1>4, EitherStage, HeapMoves DEF AfterArray
<1>11. Between'
  BY <1>1, <1>4, <1>6, <1>7, <1>8, <1>9, <1>10 DEF Between
<1>12. EvTypeOK'
  BY <1>1, <1>6, <1>7 DEF EvTypeOK
<1>13. BuiltInOrder'
  BY <1>1, <1>4 DEF EvInv, BuiltInOrder
<1> QED
  BY <1>11, <1>12, <1>13 DEF EvInv

\* The next packet is built when nothing is under way.
LEMMA NewRoundMoves ==
  ASSUME EvInv, NEW p \in Dresp, NewRound(p)
  PROVE  EvInv'
<1>1. /\ EvTypeOK /\ ~testing_status /\ p \notin created /\ testing_status' = TRUE
      /\ \A q \in Packet : q < p /\ Source[q] = Source[p] => q \in created
      /\ created' = created \cup {p}
      /\ tx' = [tx EXCEPT ![Source[p]] = Append(tx[Source[p]], p)] /\ tx[Source[p]] = <<>>
      /\ heap' = heap \cup {OwnPointer(p)}
      /\ UNCHANGED <<send, net, recv, times>>
  BY DEF EvInv, NewRound, RoundOver, Create, TxPush
<1>2. Between
  BY <1>1 DEF EvInv, Round
<1>3. /\ p \in Packet /\ p \notin Rounds /\ Rounds' = Rounds \cup {p} /\ Rounds' \ {p} = Rounds
      /\ p \in Rounds'
  BY <1>1, RoundTrip DEF Rounds
<1>4. \A q \in Rounds : q \in Dresp /\ q \in Nat /\ q # p
  BY <1>3, RoundTrip, PacketAssumption DEF Rounds
<1>5. \A q \in Rounds : q <= p
  <2>1. \A q \in Rounds : ~(p < q)
    BY <1>3 DEF EvInv, BuiltInOrder
  <2> QED
    BY <1>3, <1>4, <2>1, PacketAssumption
<1>6. Senders(p, Unposted, Unposted)'
  <2>1. send[p] = "none"
    BY <1>3, SentPackets
  <2>2. send[Answer[p]] = "none"
    <3>1. SUFFICES ASSUME send[Answer[p]] # "none" PROVE FALSE
      OBVIOUS
    <3>2. Answer[p] \in Packet \ Rounds
      BY RoundTrip DEF Rounds
    <3>3. PICK q \in Rounds : Answer[p] = Answer[q]
      BY <3>1, <3>2 DEF EvInv, BuiltInOrder
    <3> QED
      BY <1>4, <3>3, SameTrip
  <2> QED
    BY <1>1, <2>1, <2>2 DEF Senders, Unposted
<1>7. Fifos(p, <<p>>)' /\ DOMAIN tx' = Tile
  <2>1. Fifos(p, <<>>)
    BY <1>2 DEF Between, Fifos
  <2>2. Append(<<>>, p) = <<p>>
    BY <1>3, OneElement
  <2> DEFINE f == <<p>>
  <2>3. tx' = [tx EXCEPT ![Source[p]] = f]
    BY <1>1, <2>2
  <2> HIDE DEF f
  <2>4. Fifos(p, f)' /\ DOMAIN tx' = Tile
    BY <1>1, <2>1, <2>3, FifoChanges DEF f
  <2> QED
    BY <2>4 DEF f
<1>8. Channels(p, <<>>, <<>>)' /\ NoneBusy'
  BY <1>1, <1>2, ThreadsSame DEF Between, Channels, ThreadsStay
<1>9. Built(p)'
  BY <1>6, <1>7, <1>8 DEF Built
<1>10. HeapIs(Rounds \ {p})'
  <2>1. send[p] # "sent"
    BY <1>3, SentPackets
  <2>2. {q \in Rounds' : send[q] # "sent"} = {q \in Rounds : send[q] # "sent"} \cup {p}
    BY <1>3, <2>1
  <2>3. \A x : OwnPointer(x)' = OwnPointer(x) /\ DestRank(x)' = DestRank(x)
    BY DEF OwnPointer, NoArray, DestRank
  <2> DEFINE Orig(S) == {OwnPointer(q) : q \in S}
             Copies(S) == {[space |-> DestRank(q), data |-> q] : q \in S}
             Kept == {q \in Rounds : send[q] # "sent"}
  <2>4. Orig(Kept \cup {p}) = Orig(Kept) \cup {OwnPointer(p)}
    OBVIOUS
  <2>5. heap = Orig(Kept) \cup Copies(Rounds)
    BY <1>2 DEF Between, HeapIs
  <2>6. heap' = Orig(Kept \cup {p}) \cup Copies(Rounds)
    <3> HIDE DEF Orig, Copies, Kept
    <3> QED
      BY <1>1, <2>4, <2>5
  <2> QED
    BY <1>1, <1>3, <2>2, <2>3, <2>6 DEF HeapIs
<1>11. Round(p)'
  <2>1. \A q \in Rounds' : q <= p /\ (q # p => Over(q)')
    <3>1. p <= p
      BY <1>3, PacketAssumption
    <3>2. \A q \in Rounds : Over(q)'
      BY <1>1, <1>2 DEF Between, Over, Senders
    <3> QED
      BY <1>3, <1>5, <3>1, <3>2
  <2>2. times' = Cardinality(Rounds' \ {p})
    BY <1>1, <1>2, <1>3 DEF Between
  <2> QED
    BY <1>1, <1>9, <1>10, <2>1, <2>2 DEF Round, BeforeArray
<1>12. BuiltInOrder'
  <2>1. ASSUME NEW q \in Rounds', NEW x \in Dresp, x < q PROVE x \in Rounds'
    <3>1. CASE q = p
      <4>1. x \in Packet /\ Source[x] = Source[p]
        BY RoundTrip, SameTrip
      <4> QED
        BY <1>1, <2>1, <3>1, <4>1 DEF Rounds
    <3>2. CASE q \in Rounds
      BY <1>3, <2>1, <3>2 DEF EvInv, BuiltInOrder
    <3> QED
      BY <1>3, <3>1, <3>2
  <2>2. \A x \in Packet \ Rounds' : send'[x] # "none" => \E q \in Rounds' : x = Answer[q]
    BY <1>1, <1>3 DEF EvInv, BuiltInOrder
  <2> QED
    BY <2>1, <2>2 DEF BuiltInOrder
<1>13. EvTypeOK'
  <2>1. created' \subseteq Packet /\ IsFiniteSet(created')
    BY <1>1, <1>3, FS_AddElement DEF EvTypeOK
  <2> QED
    BY <1>1, <1>7, <2>1 DEF EvTypeOK
<1> QED
  BY <1>3, <1>11, <1>12, <1>13 DEF EvInv

-----------------------------------------------------------------------------
(* The theorems *)

\* No round has begun.
LEMMA InitEvInv == EvInit => EvInv
<1> SUFFICES ASSUME EvInit PROVE EvInv
  OBVIOUS
<1>1. /\ created = {} /\ Rounds = {} /\ heap = {} /\ times = 0 /\ testing_status = FALSE
      /\ tx = [t \in Tile |-> <<>>] /\ net = [s \in Rank |-> [r \in Rank |-> <<>>]]
      /\ send = [p \in Packet |-> "none"] /\ recv = [th \in Thread |-> Listening]
  BY DEF EvInit, Init, Rounds
<1>2. Listening \in EvThreadState /\ Listening.pc = "listen"
  BY SizeAssumption DEF Listening, EvThreadState, NoArray, Pointer, Rank
<1>3. EvTypeOK
  BY <1>1, <1>2, FS_EmptySet DEF EvTypeOK
<1>4. BuiltInOrder
  BY <1>1 DEF BuiltInOrder
<1>5. HeapIs(Rounds) /\ NoneBusy /\ times = Cardinality(Rounds)
  BY <1>1, <1>2, FS_EmptySet DEF HeapIs, NoneBusy, Quiet
<1>6. Between
  BY <1>1, <1>5 DEF Between
<1> QED
  BY <1>3, <1>4, <1>6 DEF EvInv

\* Every step keeps one packet at most under way.
LEMMA EvInvNext == EvInv /\ [EvNext]_evVars => EvInv'
<1> SUFFICES ASSUME EvInv, [EvNext]_evVars PROVE EvInv'
  OBVIOUS
<1>1. ASSUME NEW p \in Dresp, NewRound(p) PROVE EvInv'
  BY <1>1, NewRoundMoves
<1>2. ASSUME NEW p \in Packet, SendStep(p), UNCHANGED <<testing_status, times>> PROVE EvInv'
  BY <1>2, PostHeaderMoves, HeaderSentStays, PostArrayMoves, ArraySentStays DEF SendStep
<1>3. ASSUME NEW t \in Tile, TileStep(t), UNCHANGED <<testing_status, times>> PROVE EvInv'
  <2>1. CASE BeginTransmit(t) \/ EndTransmit(t)
    BY <1>3, <2>1, NothingStays DEF BeginTransmit, EndTransmit
  <2> QED
    BY <1>3, <2>1, TransmitMoves DEF TileStep
<1>4. ASSUME NEW th \in Thread, EvThreadStep(th) PROVE EvInv'
  BY <1>4, SendAnswerMoves, AnswerSentStays, TakeAnswerMoves, ReceiveHeaderMoves,
     ReceiveArrayMoves DEF EvThreadStep
<1>5. CASE UNCHANGED evVars
  BY <1>5, NothingStays DEF evVars, vars
<1>6. CASE EvNext
  BY <1>1, <1>2, <1>3, <1>4, <1>6 DEF EvNext
<1> QED
  BY <1>5, <1>6

\* The invariant holds.
THEOREM EvInvHolds == EvSpec => []EvInv
BY InitEvInv, EvInvNext, PTL DEF EvSpec

(* The answer that a thread takes for the end of a round is the answer to  *)
(* the packet that test_time_dresp has sent last, and the test is waiting. *)
THEOREM AnswerOfThisRoundCorrect == EvSpec => []AnswerOfThisRound
<1>1. EvInv => AnswerOfThisRound
  <2> SUFFICES ASSUME EvInv, NEW th \in Thread, recv[th].pc = "store", recv[th].pkt \in Dack
               PROVE  testing_status
                      /\ \E p \in Dresp : Current(p) /\ recv[th].pkt = Answer[p]
    BY DEF AnswerOfThisRound
  <2>1. ~Quiet(th) /\ recv[th].pkt \notin Dresp
    BY RoundTrip DEF Quiet, Dack
  <2>2. PICK p \in Rounds : Round(p) /\ recv[th].pkt = Answer[p]
    BY <2>1, ThreadShows DEF Rounds
  <2>3. Current(p) /\ p \in Dresp /\ testing_status
    BY <2>2 DEF Round, Current, Rounds
  <2> QED
    BY <2>2, <2>3
<1> QED
  BY <1>1, EvInvHolds, PTL

(* When test_time_dresp reads the time, the array of every packet so far   *)
(* has been received, and as many rounds have been timed as were begun.    *)
THEOREM RoundCoversArrayCorrect == EvSpec => []RoundCoversArray
<1>1. EvInv => RoundCoversArray
  <2> SUFFICES ASSUME EvInv, ~testing_status
               PROVE  /\ \A p \in Rounds : send[p] \in {"arrayTest", "sent"} /\ Matched(p)
                      /\ times = Cardinality(Rounds)
    BY DEF RoundCoversArray, Rounds
  <2>1. Between
    BY DEF EvInv, Round
  <2>2. ASSUME NEW p \in Rounds PROVE send[p] \in {"arrayTest", "sent"} /\ Matched(p)
    <3>1. net[SourceRank(p)][DestRank(p)] = <<>>
      BY <2>1, RoundTrip DEF Between, Rounds
    <3>2. DOMAIN net[SourceRank(p)][DestRank(p)] = {}
      BY <3>1
    <3> QED
      BY <2>1, <3>2 DEF Between, Over, Senders, ArrayPosted, Matched
  <2> QED
    BY <2>1, <2>2 DEF Between
<1> QED
  BY <1>1, EvInvHolds, PTL

\* Which arrays have been received can be read off the messages.
LEMMA ReceivedArrays ==
  ASSUME EvInv, NEW p \in Rounds, Round(p)
  PROVE  /\ \A q \in Rounds : q # p => send[q] \in {"arrayTest", "sent"} /\ Matched(q)
         /\ BeforeArray(p) => ~(send[p] \in {"arrayTest", "sent"} /\ Matched(p))
         /\ AfterArray(p) => send[p] \in {"arrayTest", "sent"} /\ Matched(p)
<1> DEFINE F == net[SourceRank(p)][DestRank(p)]
<1>1. p \in Dresp
  BY DEF Rounds
<1>2. \A f, b : Channels(p, f, b) => F = f
  BY <1>1, ChannelsAre
<1>3. \A sp, sa : Senders(p, sp, sa) => send[p] \in sp
  BY DEF Senders
<1>4. \A q \in Rounds : Matched(q) <=> \A i \in DOMAIN F : F[i].pkt # q
  BY <1>1, SameTrip DEF Matched, Rounds
<1> HIDE DEF F
<1>5. BeforeArray(p) \/ AfterArray(p)
  BY DEF Round
<1>6. BeforeArray(p) => \/ send[p] \notin {"arrayTest", "sent"}
                        \/ F = <<Header(p), ArrayMessage(p)>> \/ F = <<ArrayMessage(p)>>
  BY <1>2, <1>3 DEF BeforeArray, Built, Given, PacketOut, BothOut, Awaits, ArrayOut,
                    Unposted, Posted
<1>7. BeforeArray(p) => F \in {<<>>, <<Header(p)>>, <<Header(p), ArrayMessage(p)>>,
                               <<ArrayMessage(p)>>}
  BY <1>2 DEF BeforeArray, Built, Given, PacketOut, BothOut, Awaits, ArrayOut
<1>8. AfterArray(p) => send[p] \in {"arrayTest", "sent"} /\ F = <<>>
  BY <1>2, <1>3 DEF AfterArray, Whole, AnswerGiven, AnswerOut, AnswerHeld, ArrayPosted
<1>9. Header(p).pkt = p /\ ArrayMessage(p).pkt = p
  BY <1>1, MessagesOfRound
<1>10. \A i \in DOMAIN F : F[i].pkt = p
  <2>1. CASE F = <<>>
    BY <2>1
  <2>2. CASE F = <<Header(p)>>
    BY <1>9, <2>2
  <2>3. CASE F = <<Header(p), ArrayMessage(p)>>
    BY <1>9, <2>3
  <2>4. CASE F = <<ArrayMessage(p)>>
    BY <1>9, <2>4
  <2> QED
    BY <1>5, <1>7, <1>8, <2>1, <2>2, <2>3, <2>4
<1>11. F = <<Header(p), ArrayMessage(p)>> \/ F = <<ArrayMessage(p)>> => 1 \in DOMAIN F
  OBVIOUS
<1>12. \A q \in Rounds : q # p => send[q] \in {"arrayTest", "sent"} /\ Matched(q)
  BY <1>4, <1>10 DEF Round, Over, Senders, ArrayPosted
<1>13. BeforeArray(p) => ~(send[p] \in {"arrayTest", "sent"} /\ Matched(p))
  BY <1>4, <1>6, <1>10, <1>11
<1>14. AfterArray(p) => send[p] \in {"arrayTest", "sent"} /\ Matched(p)
  BY <1>4, <1>8
<1> QED
  BY <1>12, <1>13, <1>14

(* The arrays in memory are the sender's until it is sent, and the copy    *)
(* that the process of the receiving thread never deletes.                 *)
THEOREM OneArrayLeftByRoundCorrect == EvSpec => []OneArrayLeftByRound
<1>1. EvInv => OneArrayLeftByRound
  <2> SUFFICES ASSUME EvInv PROVE OneArrayLeftByRound
    OBVIOUS
  <2> DEFINE Come == {q \in Rounds : send[q] \in {"arrayTest", "sent"} /\ Matched(q)}
  <2>1. HeapIs(Come) => OneArrayLeftByRound
    BY DEF HeapIs, OneArrayLeftByRound, Rounds
  <2>2. CASE Between
    <3>1. ASSUME NEW p \in Rounds PROVE send[p] \in {"arrayTest", "sent"} /\ Matched(p)
      <4>1. net[SourceRank(p)][DestRank(p)] = <<>>
        BY <2>2, RoundTrip DEF Between, Rounds
      <4>2. DOMAIN net[SourceRank(p)][DestRank(p)] = {}
        BY <4>1
      <4> QED
        BY <2>2, <4>2 DEF Between, Over, Senders, ArrayPosted, Matched
    <3>2. Come = Rounds
      BY <3>1
    <3> QED
      BY <2>1, <2>2, <3>2 DEF Between
  <2>3. ASSUME NEW p \in Rounds, Round(p) PROVE OneArrayLeftByRound
    <3>1. CASE BeforeArray(p)
      <4>1. Come = Rounds \ {p}
        BY <2>3, <3>1, ReceivedArrays
      <4> QED
        BY <2>1, <2>3, <3>1, <4>1, EitherStage
    <3>2. CASE AfterArray(p)
      <4>1. Come = Rounds
        BY <2>3, <3>2, ReceivedArrays
      <4> QED
        BY <2>1, <2>3, <3>2, <4>1, EitherStage
    <3> QED
      BY <2>3, <3>1, <3>2 DEF Round
  <2> QED
    BY <2>2, <2>3 DEF EvInv
<1> QED
  BY <1>1, EvInvHolds, PTL

=============================================================================
