------------------------------- MODULE Codec -------------------------------
(***************************************************************************)
(* What a packet and its tags look like: the packing of the header, its    *)
(* getters, the tile that the Transceiver, the bridge and the receiving    *)
(* thread each compute from it, the tag of the message that holds an array *)
(* as the sender and as the receiver make it, and the header of the P_DACK *)
(* answer.                                                                 *)
(*                                                                         *)
(* A word is the set of the positions of its 1 bits, so that shifts and    *)
(* masks are operations on sets, and the sum of fields that do not overlap *)
(* is their union.  A tag is an int of 32 bits.                            *)
(***************************************************************************)
EXTENDS Integers, Sequences

CONSTANTS
  Size, NServices,  \* number of processes, and of tiles of each
  Sender,           \* the processes whose tiles send
  Type,             \* the types of the packets sent
  NodeId            \* the node_ids in To and Return_to

ASSUME CodecAssumption ==
  /\ Size \in Nat \ {0} /\ NServices \in Nat \ {0}
  /\ Sender \subseteq 0 .. Size - 1
  /\ Type \subseteq 0 .. 255 /\ NodeId \subseteq Nat \ {0}

VARIABLES
  stage,     \* "new", "made", "given", "sent", "received", "stored", "answered"
  args,      \* the process that makes the packet, and what from
  packet,    \* the packet, as a sequence of words
  at,        \* the process that has it, or that it is sent to
  stored,    \* the key of nodes under which it is stored
  dest,      \* the tile that a bridge sends it to
  tag,       \* the tag of the message that holds its array
  expected   \* the tag that the receiving thread looks for

vars == <<stage, args, packet, at, stored, dest, tag, expected>>

-----------------------------------------------------------------------------
(* Words *)

Bits(n) == {b \in 0 .. 20 : (n \div 2 ^ b) % 2 = 1}

\* The number that a word of 16 bits stands for.
Value(w) ==
  LET bit(b) == IF b \in w THEN 2 ^ b ELSE 0
  IN  bit(0) + bit(1) + bit(2) + bit(3) + bit(4) + bit(5) + bit(6) + bit(7)
      + bit(8) + bit(9) + bit(10) + bit(11) + bit(12) + bit(13) + bit(14) + bit(15)

ShiftLeft(w, n) == {b + n : b \in w} \cap 0 .. 63
ShiftRight(w, n) == {b - n : b \in {c \in w : c >= n}}

\* The conversion to an unsigned type of n bits.
Low(w, n) == w \cap 0 .. n - 1

\* The operators / and % of C++ for a positive b: they round towards 0.
CDiv(a, b) == IF a >= 0 THEN a \div b ELSE -((-a) \div b)
CRem(a, b) == a - b * CDiv(a, b)

\* % of unsigned ints of 32 bits: a negative a is 2 ^ 32 + a.
URem(a, b) == IF a >= 0 THEN a % b ELSE (a + 2 * (2147483647 % b) + 2) % b

-----------------------------------------------------------------------------
(* Packets *)

F_Packet_type == 56 .. 63
F_Ctrl == 51 .. 55
F_Redir == 48 .. 50
F_Length == 32 .. 47
F_To == 16 .. 31
\* A mistake: the mask covers more than the field.
F_Return_to_Wide == 0 .. 23
F_Return_to == 0 .. 15

P_DRESP == 8
P_DACK == 11

Field(w, shift, mask) == ShiftLeft(w, shift) \cap mask

mkHeader(type, prio, redir, length, to, return_to, ack_to, return_as) ==
  <<Field(type, 56, F_Packet_type) \cup Field(prio, 51, F_Ctrl)
      \cup Field(redir, 48, F_Redir) \cup Field(length, 32, F_Length)
      \cup Field(to, 16, F_To) \cup Field(return_to, 0, F_Return_to),
    ack_to, return_as>>

getTo(header) == Low(ShiftRight(header[1] \cap F_To, 16), 16)
getReturn_to(header) == Low(ShiftRight(header[1] \cap F_Return_to, 0), 16)
getPacket_type(header) == Low(ShiftRight(header[1] \cap F_Packet_type, 56), 8)
getReturn_as(header) == header[3]

mkPacket(header, payload) == header \o payload
getHeader(p) == <<p[1], p[2], p[3]>>
getPayload(p) == SubSeq(p, 4, Len(p))
setHeader(p, header) == header \o getPayload(p)

-----------------------------------------------------------------------------
(* Addresses and tags *)

\* The keys of nodes in a process, and the process of a tile.
Nodes(r) == r * NServices + 1 .. (r + 1) * NServices
to_rank(tile) == CDiv(tile - 1, NServices)

(* The tile of a header is computed in four places.  In the Transceiver,   *)
(* with an unsigned service_id:                                            *)
transmit_dest(header) == URem(Value(getTo(header)) - 1, Size * NServices) + 1

\* A mistake: node_ids start from 1, but are wrapped as if from 0.
node_From0(header) == CRem(Value(getTo(header)), Size * NServices) + 1

\* in Bridge::send and send_th_fcn, with int:
node(header) == CRem(Value(getTo(header)) - 1, Size * NServices) + 1

\* A mistake: what is above the largest node_id is not wrapped.
receiver_node_id_NoModulo(header) == Value(getTo(header))

\* in the receiving thread, for the tag of the array:
receiver_node_id(header) == CRem(Value(getTo(header)) - 1, Size * NServices) + 1

\* and there again, for the tile to store the packet for:
service_id(header) == CRem(Value(getTo(header)) - 1, Size * NServices) + 1

F_tag_t == 0 .. 3
F_receiver_t == 4 .. 17
\* A mistake: the field is one bit short.
F_sender_t_Short == 18 .. 30
F_sender_t == 18 .. 31

tag_default == 1
tag_dresp_data == 2

(* The arguments are cut to 8 and 16 bits by the types of the parameters.  *)
create_tag(type, receiver, sender) ==
  Field(Low(type, 8), 0, F_tag_t) \cup Field(Low(receiver, 16), 4, F_receiver_t)
    \cup Field(Low(sender, 16), 18, F_sender_t)

get_tag_type(t) == ShiftRight(t \cap F_tag_t, 0)
get_receiver_id(t) == ShiftRight(t \cap F_receiver_t, 4)
get_sender_id(t) == ShiftRight(t \cap F_sender_t, 18)

-----------------------------------------------------------------------------
(* The life of a packet *)

D_SIZE == Bits(200000)
Pointer == {5, 20, 40, 62}  \* a word that holds a pointer of the sender
NewPointer == {7, 20, 33}   \* and one of the receiver
Payload == <<Bits(1), Bits(2), Pointer>>

Init ==
  /\ stage = "new"
  /\ args \in [rank : Sender, type : Type, to : NodeId, return_to : NodeId]
  /\ at = args.rank
  /\ packet = <<>> /\ stored = 0 /\ dest = 0 /\ tag = {} /\ expected = {}

\* The test programs make a packet.
Make ==
  /\ stage = "new"
  /\ LET header == mkHeader(Bits(args.type), Bits(2), Bits(3), Bits(Len(Payload)),
                            Bits(args.to), Bits(args.return_to), Bits(7), D_SIZE)
     IN packet' = mkPacket(header, Payload)
  /\ stage' = "made"
  /\ UNCHANGED <<args, at, stored, dest, tag, expected>>

(* transmit_packets: a packet for a tile of this process is stored there,  *)
(* any other is given to a bridge.                                         *)
Transmit ==
  /\ stage = "made"
  /\ LET tile == transmit_dest(getHeader(packet)) IN
       IF to_rank(tile) = at
       THEN stage' = "stored" /\ stored' = tile
       ELSE stage' = "given" /\ UNCHANGED stored
  /\ UNCHANGED <<args, packet, at, dest, tag, expected>>

(* Bridge::send: the tile, and if the packet has an array the tag of its   *)
(* message.                                                                *)
Send ==
  /\ stage = "given"
  /\ LET header == getHeader(packet) IN
       /\ dest' = node(header)
       /\ tag' = IF getPacket_type(header) = Bits(P_DRESP)
                 THEN create_tag(Bits(tag_dresp_data), Bits(dest'), getReturn_to(header))
                 ELSE Bits(tag_default)
  /\ at' = to_rank(dest')
  /\ stage' = "sent"
  /\ UNCHANGED <<args, packet, stored, expected>>

(* The receiving thread of the process sent to, if there is one: the tag   *)
(* that it waits for, and the new pointer.                                 *)
Receive ==
  /\ stage = "sent"
  /\ at \in 0 .. Size - 1
  /\ LET header == getHeader(packet) IN
       IF getPacket_type(header) = Bits(P_DRESP)
       THEN /\ expected' = create_tag(Bits(tag_dresp_data), Bits(receiver_node_id(header)),
                                      getReturn_to(header))
            /\ packet' = [packet EXCEPT ![Len(packet)] = NewPointer]
       ELSE expected' = Bits(tag_default) /\ UNCHANGED packet
  /\ stage' = "received"
  /\ UNCHANGED <<args, at, stored, dest, tag>>

\* Without EVALUATE the receiving thread stores the packet.
Store ==
  /\ stage = "received"
  /\ stored' = service_id(getHeader(packet))
  /\ stage' = "stored"
  /\ UNCHANGED <<args, packet, at, dest, tag, expected>>

\* A mistake: To and Return_to are not exchanged.
AnswerHeader_Same(header) ==
  mkHeader(Bits(P_DACK), Bits(2), Bits(3), Bits(1), Bits(receiver_node_id(header)),
           getReturn_to(header), Bits(7), Bits(0))

AnswerHeader(header) ==
  mkHeader(Bits(P_DACK), Bits(2), Bits(3), Bits(1), getReturn_to(header),
           Bits(receiver_node_id(header)), Bits(7), Bits(0))

\* With EVALUATE it answers, by a bridge.
Answer ==
  /\ stage = "received"
  /\ packet' = mkPacket(AnswerHeader(getHeader(packet)), <<Bits(999)>>)
  /\ dest' = node(getHeader(packet'))
  /\ at' = to_rank(dest')
  /\ stage' = "answered"
  /\ UNCHANGED <<args, stored, tag, expected>>

Next == Make \/ Transmit \/ Send \/ Receive \/ Store \/ Answer

Spec == Init /\ [][Next]_vars

-----------------------------------------------------------------------------
(* Properties *)

IsDresp == args.type = P_DRESP

(* The tile that a node_id stands for: it has 16 bits in a header, and     *)
(* wraps.  If these are 0 it stands for none, unless there is only one.    *)
Wrap(id) ==
  IF id % 65536 = 0 /\ Size * NServices > 1
  THEN 0 ELSE (((id % 65536) - 1) % (Size * NServices)) + 1

(* What is read from a packet is what was put into it: no field runs over  *)
(* into another one, whatever its value.  A node_id loses what is above    *)
(* its 16 bits.  Only the pointer of a P_DRESP changes on the way, and a   *)
(* new header leaves the payload alone.                                    *)
FieldsKept ==
  stage \in {"made", "given", "sent", "received"} =>
    LET header == getHeader(packet)
        answer == AnswerHeader(header)
    IN  /\ getPacket_type(header) = Low(Bits(args.type), 8)
        /\ getTo(header) = Low(Bits(args.to), 16)
        /\ getReturn_to(header) = Low(Bits(args.return_to), 16)
        /\ getReturn_as(header) = D_SIZE
        /\ getPayload(packet) =
             <<Bits(1), Bits(2), IF stage = "received" /\ IsDresp
                                 THEN NewPointer ELSE Pointer>>
        /\ getPayload(setHeader(packet, answer)) = getPayload(packet)
        /\ getHeader(setHeader(packet, answer)) = answer

(* The four computations of the tile agree, from the Transceiver that      *)
(* keeps a packet or gives it away to the key of nodes that it is stored   *)
(* under: a packet goes to another process only, one that exists, and is   *)
(* stored for the tile that Packets!Dest says, in the process that has it. *)
(* That holds unless the To field is 0, which "is not used as a node_id",  *)
(* but which is what is left of 65536: of that the Transceiver, unsigned,  *)
(* makes a tile that exists, and the bridge, signed, never the same one.   *)
DestInRange ==
  /\ args.to % 65536 # 0 =>
       /\ stage \in {"sent", "received"} =>
            dest = Wrap(args.to) /\ at \in 0 .. Size - 1 /\ at # args.rank
       /\ stage = "stored" => stored = Wrap(args.to) /\ stored \in Nodes(at)
  /\ stage = "sent" =>
       (dest = transmit_dest(getHeader(packet)) <=> args.to % 65536 # 0)

(* The receiving thread looks for the tag that the sender gave the array,  *)
(* although each makes it from its own copy of the packet.  No array has   *)
(* the tag of a packet.                                                    *)
TagsAgree ==
  stage = "received" =>
    tag = expected /\ (IsDresp <=> tag # Bits(tag_default))

(* A tag tells apart the flows that Packets!create_tag does: its fields    *)
(* hold 14 bits of the receiver and of the sender.                         *)
TagTellsApart ==
  stage \in {"sent", "received"} /\ IsDresp =>
    /\ get_tag_type(tag) = Bits(tag_dresp_data)
    /\ get_receiver_id(tag) = Low(Bits(dest), 14)
    /\ get_sender_id(tag) = Low(Bits(args.return_to), 14)

(* The tag of an array is one that MPI takes, that is, not negative, for   *)
(* every receiver and sender of "14 bits (1 - 16383)".                     *)
TagUsable ==
  stage = "sent" /\ args.to \in 1 .. 16383 /\ args.return_to \in 1 .. 16383 =>
    31 \notin tag

(* The P_DACK answer goes to the tile in Return_to, names the tile that    *)
(* got the packet, and no array follows it.                                *)
AnswerComesBack ==
  stage = "answered" =>
    LET header == getHeader(packet) IN
      /\ getPacket_type(header) = Bits(P_DACK)
      /\ dest = Wrap(args.return_to)
      /\ getReturn_to(header) = Bits(Wrap(args.to))

=============================================================================
