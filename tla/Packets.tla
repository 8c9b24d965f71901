------------------------------ MODULE Packets ------------------------------
(***************************************************************************)
(* GMCF packets, the addresses they carry, and the tags of MPI messages:   *)
(* the data that every module about the transport of packets shares.       *)
(*                                                                         *)
(* A packet is a number.  What the code reads from its header words is     *)
(* given by the constants below: the node_ids in its To and Return_to      *)
(* fields, and whether its type is P_DRESP, in which case its last word is *)
(* a pointer to an array of floats.                                        *)
(***************************************************************************)
EXTENDS Integers

CONSTANTS
  Size,       \* number of MPI processes (System::size)
  NServices,  \* number of tiles of a process (NSERVICES)
  IdSpan,     \* number of node_ids a field of an MPI tag tells apart (2^14)
  Packet,     \* the packets; a tile creates its packets in increasing order
  Source,     \* Source[p]: the tile whose TX FIFO packet p is put into
  To,         \* To[p]: the node_id in the To field
  ReturnTo,   \* ReturnTo[p]: the node_id in the Return_to field
  Dresp       \* the packets of type P_DRESP

Rank == 0 .. Size - 1

\* node_ids start from 1: Types.h says that 0 is not used as a node_id.
Tile == 1 .. Size * NServices

ASSUME SizeAssumption == Size \in Nat \ {0} /\ NServices \in Nat \ {0}

ASSUME IdSpanAssumption == IdSpan \in Nat \ {0}

ASSUME PacketAssumption ==
  /\ Packet \subseteq Nat \ {0}
  /\ Dresp \subseteq Packet
  /\ Source \in [Packet -> Tile]
  /\ To \in [Packet -> Nat \ {0}]
  /\ ReturnTo \in [Packet -> Nat \ {0}]

-----------------------------------------------------------------------------
(* Addresses *)

\* The tiles that the System constructor of process r creates.
Nodes(r) == r * NServices + 1 .. (r + 1) * NServices

\* The process of a tile, as Transceiver and Bridge compute it.
RankOf(tile) == (tile - 1) \div NServices

\* The tile a packet is for.  A To field above the largest node_id wraps.
Dest(p) == ((To[p] - 1) % (Size * NServices)) + 1

-----------------------------------------------------------------------------
(* Tags of MPI messages *)

(* create_tag: three fields that do not overlap, each holding the low bits *)
(* of what it is given.  A tag is written as the triple of its fields.     *)
create_tag(tag_type, receiver, sender) ==
  <<tag_type, receiver % IdSpan, sender % IdSpan>>

\* The tag of every message but those that hold an array.
tag_default == create_tag(1, 0, 0)

\* A mistake: the tag tells apart the receivers only.
DataTag_NoSender(p) == create_tag(2, Dest(p), 0)

\* The tag of the message that holds the array of packet p (tag_dresp_data).
DataTag(p) == create_tag(2, Dest(p), ReturnTo[p])

(* The packets that a tag is meant to tell apart from others: those of one *)
(* Return_to for one tile, as far as the fields of a tag can show.         *)
Flow(p) == <<Dest(p) % IdSpan, ReturnTo[p] % IdSpan>>

-----------------------------------------------------------------------------
(* Arrays.  A pointer is an address space and what the array there holds:  *)
(* the floats of packet `data'.  0 stands for a last word that is no       *)
(* pointer.                                                                *)

Pointer == [space : Rank, data : Packet \cup {0}]

NoArray == [space |-> 0, data |-> 0]

\* The last word of packet p as its creator leaves it.
OwnPointer(p) ==
  IF p \in Dresp THEN [space |-> RankOf(Source[p]), data |-> p] ELSE NoArray

=============================================================================
