----------------------------- MODULE Transport -----------------------------
(***************************************************************************)
(* What the tiles are promised, whatever the number of bridges and whether *)
(* or not packets are sent by threads of their own: a packet created by a  *)
(* tile is put once into the RX FIFO of the tile it is for.  A P_DRESP     *)
(* packet arrives with an array, and no array arrives twice.  The array is *)
(* one sent from the same Return_to to the same tile (up to the bits a tag *)
(* keeps), not necessarily the packet's own.                               *)
(***************************************************************************)
EXTENDS Packets, Sequences

VARIABLES
  created,    \* the packets put into a TX FIFO so far
  delivered   \* delivered[t]: what was put into the RX FIFO of t, in order

Delivery == [pkt : Packet, data : Packet \cup {0}]

TypeOK ==
  /\ created \subseteq Packet
  /\ delivered \in [Tile -> Seq(Delivery)]

Deliveries == UNION {{delivered[t][i] : i \in DOMAIN delivered[t]} : t \in Tile}

Init ==
  /\ created = {}
  /\ delivered = [t \in Tile |-> <<>>]

Create(p) ==
  /\ p \notin created
  /\ created' = created \cup {p}
  /\ UNCHANGED delivered

(* Packet p arrives, with the array of packet q.                           *)
Deliver(p, q) ==
  /\ p \in created
  /\ \A d \in Deliveries : d.pkt # p
  /\ IF p \in Dresp
     THEN /\ q \in created \cap Dresp
          /\ Flow(q) = Flow(p)
          /\ \A d \in Deliveries : d.data # q
     ELSE q = 0
  /\ delivered' = [delivered EXCEPT
                     ![Dest(p)] = Append(@, [pkt |-> p, data |-> q])]
  /\ UNCHANGED created

Next ==
  \/ \E p \in Packet : Create(p)
  \/ \E p \in Packet, q \in Packet \cup {0} : Deliver(p, q)

vars == <<created, delivered>>

Spec == Init /\ [][Next]_vars

=============================================================================
